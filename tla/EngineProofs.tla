--------------------------- MODULE EngineProofs ---------------------------
(***************************************************************************)
(* For every schema and every set of clients.  However they share: the     *)
(* types of the engine, and what it may do to what it borrows.  When no    *)
(* two calls work on the same dict: the passes over a dict agree, and a    *)
(* call sends what the dict meant when it began, as many bytes as the size *)
(* pass counted, or refuses it for what it meant then.                     *)
(***************************************************************************)
EXTENDS EngineTransport, HeaderLemmas, FlattenLemmas

\* The least element that the choice of the root class rests on.
LEMMA LeastOf ==
    ASSUME NEW S \in SUBSET Nat, S # {}
    PROVE  Min(S) \in S
<1>1. PICK x \in S : \A y \in S : x <= y
  BY Least
<1> QED
  BY <1>1 DEF Min

\* The root class of a schema that has one, and its fields.
LEMMA RootFacts ==
    ASSUME NEW p \in Paths, HasRoot(p)
    PROVE  RootClass(p) \in ClassDecl /\ Fields(p) \in Seq(FieldDecl)
<1> DEFINE primary == {i \in DOMAIN Classes[p] : Classes[p][i].primary}
           root == IF primary # {} THEN Min(primary) ELSE 1
<1>1. Classes[p] \in Seq(ClassDecl) /\ Classes[p] # <<>>
  BY EngineAssumption DEF HasRoot
<1>2. Len(Classes[p]) \in Nat /\ 1 \in DOMAIN Classes[p]
  BY <1>1
<1>3. primary \subseteq DOMAIN Classes[p] /\ primary \in SUBSET Nat
  BY <1>1
<1>4. root \in DOMAIN Classes[p]
  <2> HIDE DEF primary
  <2> QED
    BY <1>2, <1>3, LeastOf
<1>5. RootClass(p) = Classes[p][root]
  BY DEF RootClass
<1>6. RootClass(p) \in ClassDecl
  <2> HIDE DEF root
  <2> QED
    BY <1>1, <1>4, <1>5
<1> QED
  BY <1>6 DEF Fields, ClassDecl

\* What the kinds of cells carry.
LEMMA CellFacts ==
    /\ Absent \in Cell /\ None \in Cell /\ Absent \in Cells /\ None \in Cells
    /\ \A cell \in Cell : cell.is = "text" => cell.data \in Seq(Byte)
    /\ \A cell \in Cell : cell.is = "number" => cell.data \in [{1} -> Int]
    /\ \A n \in Byte : Number(n) \in Cell
    /\ \A bytes \in Seq(Byte) : Text(bytes) \in Cell
<1>1. Absent \in Cell /\ None \in Cell /\ Absent \in Cells /\ None \in Cells
  BY EngineAssumption DEF Cell, Missing
<1>2. Absent.is = "absent" /\ None.is = "none"
  BY DEF Absent, None
<1>3. ASSUME NEW cell \in Cell, cell.is = "text" PROVE cell.data \in Seq(Byte)
  BY <1>2, <1>3 DEF Cell, Missing
<1>4. ASSUME NEW cell \in Cell, cell.is = "number" PROVE cell.data \in [{1} -> Int]
  BY <1>2, <1>4 DEF Cell, Missing
<1>5. ASSUME NEW n \in Byte PROVE Number(n) \in Cell
  <2>1. <<n>> \in [{1} -> Int]
    BY DEF Byte
  <2> QED
    BY <2>1 DEF Cell, Number
<1>6. ASSUME NEW bytes \in Seq(Byte) PROVE Text(bytes) \in Cell
  BY DEF Cell, Text
<1> QED
  BY <1>1, <1>3, <1>4, <1>5, <1>6

\* The bytes of a field, whenever it can be encoded.
LEMMA FieldType ==
    ASSUME NEW f \in FieldDecl, NEW cell \in Cell, Encodable(f, cell)
    PROVE  EncodeField(f, cell) \in Seq(Byte)
<1>1. \A n \in Nat : IntBytes(n) \in Seq(Byte)
  BY DEF IntBytes, Byte
<1>2. CASE f.option /\ cell = None
  BY <1>2 DEF EncodeField, Byte
<1>3. CASE ~(f.option /\ cell = None)
  <2>1. EncodeValue(f, cell) \in Seq(Byte)
    <3>1. CASE f.kind = "byte" /\ cell.is = "number" /\ cell.data[1] \in Byte
      BY <3>1 DEF EncodeValue
    <3>2. CASE f.kind = "string" /\ cell.is = "text"
      BY <1>1, <3>2, CellFacts DEF EncodeValue
    <3> QED
      BY <1>3, <3>1, <3>2 DEF Encodable
  <2>2. <<1>> \in Seq(Byte)
    BY DEF Byte
  <2> QED
    BY <1>3, <2>1, <2>2 DEF EncodeField
<1> QED
  BY <1>2, <1>3

\* What a slice takes, and what it leaves.
LEMMA CutFacts ==
    ASSUME NEW s \in Seq(Byte), NEW n \in Int
    PROVE  /\ Cut(s, n) \in 0..Len(s) /\ Cut(s, n) \in Int
           /\ UpTo(s, n) \in Seq(Byte) /\ From(s, n) \in Seq(Byte)
<1>1. ASSUME NEW a \in Int, NEW b \in Int PROVE Max({a, b}) \in {a, b} /\ Max({a, b}) >= a
  <2>1. \E x \in {a, b} : \A y \in {a, b} : x >= y
    <3>1. CASE a >= b
      BY <3>1
    <3>2. CASE b >= a
      BY <3>2
    <3> QED
      BY <3>1, <3>2
  <2> QED
    BY <2>1 DEF Max
<1>2. ASSUME NEW a \in Int, NEW b \in Int PROVE Min({a, b}) \in {a, b} /\ Min({a, b}) <= b
  <2>1. \E x \in {a, b} : \A y \in {a, b} : x <= y
    <3>1. CASE a >= b
      BY <3>1
    <3>2. CASE b >= a
      BY <3>2
    <3> QED
      BY <3>1, <3>2
  <2> QED
    BY <2>1 DEF Min
<1>3. Len(s) \in Nat /\ Len(s) \in Int
  OBVIOUS
<1>4. Cut(s, n) \in 0..Len(s)
  <2>1. CASE n < 0
    <3>1. Max({0, Len(s) + n}) \in {0, Len(s) + n} /\ Max({0, Len(s) + n}) >= 0
      BY <1>1, <1>3
    <3> QED
      BY <1>3, <2>1, <3>1 DEF Cut
  <2>2. CASE ~(n < 0)
    <3>1. Min({n, Len(s)}) \in {n, Len(s)} /\ Min({n, Len(s)}) <= Len(s)
      BY <1>2, <1>3, Zenon
    <3> QED
      BY <1>3, <2>2, <3>1 DEF Cut
  <2> QED
    BY <2>1, <2>2
<1> QED
  BY <1>3, <1>4 DEF UpTo, From

\* Four bytes always read as a number, of whatever sign.
LEMMA IntType ==
    ASSUME NEW bytes \in Seq(Byte), Len(bytes) = 4
    PROVE  IntOf(bytes) \in Int
<1>1. bytes[1] \in Int /\ bytes[2] \in Int /\ bytes[3] \in Int /\ bytes[4] \in Int
  <2>1. bytes[1] \in Byte /\ bytes[2] \in Byte /\ bytes[3] \in Byte /\ bytes[4] \in Byte
    OBVIOUS
  <2>2. \A n \in Byte : n \in Int
    BY DEF Byte
  <2> QED
    BY <2>1, <2>2, Zenon
<1> QED
  BY <1>1, SMTT(40) DEF IntOf

----------------------------------------------------------------------------
\* A pass over fields has a root class to take them from, and the two steps
\* that finish a field have one.
Sound(frame) ==
    /\ frame.at \in {"fill", "writeNone", "measure", "check", "put", "read", "text"}
          => HasRoot(frame.schema)
    /\ frame.at \in {"writeNone", "text"} => frame.todo # <<>>

TypeInv == TypeOK /\ \A c \in Clients : Sound(call[c])

\* The frame of a thread between two calls.
LEMMA IdleType ==
    ASSUME NEW c \in Clients
    PROVE  NoCall(c) \in Frames /\ Sound(NoCall(c))
<1>1. Scratch[c] \in AllDicts /\ NoArray \in Arrays /\ <<>> \in Paths
  BY EngineAssumption, NestedAssumption DEF AllDicts, NoArray
<1>2. Nothing \in Values
  BY CellFacts DEF Nothing, Values
<1>3. NoMeaning \in Meanings
  BY <1>2 DEF NoMeaning, Meanings
<1>4. <<>> \in Seq(Byte) /\ <<>> \in Seq(FieldDecl) /\ {} \in SUBSET FieldDecl
  OBVIOUS
<1> QED
  BY <1>1, <1>2, <1>3, <1>4 DEF NoCall, Frames, Labels, Sound

\* A call that goes on with a frame of the right type.
LEMMA CallType ==
    ASSUME TypeInv, NEW c \in Clients, NEW frame \in Frames, Sound(frame),
           Continue(c, frame)
    PROVE  call' \in [Clients -> Frames] /\ \A o \in Clients : Sound(call'[o])
<1>1. call' = [call EXCEPT ![c] = frame] /\ call \in [Clients -> Frames]
  BY DEF Continue, TypeInv, TypeOK
<1>2. \A o \in Clients : call'[o] = IF o = c THEN frame ELSE call[o]
  BY <1>1
<1> QED
  BY <1>1, <1>2 DEF TypeInv

\* A call that returns or raises.
LEMMA LeaveType ==
    ASSUME TypeInv, NEW c \in Clients, Leave(c)
    PROVE  call' \in [Clients -> Frames] /\ \A o \in Clients : Sound(call'[o])
BY IdleType, CallType DEF Leave

\* Everything but the frames, of a step that changes nothing else.
Rest == <<callers, defaultBuffer, listeners, result, history>>

\* A step that only moves its frame keeps all the types.
LEMMA RestType ==
    ASSUME TypeInv, UNCHANGED Rest,
           call' \in [Clients -> Frames], \A o \in Clients : Sound(call'[o])
    PROVE  TypeInv'
BY DEF TypeInv, TypeOK, Rest, callers, listeners, history

\* What a frame, its dict and its bytes are made of.
LEMMA FrameFacts ==
    ASSUME TypeInv, NEW c \in Clients
    PROVE  /\ call[c] \in Frames /\ Sound(call[c])
           /\ Resolved(c).path \in Paths /\ Resolved(c).path \in Seq(Nat)
           /\ call[c].todo # <<>> =>
                 Field(c) \in FieldDecl /\ Tail(call[c].todo) \in Seq(FieldDecl)
           /\ CellsOf(c) \in [Keys -> Cell]
           /\ Source(c) \in Seq(Byte)
<1>1. call[c] \in Frames /\ Sound(call[c])
  BY DEF TypeInv, TypeOK
<1>2. call[c].todo # <<>> =>
         Field(c) \in FieldDecl /\ Tail(call[c].todo) \in Seq(FieldDecl)
  <2>1. call[c].todo \in Seq(FieldDecl)
    BY <1>1 DEF Frames
  <2> QED
    BY <2>1 DEF Field
<1>3. CellsOf(c) \in [Keys -> Cell]
  <2>1. call[c].dict \in AllDicts
    BY <1>1 DEF Frames
  <2>2. CellsOf(c) \in [Keys -> Cells]
    BY <2>1 DEF TypeInv, TypeOK, CellsOf
  <2> QED
    BY <2>2, EngineAssumption
<1>4. Source(c) \in Seq(Byte)
  <2>1. call[c].array \in Arrays /\ call[c].buffer \in Seq(Byte)
    BY <1>1 DEF Frames
  <2> QED
    BY <2>1 DEF TypeInv, TypeOK, Source
<1> QED
  BY <1>1, <1>2, <1>3, <1>4, ResolvedType DEF Resolved

\* What is sent for a field, and what a dict means.
LEMMA SentType ==
    ASSUME NEW f \in FieldDecl, NEW cells \in [Keys -> Cell]
    PROVE  ValueFor(f, cells) \in Cell /\ Sent(f, cells) \in Cell
<1>1. f.name \in Keys /\ f.default \in Cell
  BY DEF FieldDecl
<1> QED
  BY <1>1, CellFacts DEF ValueFor, Sent

\* What a caller meant, worked out from the names and the cells of its dict.
LEMMA MeaningType ==
    ASSUME NEW names, NEW cells \in [Keys -> Cell]
    PROVE  Meaning([ns |-> names, cells |-> cells]) \in Meanings
<1> DEFINE ns == NamespaceOf(names)
           known == ns.ok /\ HasRoot(ns.path)
           sends(k) == {f \in ToSet(Fields(ns.path)) : f.name = k}
<1>1. ns.path \in Paths /\ ns.path \in Seq(Nat)
  BY ResolvedType
<1>2. ASSUME NEW k \in Keys
      PROVE  (IF known /\ sends(k) # {}
              THEN Sent(CHOOSE f \in sends(k) : TRUE, cells) ELSE Absent) \in Cell
  <2>1. CASE known /\ sends(k) # {}
    <3>1. Fields(ns.path) \in Seq(FieldDecl)
      BY <1>1, <2>1, RootFacts
    <3>2. sends(k) \subseteq FieldDecl
      BY <3>1 DEF ToSet
    <3>3. (CHOOSE f \in sends(k) : TRUE) \in FieldDecl
      BY <2>1, <3>2
    <3> QED
      BY <2>1, <3>3, SentType
  <2>2. CASE ~(known /\ sends(k) # {})
    BY <2>2, CellFacts
  <2> QED
    BY <2>1, <2>2
<1> QED
  BY <1>1, <1>2 DEF Meaning, Meanings, Values

----------------------------------------------------------------------------
\* The steps of serialize, one after the other.
LEMMA SerializeType ==
    ASSUME TypeInv, NEW c \in Clients, Serialize(c)
    PROVE  TypeInv'
<1> DEFINE f == Field(c)
           path == Resolved(c).path
<1>1. /\ call[c] \in Frames /\ Sound(call[c])
      /\ path \in Paths /\ path \in Seq(Nat)
      /\ call[c].todo # <<>> => f \in FieldDecl /\ Tail(call[c].todo) \in Seq(FieldDecl)
      /\ CellsOf(c) \in [Keys -> Cell]
      /\ call[c].schema \in Paths
  BY FrameFacts DEF Frames
<1>2. HasRoot(call[c].schema) => Fields(call[c].schema) \in Seq(FieldDecl)
  BY <1>1, RootFacts
<1>3. ASSUME NEW frame \in Frames, Sound(frame), Continue(c, frame), UNCHANGED Rest
      PROVE  TypeInv'
  BY <1>3, CallType, RestType
<1>4. ASSUME Leave(c), UNCHANGED Rest PROVE TypeInv'
  BY <1>4, LeaveType, RestType
<1>5. CASE SizeRoot(c)
  <2> DEFINE frame == [call[c] EXCEPT !.at = "sizeHeader", !.schema = path]
  <2>1. frame \in Frames /\ Sound(frame)
    BY <1>1 DEF Frames, Labels, Serializing, Sound
  <2> QED
    BY <1>3, <1>4, <1>5, <2>1 DEF SizeRoot, Rest
<1>6. CASE SizeHeader(c)
  <2> DEFINE frame == [call[c] EXCEPT !.at = "fill", !.size = HeaderSize(path),
                                      !.todo = Fields(call[c].schema)]
  <2>1. HasRoot(call[c].schema) => frame \in Frames /\ Sound(frame)
    <3>1. Len(path) \in Nat
      BY <1>1
    <3>2. CeilHalf(Len(path)) \in Nat
      BY <3>1, HalfFacts, Zenon
    <3>3. HeaderSize(path) \in Int
      BY <3>2 DEF HeaderSize
    <3> QED
      BY <1>1, <1>2, <3>3 DEF Frames, Labels, Serializing, Sound
  <2> QED
    BY <1>3, <1>4, <1>6, <2>1 DEF SizeHeader, Rest
<1>7. CASE Fill(c)
  <2> DEFINE next == [call[c] EXCEPT !.todo = Tail(@)]
             none == [call[c] EXCEPT !.at = "writeNone"]
  <2>1. call[c].todo # <<>> /\ call[c].at = "fill"
    BY <1>7 DEF Fill, Coming, At
  <2>2. next \in Frames /\ Sound(next) /\ none \in Frames /\ Sound(none)
    BY <1>1, <2>1 DEF Frames, Labels, Serializing, Sound
  <2> QED
    BY <1>3, <1>4, <1>7, <2>2 DEF Fill, Rest
<1>8. CASE WriteNone(c)
  <2> DEFINE frame == [call[c] EXCEPT !.at = "fill", !.todo = Tail(@)]
  <2>1. call[c].todo # <<>>
    BY <1>1, <1>8 DEF WriteNone, At, Sound
  <2>2. frame \in Frames /\ Sound(frame)
    BY <1>1, <1>8, <2>1 DEF WriteNone, At, Frames, Labels, Serializing, Sound
  <2>3. call' \in [Clients -> Frames] /\ \A o \in Clients : Sound(call'[o])
    BY <1>8, <2>2, CallType DEF WriteNone
  <2>4. dicts' \in [AllDicts -> [ns : Seq(STRING), cells : [Keys -> Cells]]]
    BY <1>8, CellFacts DEF WriteNone, TypeInv, TypeOK
  <2> QED
    BY <1>8, <2>3, <2>4 DEF WriteNone, TypeInv, TypeOK, listeners, history
<1>9. CASE Filled(c)
  <2> DEFINE frame == [call[c] EXCEPT !.at = "measure", !.todo = Fields(call[c].schema)]
  <2>1. frame \in Frames /\ Sound(frame)
    <3>1. HasRoot(call[c].schema)
      BY <1>1, <1>9 DEF Filled, Through, At, Sound
    <3> QED
      BY <1>1, <1>2, <3>1 DEF Frames, Labels, Serializing, Sound
  <2> QED
    BY <1>3, <1>9, <2>1 DEF Filled, Rest
<1>10. CASE Measure(c)
  <2> DEFINE cell == ValueFor(f, CellsOf(c))
             more == IF cell = Absent THEN 0 ELSE SizeOf(f, cell)
             total == call[c].size + more
             frame == [call[c] EXCEPT !.todo = Tail(@), !.size = total]
  <2>1. call[c].todo # <<>> /\ call[c].at = "measure"
    BY <1>10 DEF Measure, Coming, At
  <2>2. total \in Int
    <3>1. cell.data \in Seq(Byte) \/ cell.data \in [{1} -> Int] \/ cell.data = <<>>
      BY <1>1, <2>1, SentType DEF Cell, Missing, Absent, None
    <3>2. more \in Int
      BY <3>1 DEF SizeOf
    <3>3. call[c].size \in Int
      BY <1>1 DEF Frames
    <3> HIDE DEF more
    <3> QED
      BY <3>2, <3>3
  <2>3. frame \in Frames /\ Sound(frame)
    <3> HIDE DEF total
    <3> QED
      BY <1>1, <2>1, <2>2 DEF Frames, Labels, Serializing, Sound
  <2> QED
    BY <1>3, <1>10, <2>3 DEF Measure, Rest
<1>11. CASE NewBuffer(c)
  <2> DEFINE frame == [call[c] EXCEPT !.at = "putHeader", !.buffer = defaultBuffer]
  <2>1. frame \in Frames /\ Sound(frame)
    BY <1>1 DEF Frames, Labels, Serializing, Sound, TypeInv, TypeOK
  <2> QED
    BY <1>3, <1>11, <2>1 DEF NewBuffer, Rest
<1>12. CASE PutHeader(c)
  <2> DEFINE bytes == call[c].buffer \o EncodeHeader(Version, path)
             frame == [call[c] EXCEPT !.at = "findSchema", !.buffer = bytes]
  <2>1. Packable(path) => frame \in Frames /\ Sound(frame)
    <3>1. call[c].buffer \in Seq(Byte) /\ Version \in Byte
      BY <1>1 DEF Frames, Version, Byte
    <3>2. Packable(path) => EncodeHeader(Version, path) \in Seq(Byte)
      BY <1>1, <3>1, HeaderType
    <3>3. Packable(path) => bytes \in Seq(Byte)
      BY <3>1, <3>2
    <3> HIDE DEF bytes
    <3> QED
      BY <1>1, <3>3 DEF Frames, Labels, Serializing, Sound
  <2> QED
    BY <1>3, <1>4, <1>12, <2>1 DEF PutHeader, Put, Rest
<1>13. CASE FindSchema(c)
  <2> DEFINE frame == [call[c] EXCEPT !.at = "check", !.schema = path,
                                      !.todo = Fields(path)]
  <2>1. HasRoot(path) => frame \in Frames /\ Sound(frame)
    BY <1>1, RootFacts DEF Frames, Labels, Serializing, Sound
  <2>2. call' \in [Clients -> Frames] /\ \A o \in Clients : Sound(call'[o])
    BY <1>13, <2>1, CallType, LeaveType DEF FindSchema
  <2>3. HasRoot(path) => <<"class", RootClass(path).name>> \in {"class", "field"} \X (STRING \cup Keys)
    BY <1>1, RootFacts DEF ClassDecl
  <2>4. /\ notified' \subseteq {"class", "field"} \X (STRING \cup Keys)
        /\ UNCHANGED listening
    BY <1>13, <2>3 DEF FindSchema, Notify, TypeInv, TypeOK, listeners
  <2> QED
    BY <1>13, <2>2, <2>4 DEF FindSchema, TypeInv, TypeOK, callers, history
<1>14. CASE Check(c)
  <2> DEFINE frame == [call[c] EXCEPT !.todo = Tail(@)]
  <2>1. call[c].todo # <<>> /\ call[c].at = "check"
    BY <1>14 DEF Check, Coming, At
  <2>2. frame \in Frames /\ Sound(frame)
    BY <1>1, <2>1 DEF Frames, Labels, Serializing, Sound
  <2> QED
    BY <1>3, <1>4, <1>14, <2>2 DEF Check, Rest
<1>15. CASE Checked(c)
  <2> DEFINE frame == [call[c] EXCEPT !.at = "put", !.todo = Fields(call[c].schema),
                                      !.omits = Omitted(c)]
  <2>1. HasRoot(call[c].schema)
    BY <1>1, <1>15 DEF Checked, Through, At, Sound
  <2>2. Omitted(c) \in SUBSET FieldDecl
    BY <1>2, <2>1 DEF Omitted, ToSet
  <2>3. frame \in Frames /\ Sound(frame)
    BY <1>1, <1>2, <2>1, <2>2 DEF Frames, Labels, Serializing, Sound
  <2> QED
    BY <1>3, <1>15, <2>3 DEF Checked, Rest
<1>16. CASE OmitField(c)
  <2> DEFINE frame == [call[c] EXCEPT !.todo = Tail(@)]
  <2>1. call[c].todo # <<>> /\ call[c].at = "put"
    BY <1>16 DEF OmitField, Coming, At
  <2>2. frame \in Frames /\ Sound(frame)
    BY <1>1, <2>1 DEF Frames, Labels, Serializing, Sound
  <2> QED
    BY <1>3, <1>16, <2>2 DEF OmitField, Rest
<1>17. CASE PutField(c)
  <2> DEFINE cell == Sent(f, CellsOf(c))
             bytes == call[c].buffer \o EncodeField(f, cell)
             frame == [call[c] EXCEPT !.todo = Tail(@), !.buffer = bytes]
  <2>1. call[c].todo # <<>> /\ call[c].at = "put" /\ f \in FieldDecl
    BY <1>1, <1>17 DEF PutField, Coming, At
  <2>2. Encodable(f, cell) => frame \in Frames /\ Sound(frame)
    <3>1. Encodable(f, cell) => EncodeField(f, cell) \in Seq(Byte)
      BY <1>1, <2>1, SentType, FieldType
    <3>2. call[c].buffer \in Seq(Byte)
      BY <1>1 DEF Frames
    <3>3. Encodable(f, cell) => bytes \in Seq(Byte)
      BY <3>1, <3>2
    <3> HIDE DEF bytes
    <3> QED
      BY <1>1, <2>1, <3>3 DEF Frames, Labels, Serializing, Sound
  <2>3. call' \in [Clients -> Frames] /\ \A o \in Clients : Sound(call'[o])
    BY <1>17, <2>2, CallType, LeaveType DEF PutField, Put
  <2>4. /\ notified' \subseteq {"class", "field"} \X (STRING \cup Keys)
        /\ UNCHANGED listening
    <3>1. f.name \in Keys
      BY <2>1 DEF FieldDecl
    <3> QED
      BY <1>17, <3>1 DEF PutField, Notify, FieldSubjects, TypeInv, TypeOK
  <2>5. UNCHANGED <<callers, defaultBuffer, result, history>>
    BY <1>17 DEF PutField, Put
  <2> QED
    BY <2>3, <2>4, <2>5 DEF TypeInv, TypeOK, callers, history
<1>18. CASE ReturnMessage(c)
  <2>1. call' \in [Clients -> Frames] /\ \A o \in Clients : Sound(call'[o])
    BY <1>18, LeaveType DEF ReturnMessage
  <2>2. call[c].buffer \in Seq(Byte) /\ call[c].meant \in Meanings
    BY <1>1 DEF Frames
  <2>3. /\ heap' \in [Arrays -> Seq(Byte)] /\ given' \in [Arrays -> Seq(Byte)]
        /\ meaning' \in [Arrays -> Meanings]
    BY <1>18, <2>2 DEF ReturnMessage, TypeInv, TypeOK
  <2> QED
    BY <1>18, <2>1, <2>3 DEF ReturnMessage, TypeInv, TypeOK, listeners
<1> QED
  BY <1>5, <1>6, <1>7, <1>8, <1>9, <1>10, <1>11, <1>12, <1>13, <1>14, <1>15,
     <1>16, <1>17, <1>18 DEF Serialize

----------------------------------------------------------------------------
\* Taking a byte off the bytes there are, in place or not.
LEMMA PopType ==
    ASSUME TypeInv, NEW c \in Clients, NEW frame \in Frames, Sound(frame),
           frame.array = call[c].array, frame.buffer = call[c].buffer,
           frame.inPlace = call[c].inPlace,
           Source(c) # <<>>, Pop(c, frame),
           UNCHANGED <<dicts, edits, defaultBuffer, listeners, result, history>>
    PROVE  TypeInv'
<1>1. Source(c) \in Seq(Byte) /\ Tail(Source(c)) \in Seq(Byte)
  BY FrameFacts
<1>2. CASE frame.inPlace
  <2>1. call' \in [Clients -> Frames] /\ \A o \in Clients : Sound(call'[o])
    BY <1>2, CallType DEF Pop
  <2>2. heap' = [heap EXCEPT ![frame.array] = Tail(@)] /\ Source(c) = heap[frame.array]
    BY <1>2 DEF Pop, Source
  <2>3. heap' \in [Arrays -> Seq(Byte)]
    BY <1>1, <2>2 DEF TypeInv, TypeOK
  <2> QED
    BY <2>1, <2>3 DEF TypeInv, TypeOK, listeners, history
<1>3. CASE ~frame.inPlace
  <2> DEFINE next == [frame EXCEPT !.buffer = Tail(@)]
  <2>1. Source(c) = frame.buffer
    BY <1>3 DEF Source
  <2>2. next \in Frames /\ Sound(next)
    BY <1>1, <2>1 DEF Frames, Sound
  <2>3. call' \in [Clients -> Frames] /\ \A o \in Clients : Sound(call'[o])
    BY <1>3, <2>2, CallType DEF Pop
  <2> QED
    BY <1>3, <2>3 DEF Pop, TypeInv, TypeOK, listeners, history
<1> QED
  BY <1>2, <1>3

\* A frame that has read one more field.
LEMMA HavingType ==
    ASSUME TypeInv, NEW c \in Clients, NEW cell \in Cell,
           call[c].todo # <<>>, call[c].at \in {"read", "text"}
    PROVE  /\ [Having(c, cell) EXCEPT !.at = "read", !.size = 0] \in Frames
           /\ Sound([Having(c, cell) EXCEPT !.at = "read", !.size = 0])
           /\ call[c].at = "read" => Having(c, cell) \in Frames /\ Sound(Having(c, cell))
           /\ Having(c, cell).array = call[c].array
           /\ Having(c, cell).buffer = call[c].buffer
           /\ Having(c, cell).inPlace = call[c].inPlace
<1> DEFINE had == [call[c].got EXCEPT ![Field(c).name] = cell]
           rest == Tail(call[c].todo)
           next == [call[c] EXCEPT !.got = had, !.todo = rest, !.flagged = FALSE]
<1>1. /\ call[c] \in Frames /\ Sound(call[c])
      /\ rest \in Seq(FieldDecl)
  BY FrameFacts
<1>2. had \in Values
  BY <1>1 DEF Frames, Values
<1>3. Having(c, cell) = next
  BY DEF Having
<1> HIDE DEF had, rest
<1>4. /\ next \in Frames
      /\ call[c].at = "read" => Sound(next)
      /\ HasRoot(next.schema)
      /\ next.array = call[c].array /\ next.buffer = call[c].buffer
      /\ next.inPlace = call[c].inPlace
  BY <1>1, <1>2 DEF Frames, Sound
<1> HIDE DEF next
<1>5. [next EXCEPT !.at = "read", !.size = 0] \in Frames
  <2>1. "read" \in Labels /\ 0 \in Int
    BY DEF Labels, Deserializing
  <2>2. \A r \in Frames : [r EXCEPT !.at = "read", !.size = 0] \in Frames
    BY <2>1 DEF Frames
  <2> QED
    BY <1>4, <2>2
<1>6. Sound([next EXCEPT !.at = "read", !.size = 0])
  <2>1. /\ [next EXCEPT !.at = "read", !.size = 0].at = "read"
        /\ [next EXCEPT !.at = "read", !.size = 0].schema = next.schema
    BY <1>4 DEF Frames
  <2> QED
    BY <1>4, <2>1 DEF Sound
<1> QED
  BY <1>3, <1>4, <1>5, <1>6

\* The steps of deserialize, one after the other.
LEMMA DeserializeType ==
    ASSUME TypeInv, NEW c \in Clients, Deserialize(c)
    PROVE  TypeInv'
<1>1. /\ call[c] \in Frames /\ Sound(call[c])
      /\ Source(c) \in Seq(Byte)
      /\ call[c].todo # <<>> => Field(c) \in FieldDecl
  BY FrameFacts
<1>2. Source(c) # <<>> => Head(Source(c)) \in Byte
  BY <1>1
<1>3. ASSUME Leave(c), UNCHANGED Rest PROVE TypeInv'
  BY <1>3, LeaveType, RestType
<1>4. ASSUME Exhausted(c),
             UNCHANGED <<dicts, edits, defaultBuffer, listeners, result, history>>
      PROVE  TypeInv'
  BY <1>3, <1>4 DEF Exhausted, Rest, callers
<1>5. CASE ReadHeaderByte(c)
  <2> DEFINE head == Append(call[c].head, Head(Source(c)))
             frame == [call[c] EXCEPT !.head = head]
  <2>1. CASE Source(c) # <<>> /\ Pop(c, frame)
    <3>1. head \in Seq(Byte)
      BY <1>1, <1>2, <2>1 DEF Frames
    <3>2. /\ frame \in Frames /\ Sound(frame)
          /\ frame.array = call[c].array /\ frame.buffer = call[c].buffer
          /\ frame.inPlace = call[c].inPlace
      <4> HIDE DEF head
      <4> QED
        BY <1>1, <3>1 DEF Frames, Sound
    <3> HIDE DEF frame
    <3> QED
      BY <1>5, <2>1, <3>2, PopType DEF ReadHeaderByte
  <2> QED
    BY <1>4, <1>5, <2>1 DEF ReadHeaderByte
<1>6. CASE LookUp(c)
  <2> DEFINE path == Waypoints(SubSeq(call[c].head, 3, Len(call[c].head)),
                               PyDepth(call[c].head[2]))
             frame == [call[c] EXCEPT !.at = "read", !.schema = path,
                                      !.todo = Fields(path)]
  <2>1. path \in Paths /\ HasRoot(path) => frame \in Frames /\ Sound(frame)
    <3> HIDE DEF path
    <3> QED
      BY <1>1, RootFacts DEF Frames, Labels, Deserializing, Sound
  <2>2. CASE path \in Paths /\ HasRoot(path) /\ Continue(c, frame)
    <3>1. call' \in [Clients -> Frames] /\ \A o \in Clients : Sound(call'[o])
      <4> HIDE DEF frame
      <4> QED
        BY <2>1, <2>2, CallType
    <3> QED
      BY <1>6, <3>1, RestType DEF LookUp, Rest
  <2>3. CASE Leave(c)
    BY <1>3, <1>6, <2>3 DEF LookUp, Rest
  <2> QED
    BY <1>6, <2>2, <2>3 DEF LookUp, PathExists
<1>7. CASE ReadFlag(c)
  <2> DEFINE flagged == [call[c] EXCEPT !.flagged = TRUE]
  <2>1. call[c].todo # <<>> /\ call[c].at = "read"
    BY <1>7 DEF ReadFlag, Coming, At
  <2>2. /\ flagged \in Frames /\ Sound(flagged)
        /\ flagged.array = call[c].array /\ flagged.buffer = call[c].buffer
        /\ flagged.inPlace = call[c].inPlace
    BY <1>1 DEF Frames, Sound
  <2>3. CASE Source(c) # <<>> /\ Head(Source(c)) = 0 /\ Pop(c, Having(c, None))
    BY <1>7, <2>1, <2>3, HavingType, CellFacts, PopType DEF ReadFlag
  <2>4. CASE Source(c) # <<>> /\ Pop(c, flagged)
    <3> HIDE DEF flagged
    <3> QED
      BY <1>7, <2>2, <2>4, PopType DEF ReadFlag
  <2> QED
    BY <1>4, <1>7, <2>3, <2>4 DEF ReadFlag
<1>8. CASE ReadByte(c)
  <2>1. call[c].todo # <<>> /\ call[c].at = "read"
    BY <1>8 DEF ReadByte, Coming, At
  <2>2. CASE Source(c) # <<>> /\ Pop(c, Having(c, Number(Head(Source(c)))))
    <3>1. Number(Head(Source(c))) \in Cell
      BY <1>2, <2>2, CellFacts
    <3> QED
      BY <1>8, <2>1, <2>2, <3>1, HavingType, PopType DEF ReadByte
  <2> QED
    BY <1>4, <1>8, <2>2 DEF ReadByte
<1>9. CASE ReadLength(c)
  <2> DEFINE bytes == UpTo(Source(c), 4)
             length == IntOf(bytes)
             frame == [call[c] EXCEPT !.at = "text", !.size = length]
  <2>1. call[c].todo # <<>> /\ call[c].at = "read"
    BY <1>9 DEF ReadLength, Coming, At
  <2>2. CASE Len(bytes) = 4 /\ Continue(c, frame)
    <3>1. bytes \in Seq(Byte)
      BY <1>1, CutFacts
    <3>3. length \in Int
      <4> HIDE DEF bytes, frame
      <4> QED
        BY <2>2, <3>1, IntType
    <3>4. frame \in Frames /\ Sound(frame)
      <4> HIDE DEF length
      <4> QED
        BY <1>1, <2>1, <3>3 DEF Frames, Labels, Deserializing, Sound
    <3>5. call' \in [Clients -> Frames] /\ \A o \in Clients : Sound(call'[o])
      <4> HIDE DEF frame
      <4> QED
        BY <2>2, <3>4, CallType
    <3> QED
      BY <1>9, <3>5, RestType DEF ReadLength, Rest
  <2> QED
    BY <1>3, <1>9, <2>2 DEF ReadLength, Rest
<1>10. CASE ReadText(c)
  <2> DEFINE rest == From(Source(c), 4)
             text == UpTo(rest, call[c].size)
             frame == [Having(c, Text(text)) EXCEPT !.at = "read", !.size = 0]
             left == From(Source(c), 4 + Cut(rest, call[c].size))
             next == [frame EXCEPT !.buffer = left, !.inPlace = FALSE]
  <2>1. call[c].todo # <<>> /\ call[c].at = "text"
    BY <1>1, <1>10 DEF ReadText, At, Sound
  <2>2. rest \in Seq(Byte) /\ text \in Seq(Byte) /\ left \in Seq(Byte)
    <3>1. call[c].size \in Int
      BY <1>1 DEF Frames
    <3>2. rest \in Seq(Byte)
      BY <1>1, CutFacts
    <3> HIDE DEF rest
    <3>3. text \in Seq(Byte) /\ Cut(rest, call[c].size) \in Int
      BY <3>1, <3>2, CutFacts
    <3>4. 4 + Cut(rest, call[c].size) \in Int
      BY <3>3
    <3> QED
      BY <1>1, <3>2, <3>3, <3>4, CutFacts, Zenon
  <2>3. frame \in Frames /\ Sound(frame)
    <3> HIDE DEF text
    <3> QED
      BY <2>1, <2>2, HavingType, CellFacts
  <2>4. next \in Frames /\ Sound(next)
    <3> HIDE DEF frame, left
    <3> QED
      BY <2>2, <2>3 DEF Frames, Sound
  <2>5. CASE Slice(c, frame, 4 + Cut(rest, call[c].size))
    <3>1. Continue(c, next) /\ UNCHANGED heap
      BY <2>5 DEF Slice
    <3>2. call' \in [Clients -> Frames] /\ \A o \in Clients : Sound(call'[o])
      <4> HIDE DEF next
      <4> QED
        BY <2>4, <3>1, CallType
    <3> QED
      BY <1>10, <3>1, <3>2, RestType DEF ReadText, Rest, callers
  <2> QED
    BY <1>3, <1>10, <2>5 DEF ReadText, Rest, callers
<1>11. CASE ReturnMap(c)
  <2>1. call' \in [Clients -> Frames] /\ \A o \in Clients : Sound(call'[o])
    BY <1>11, LeaveType DEF ReturnMap
  <2>2. call[c].schema \in Paths /\ call[c].got \in Values
    BY <1>1 DEF Frames
  <2>3. result' \in [Clients -> [path : Paths, values : Values, wrapper : Wrappers,
                                 array : Arrays, first : BOOLEAN]]
    BY <1>11, <2>2 DEF ReturnMap, WrapperOf, Wrappers, TypeInv, TypeOK
  <2> QED
    BY <1>11, <2>1, <2>3 DEF ReturnMap, TypeInv, TypeOK, callers, listeners, history
<1> QED
  BY <1>5, <1>6, <1>7, <1>8, <1>9, <1>10, <1>11 DEF Deserialize

----------------------------------------------------------------------------
\* The ways into a call.
LEMMA EnterType ==
    ASSUME TypeInv, NEW c \in Clients, NEW d \in AllDicts,
           NEW ns \in Seq(STRING), NEW cells \in [Keys -> Cells],
           Enter(c, d, [ns |-> ns, cells |-> cells])
    PROVE  TypeInv'
<1> DEFINE contents == [ns |-> ns, cells |-> cells]
           array == CHOOSE a \in Arrays : Unused(a)
           meant == Meaning(contents)
           frame == [NoCall(c) EXCEPT !.at = "sizeRoot", !.dict = d,
                                      !.array = array, !.meant = meant]
<1>1. array \in Arrays
  BY DEF Enter
<1>2. meant \in Meanings
  <2>1. cells \in [Keys -> Cell]
    BY EngineAssumption
  <2> QED
    BY <2>1, MeaningType
<1>3. /\ Continue(c, frame)
      /\ dicts' = [dicts EXCEPT ![d] = contents]
      /\ result' = [result EXCEPT ![c] = NoResult]
      /\ UNCHANGED <<heap, edits, defaultBuffer, listeners, history>>
  BY DEF Enter
<1>4. frame \in Frames /\ Sound(frame)
  <2> HIDE DEF array, meant
  <2> QED
    BY <1>1, <1>2, IdleType, ZenonT(40) DEF Frames, Labels, Serializing, Sound
<1>5. call' \in [Clients -> Frames] /\ \A o \in Clients : Sound(call'[o])
  <2> HIDE DEF frame
  <2> QED
    BY <1>3, <1>4, CallType
<1>6. dicts' \in [AllDicts -> [ns : Seq(STRING), cells : [Keys -> Cells]]]
  BY <1>3 DEF TypeInv, TypeOK
<1>7. NoResult \in [path : Paths, values : Values, wrapper : Wrappers,
                    array : Arrays, first : BOOLEAN]
  BY IdleType, NestedAssumption, EngineAssumption, CellFacts
     DEF NoResult, NoArray, Nothing, Values, Wrappers
<1>8. result' \in [Clients -> [path : Paths, values : Values, wrapper : Wrappers,
                              array : Arrays, first : BOOLEAN]]
  BY <1>3, <1>7 DEF TypeInv, TypeOK
<1> QED
  BY <1>3, <1>5, <1>6, <1>8 DEF TypeInv, TypeOK, listeners, history

\* Every step of a call keeps the types: one step of the proof per action.
LEMMA CallsType ==
    ASSUME TypeInv, NEW c \in Clients, Call(c)
    PROVE  TypeInv'
<1>1. ASSUME NEW d \in Dicts, NEW names \in NameArgs, StartSerialize(c, d, names)
      PROVE  TypeInv'
  <2> DEFINE ns == IF names = NoNames THEN dicts[d].ns ELSE names
  <2>1. d \in AllDicts
    BY DEF AllDicts
  <2>2. dicts[d] \in [ns : Seq(STRING), cells : [Keys -> Cells]]
    BY <2>1 DEF TypeInv, TypeOK
  <2>3. ns \in Seq(STRING) /\ dicts[d].cells \in [Keys -> Cells]
    BY <2>2, EngineAssumption
  <2>4. [dicts[d] EXCEPT !.ns = IF names = NoNames THEN @ ELSE names]
           = [ns |-> ns, cells |-> dicts[d].cells]
    BY <2>2
  <2> HIDE DEF ns
  <2> QED
    BY <1>1, <2>1, <2>3, <2>4, EnterType DEF StartSerialize
<1>2. ASSUME NEW cell \in Scalars, StartScalar(c, cell)
      PROVE  TypeInv'
  <2>1. Scratch[c] \in AllDicts /\ NoNames \in Seq(STRING)
    BY DEF AllDicts, NoNames
  <2>2. [Nothing EXCEPT !["value"] = cell] \in [Keys -> Cells]
    BY EngineAssumption, CellFacts DEF Nothing
  <2> QED
    BY <1>2, <2>1, <2>2, EnterType DEF StartScalar
<1>3. ASSUME NEW a \in Arrays, StartDeserialize(c, a)
      PROVE  TypeInv'
  <2> DEFINE frame == [NoCall(c) EXCEPT !.at = "header", !.array = a, !.inPlace = TRUE]
  <2>1. frame \in Frames /\ Sound(frame)
    BY IdleType DEF Frames, Labels, Deserializing, Sound
  <2>2. call' \in [Clients -> Frames] /\ \A o \in Clients : Sound(call'[o])
    <3>1. Continue(c, frame)
      BY <1>3 DEF StartDeserialize
    <3> HIDE DEF frame
    <3> QED
      BY <2>1, <3>1, CallType
  <2>3. NoResult \in [path : Paths, values : Values, wrapper : Wrappers,
                      array : Arrays, first : BOOLEAN]
    BY NestedAssumption, EngineAssumption, CellFacts
       DEF NoResult, NoArray, Nothing, Values, Wrappers
  <2>4. result' \in [Clients -> [path : Paths, values : Values, wrapper : Wrappers,
                                array : Arrays, first : BOOLEAN]]
    BY <1>3, <2>3 DEF StartDeserialize, TypeInv, TypeOK
  <2>5. reads' \in [Arrays -> 0..MaxReads]
    <3>1. \A n \in 0..MaxReads : n < MaxReads => n + 1 \in 0..MaxReads
      <4>1. \A m \in Nat : \A n \in 0..m : n < m => n + 1 \in 0..m
        OBVIOUS
      <4>2. MaxReads \in Nat
        BY EngineAssumption
      <4> QED
        BY <4>1, <4>2, Zenon
    <3>2. reads[a] \in 0..MaxReads /\ reads[a] < MaxReads
      BY <1>3 DEF StartDeserialize, TypeInv, TypeOK
    <3>3. reads[a] + 1 \in 0..MaxReads
      BY <3>1, <3>2, Zenon
    <3> QED
      BY <1>3, <3>3 DEF StartDeserialize, TypeInv, TypeOK
  <2> QED
    BY <1>3, <2>2, <2>4, <2>5 DEF StartDeserialize, TypeInv, TypeOK, callers, listeners
<1> QED
  BY <1>1, <1>2, <1>3 DEF Call

\* The steps of calls, of callers that edit and of new listeners together.
LEMMA TypeStep ==
    ASSUME TypeInv, [Next]_vars
    PROVE  TypeInv'
<1>1. ASSUME NEW c \in Clients, Call(c) PROVE TypeInv'
  BY <1>1, CallsType
<1>2. ASSUME NEW c \in Clients, Step(c) PROVE TypeInv'
  BY <1>2, SerializeType, DeserializeType DEF Step
<1>3. ASSUME NEW d \in Dicts, NEW k \in Keys, NEW cell \in Cells, Edit(d, k, cell)
      PROVE  TypeInv'
  <2>1. dicts' \in [AllDicts -> [ns : Seq(STRING), cells : [Keys -> Cells]]]
    BY <1>3 DEF Edit, TypeInv, TypeOK
  <2>2. edits' \in 0..MaxEdits
    BY <1>3, EngineAssumption DEF Edit, TypeInv, TypeOK
  <2> QED
    BY <1>3, <2>1, <2>2 DEF Edit, TypeInv, TypeOK, listeners, history
<1>4. CASE AddListener
  BY <1>4 DEF AddListener, TypeInv, TypeOK, callers, history
<1>5. CASE UNCHANGED vars
  BY <1>5 DEF vars, TypeInv, TypeOK, callers, listeners, history
<1> QED
  BY <1>1, <1>2, <1>3, <1>4, <1>5 DEF Next

\* An engine that nobody has called yet.
LEMMA TypeInit == Init => TypeInv
<1> SUFFICES ASSUME Init PROVE TypeInv
  OBVIOUS
<1>1. Nothing \in [Keys -> Cells] /\ Nothing \in Values
  BY CellFacts DEF Nothing, Values
<1>2. dicts \in [AllDicts -> [ns : Seq(STRING), cells : [Keys -> Cells]]]
  BY <1>1 DEF Init, NoNames
<1>3. call \in [Clients -> Frames] /\ \A c \in Clients : Sound(call[c])
  BY IdleType DEF Init
<1>4. NoMeaning \in Meanings
  BY <1>1 DEF NoMeaning, Meanings
<1>5. NoResult \in [path : Paths, values : Values, wrapper : Wrappers,
                    array : Arrays, first : BOOLEAN]
  BY <1>1, NestedAssumption, EngineAssumption DEF NoResult, NoArray, Wrappers
<1>6. edits \in 0..MaxEdits /\ reads \in [Arrays -> 0..MaxReads]
  BY EngineAssumption DEF Init
<1>7. /\ heap \in [Arrays -> Seq(Byte)] /\ given \in [Arrays -> Seq(Byte)]
      /\ defaultBuffer \in Seq(Byte)
  BY DEF Init
<1>8. /\ meaning \in [Arrays -> Meanings]
      /\ result \in [Clients -> [path : Paths, values : Values, wrapper : Wrappers,
                                 array : Arrays, first : BOOLEAN]]
  BY <1>4, <1>5 DEF Init
<1>9. listening \in BOOLEAN /\ notified \subseteq {"class", "field"} \X (STRING \cup Keys)
  BY DEF Init
<1> QED
  BY <1>2, <1>3, <1>6, <1>7, <1>8, <1>9 DEF TypeInv, TypeOK

\* TypeOK, of the whole engine, for every schema, all clients, and however
\* their calls interleave and share.
THEOREM TypeCorrect == Spec => []TypeOK
<1>1. TypeInv => TypeOK
  BY DEF TypeInv
<1> QED
  BY <1>1, TypeInit, TypeStep, PTL DEF Spec

----------------------------------------------------------------------------
\* A None is about to be written only where nothing is, or None: another call
\* on the same dict may have written it meanwhile, callers cannot.
NoneIsDue ==
    \A c \in Clients :
        At(c, "writeNone") /\ call[c].dict \in Dicts =>
            CellsOf(c)[Field(c).name] \in Missing

DictInv == TypeInv /\ NoneIsDue

\* A step of c that changes no other frame and writes no None next.
Moves(c) ==
    /\ \A o \in Clients \ {c} : call'[o] = call[o]
    /\ call'[c].at # "writeNone"

\* A call that goes on anywhere but to its one write leaves all dicts alone ...
LEMMA MovesOn ==
    ASSUME TypeInv, NEW c \in Clients, NEW frame, frame.at # "writeNone",
           Continue(c, frame)
    PROVE  Moves(c)
BY DEF TypeInv, TypeOK, Continue, Moves

\* ... and so does one that ends ...
LEMMA MovesOut ==
    ASSUME TypeInv, NEW c \in Clients, Leave(c)
    PROVE  Moves(c)
<1>1. NoCall(c).at # "writeNone"
  BY DEF NoCall
<1> QED
  BY <1>1, MovesOn DEF Leave

\* ... and one that takes a byte out of its array.
LEMMA MovesPopping ==
    ASSUME TypeInv, NEW c \in Clients, NEW frame, frame.at # "writeNone",
           DOMAIN frame = DOMAIN call[c], Pop(c, frame)
    PROVE  Moves(c)
<1>1. call[c] \in Frames
  BY FrameFacts
<1>2. [frame EXCEPT !.buffer = Tail(@)].at # "writeNone"
  BY <1>1 DEF Frames
<1> QED
  BY <1>2, MovesOn DEF Pop

\* Of the steps of a call, one writes to its dict and one gets ready to.
LEMMA OthersLeaveDicts ==
    ASSUME TypeInv, NEW c \in Clients, Step(c), ~Fill(c), ~WriteNone(c)
    PROVE  Moves(c) /\ UNCHANGED dicts
<1>1. call[c] \in Frames
  BY FrameFacts
<1> USE <1>1, MovesOn, MovesOut, MovesPopping DEF Frames, callers
<1>2. CASE SizeRoot(c)
  BY <1>2 DEF SizeRoot
<1>3. CASE SizeHeader(c)
  BY <1>3 DEF SizeHeader
<1>4. CASE Filled(c)
  BY <1>4 DEF Filled
<1>5. CASE Measure(c)
  BY <1>5 DEF Measure, Coming, At
<1>6. CASE NewBuffer(c)
  BY <1>6 DEF NewBuffer
<1>7. CASE PutHeader(c)
  BY <1>7 DEF PutHeader, Put
<1>8. CASE FindSchema(c)
  BY <1>8 DEF FindSchema
<1>9. CASE Check(c)
  BY <1>9 DEF Check, Coming, At
<1>10. CASE Checked(c)
  BY <1>10 DEF Checked
<1>11. CASE OmitField(c)
  BY <1>11 DEF OmitField, Coming, At
<1>12. CASE PutField(c)
  BY <1>12 DEF PutField, Put, Coming, At
<1>13. CASE ReturnMessage(c)
  BY <1>13 DEF ReturnMessage
<1>14. CASE ReadHeaderByte(c)
  BY <1>14 DEF ReadHeaderByte, Exhausted, At
<1>15. CASE LookUp(c)
  BY <1>15 DEF LookUp
<1>16. CASE ReadFlag(c)
  BY <1>16 DEF ReadFlag, Exhausted, Having, Coming, At
<1>17. CASE ReadByte(c)
  BY <1>17 DEF ReadByte, Exhausted, Having, Coming, At
<1>18. CASE ReadLength(c)
  BY <1>18 DEF ReadLength
<1>19. CASE ReadText(c)
  BY <1>19 DEF ReadText, Slice, Having
<1>20. CASE ReturnMap(c)
  BY <1>20 DEF ReturnMap
<1> QED
  BY <1>2, <1>3, <1>4, <1>5, <1>6, <1>7, <1>8, <1>9, <1>10, <1>11, <1>12, <1>13,
     <1>14, <1>15, <1>16, <1>17, <1>18, <1>19, <1>20
     DEF Step, Serialize, Deserialize

\* What a step does to a value under a key of a dict of the callers.
ValueKept(d, k) ==
    \/ dicts'[d].cells[k] = dicts[d].cells[k]
    \/ dicts[d].cells[k] \in Missing /\ dicts'[d].cells[k] = None
ValuesKept == \A d \in Dicts, k \in Keys : ValueKept(d, k)

\* What is due stays due while others move and the values are kept.
LEMMA DueStays ==
    ASSUME DictInv, NEW c \in Clients, Moves(c), ValuesKept
    PROVE  NoneIsDue'
<1> SUFFICES ASSUME NEW o \in Clients, call'[o].at = "writeNone", call'[o].dict \in Dicts
             PROVE  dicts'[call'[o].dict].cells[Head(call'[o].todo).name] \in Missing
  BY DEF NoneIsDue, At, CellsOf, Field
<1>1. call'[o] = call[o]
  BY DEF Moves
<1>2. Field(o).name \in Keys
  <2>1. call[o].todo # <<>>
    BY <1>1 DEF DictInv, TypeInv, Sound
  <2>2. Field(o) \in FieldDecl
    BY <2>1, FrameFacts DEF DictInv
  <2> QED
    BY <2>2 DEF FieldDecl
<1>3. dicts[call[o].dict].cells[Field(o).name] \in Missing
  BY <1>1 DEF DictInv, NoneIsDue, At, CellsOf
<1>4. ValueKept(call[o].dict, Field(o).name)
  BY <1>1, <1>2 DEF ValuesKept
<1> QED
  BY <1>1, <1>3, <1>4 DEF ValueKept, Field, Missing

\* No call touches a value, nor does the start of one.
LEMMA StepKeeps ==
    ASSUME DictInv, NEW c \in Clients, Step(c) \/ Call(c)
    PROVE  ValuesKept /\ NoneIsDue'
<1>1. call[c] \in Frames /\ Sound(call[c])
  BY FrameFacts DEF DictInv
<1>2. UNCHANGED dicts => ValuesKept
  BY DEF ValuesKept, ValueKept
<1>3. dicts \in [AllDicts -> [ns : Seq(STRING), cells : [Keys -> Cells]]]
  BY DEF DictInv, TypeInv, TypeOK
<1>4. Dicts \subseteq AllDicts
  BY DEF AllDicts
<1>5. CASE Step(c) /\ ~Fill(c) /\ ~WriteNone(c)
  BY <1>2, <1>5, OthersLeaveDicts, DueStays DEF DictInv
<1>6. CASE Fill(c)
  <2> DEFINE next == [call[c] EXCEPT !.todo = Tail(@)]
             none == [call[c] EXCEPT !.at = "writeNone"]
  <2>1. UNCHANGED dicts /\ call[c].at = "fill"
    BY <1>6 DEF Fill, Coming, At, callers
  <2>2. CASE Leave(c)
    BY <1>2, <2>1, <2>2, MovesOut, DueStays DEF DictInv
  <2>3. CASE Continue(c, next)
    <3>1. next.at # "writeNone"
      BY <1>1, <2>1 DEF Frames
    <3> HIDE DEF next
    <3> QED
      BY <1>2, <2>1, <2>3, <3>1, MovesOn, DueStays DEF DictInv
  <2>4. CASE IsLacking(Field(c), CellsOf(c)) /\ Continue(c, none)
    <3>1. none.dict = call[c].dict /\ none.todo = call[c].todo
      BY <1>1 DEF Frames
    <3>2. call' = [call EXCEPT ![c] = none] /\ call \in [Clients -> Frames]
      BY <2>4 DEF Continue, DictInv, TypeInv, TypeOK
    <3> HIDE DEF none
    <3>3. \A o \in Clients : /\ call'[o].dict = call[o].dict
                             /\ call'[o].todo = call[o].todo
                             /\ o # c => call'[o].at = call[o].at
      BY <3>1, <3>2
    <3>4. CellsOf(c)[Field(c).name] \in Missing
      BY <2>4 DEF IsLacking
    <3>5. NoneIsDue'
      BY <2>1, <3>3, <3>4 DEF NoneIsDue, DictInv, At, CellsOf, Field
    <3> QED
      BY <1>2, <2>1, <3>5
  <2> QED
    BY <1>6, <2>2, <2>3, <2>4 DEF Fill
<1>7. CASE WriteNone(c)
  <2> DEFINE name == Field(c).name
             frame == [call[c] EXCEPT !.at = "fill", !.todo = Tail(@)]
  <2>1. /\ dicts' = [dicts EXCEPT ![call[c].dict].cells[name] = None]
        /\ call[c].at = "writeNone" /\ Continue(c, frame)
    BY <1>7 DEF WriteNone, At
  <2>2. call[c].dict \in Dicts => dicts[call[c].dict].cells[name] \in Missing
    BY <2>1 DEF DictInv, NoneIsDue, At, CellsOf
  <2>3. ValuesKept
    <3> SUFFICES ASSUME NEW d \in Dicts, NEW k \in Keys PROVE ValueKept(d, k)
      BY DEF ValuesKept
    <3>1. dicts[d] \in [ns : Seq(STRING), cells : [Keys -> Cells]]
      BY <1>3, <1>4
    <3> HIDE DEF name, frame
    <3>2. dicts'[d].cells[k] = IF d = call[c].dict /\ k = name THEN None
                               ELSE dicts[d].cells[k]
      BY <1>3, <1>4, <2>1, <3>1
    <3> QED
      BY <2>2, <3>2 DEF ValueKept
  <2>4. frame.at # "writeNone"
    BY <1>1 DEF Frames
  <2> HIDE DEF frame
  <2> QED
    BY <2>1, <2>3, <2>4, MovesOn, DueStays DEF DictInv
<1>8. CASE Call(c)
  <2>1. ASSUME NEW d \in AllDicts, NEW contents, Enter(c, d, contents),
               d \in Dicts => contents.cells = dicts[d].cells
        PROVE  ValuesKept /\ NoneIsDue'
    <3> DEFINE frame == [NoCall(c) EXCEPT !.at = "sizeRoot", !.dict = d,
                                          !.array = CHOOSE a \in Arrays : Unused(a),
                                          !.meant = Meaning(contents)]
    <3>1. dicts' = [dicts EXCEPT ![d] = contents] /\ Continue(c, frame)
      BY <2>1 DEF Enter
    <3>2. frame.at # "writeNone"
      BY DEF NoCall
    <3> HIDE DEF frame
    <3>3. ValuesKept
      BY <1>3, <1>4, <2>1, <3>1 DEF ValuesKept, ValueKept
    <3> QED
      BY <3>1, <3>2, <3>3, MovesOn, DueStays DEF DictInv
  <2>2. ASSUME NEW d \in Dicts, NEW names \in NameArgs, StartSerialize(c, d, names)
        PROVE  ValuesKept /\ NoneIsDue'
    <3>1. dicts[d] \in [ns : Seq(STRING), cells : [Keys -> Cells]]
      BY <1>3, <1>4
    <3>2. [dicts[d] EXCEPT !.ns = IF names = NoNames THEN @ ELSE names].cells
             = dicts[d].cells
      BY <3>1
    <3> QED
      BY <1>4, <2>1, <2>2, <3>2 DEF StartSerialize
  <2>3. ASSUME NEW cell \in Scalars, StartScalar(c, cell)
        PROVE  ValuesKept /\ NoneIsDue'
    <3>1. Scratch[c] \in AllDicts /\ Scratch[c] \notin Dicts
      BY EngineAssumption DEF AllDicts
    <3> QED
      BY <2>1, <2>3, <3>1 DEF StartScalar
  <2>4. ASSUME NEW a \in Arrays, StartDeserialize(c, a)
        PROVE  ValuesKept /\ NoneIsDue'
    <3> DEFINE frame == [NoCall(c) EXCEPT !.at = "header", !.array = a, !.inPlace = TRUE]
    <3>1. Continue(c, frame) /\ UNCHANGED dicts
      BY <2>4 DEF StartDeserialize, callers
    <3>2. frame.at # "writeNone"
      BY DEF NoCall
    <3> HIDE DEF frame
    <3> QED
      BY <1>2, <3>1, <3>2, MovesOn, DueStays DEF DictInv
  <2> QED
    BY <1>8, <2>2, <2>3, <2>4 DEF Call
<1> QED
  BY <1>5, <1>6, <1>7, <1>8

\* The inductive step of ValuesStay, and what a step without an edit leaves.
LEMMA DictStep ==
    ASSUME DictInv, [Next]_vars
    PROVE  /\ DictInv'
           /\ edits' = edits => ValuesKept
<1>1. TypeInv'
  BY TypeStep DEF DictInv
<1>2. ASSUME NEW c \in Clients, Call(c) \/ Step(c)
      PROVE  NoneIsDue' /\ ValuesKept
  BY <1>2, StepKeeps
<1>3. ASSUME NEW d \in Dicts, NEW k \in Keys, NEW cell \in Cells, Edit(d, k, cell)
      PROVE  NoneIsDue' /\ edits' # edits
  <2>1. edits' # edits
    BY <1>3 DEF Edit, DictInv, TypeInv, TypeOK
  <2>2. \A c \in Clients : At(c, "writeNone") => call[c].dict # d
    BY <1>3 DEF Edit, Uses, At, Serializing
  <2>3. \A e \in Dicts : e # d => dicts'[e] = dicts[e]
    <3>1. \A e \in Dicts : e \in DOMAIN dicts
      BY DEF DictInv, TypeInv, TypeOK, AllDicts
    <3> QED
      BY <1>3, <3>1 DEF Edit
  <2>4. UNCHANGED call
    BY <1>3 DEF Edit
  <2> QED
    BY <2>1, <2>2, <2>3, <2>4 DEF DictInv, NoneIsDue, At, CellsOf, Field
<1>4. ASSUME AddListener \/ UNCHANGED vars
      PROVE  NoneIsDue' /\ ValuesKept
  <2>1. UNCHANGED <<call, dicts>>
    BY <1>4 DEF AddListener, vars, callers
  <2> QED
    BY <2>1 DEF DictInv, NoneIsDue, At, CellsOf, Field, ValuesKept, ValueKept
<1> QED
  BY <1>1, <1>2, <1>3, <1>4 DEF DictInv, Next

\* CallersValuesStay, of ClassType.size and the writing of ':namespace': for
\* every schema and all clients, even when calls share their dicts, a key of
\* a dict of the callers is left alone or goes from nothing to None.
THEOREM ValuesStay == Spec => CallersValuesStay
<1>1. Init => DictInv
  <2>1. Init => NoneIsDue
    BY DEF Init, NoneIsDue, At, NoCall
  <2> QED
    BY <2>1, TypeInit DEF DictInv
<1>2. DictInv /\ [Next]_vars => DictInv'
  BY DictStep
<1>3. DictInv /\ [Next]_vars =>
        [\A d \in Dicts, k \in Keys :
            dicts'[d].cells[k] # dicts[d].cells[k] =>
                \/ edits' # edits
                \/ dicts[d].cells[k] = Absent /\ dicts'[d].cells[k] = None]_vars
  BY DictStep DEF ValuesKept, ValueKept, Missing
<1> QED
  BY <1>1, <1>2, <1>3, PTL DEF Spec, CallersValuesStay

----------------------------------------------------------------------------
\* What is left of an array is an end of what it was given.
IsRest(rest, whole) ==
    \E taken \in 0..Len(whole) : rest = SubSeq(whole, taken + 1, Len(whole))

BytesInv == TypeInv /\ BorrowedBytesAreKept

\* A rest of an array stays one when its head is taken off.
LEMMA RestFacts ==
    ASSUME NEW whole \in Seq(Byte)
    PROVE  /\ IsRest(whole, whole)
           /\ \A rest : IsRest(rest, whole) /\ rest # <<>> => IsRest(Tail(rest), whole)
<1>1. IsRest(whole, whole)
  <2>1. whole = SubSeq(whole, 0 + 1, Len(whole)) /\ 0 \in 0..Len(whole)
    OBVIOUS
  <2> QED
    BY <2>1 DEF IsRest
<1>2. ASSUME NEW rest, IsRest(rest, whole), rest # <<>> PROVE IsRest(Tail(rest), whole)
  <2>1. PICK taken \in 0..Len(whole) : rest = SubSeq(whole, taken + 1, Len(whole))
    BY <1>2 DEF IsRest
  <2>2. taken + 1 \in 0..Len(whole)
    BY <1>2, <2>1
  <2>3. Tail(rest) = SubSeq(whole, (taken + 1) + 1, Len(whole))
    BY <1>2, <2>1
  <2> QED
    BY <2>2, <2>3 DEF IsRest
<1> QED
  BY <1>1, <1>2

\* The inductive step of BytesKept.
LEMMA BytesStep ==
    ASSUME BytesInv, [Next]_vars
    PROVE  BytesInv'
<1>1. TypeInv'
  BY TypeStep DEF BytesInv
<1>2. /\ heap \in [Arrays -> Seq(Byte)] /\ given \in [Arrays -> Seq(Byte)]
      /\ defaultBuffer = <<>>
      /\ \A a \in Arrays : IsRest(heap[a], given[a])
  BY DEF BytesInv, BorrowedBytesAreKept, TypeInv, TypeOK, IsRest
<1>3. ASSUME UNCHANGED <<heap, given, defaultBuffer>> PROVE BytesInv'
  BY <1>1, <1>3 DEF BytesInv, BorrowedBytesAreKept
<1>4. ASSUME NEW c \in Clients, NEW frame, Pop(c, frame), frame.array = call[c].array,
             frame.inPlace = call[c].inPlace, Source(c) # <<>>,
             UNCHANGED <<given, defaultBuffer>>
      PROVE  BytesInv'
  <2>1. CASE frame.inPlace
    <3>1. heap' = [heap EXCEPT ![frame.array] = Tail(@)] /\ heap[frame.array] # <<>>
      BY <1>4, <2>1 DEF Pop, Source
    <3>2. \A a \in Arrays : heap'[a] = IF a = frame.array THEN Tail(heap[a]) ELSE heap[a]
      BY <1>2, <3>1
    <3>3. \A a \in Arrays : IsRest(heap'[a], given[a])
      BY <1>2, <3>1, <3>2, RestFacts
    <3> QED
      BY <1>1, <1>2, <1>4, <3>3 DEF BytesInv, BorrowedBytesAreKept, IsRest
  <2>2. CASE ~frame.inPlace
    BY <1>3, <1>4, <2>2 DEF Pop
  <2> QED
    BY <2>1, <2>2
<1>5. ASSUME NEW c \in Clients, Serialize(c) PROVE BytesInv'
  <2>1. CASE ReturnMessage(c)
    <3>1. /\ heap' = [heap EXCEPT ![call[c].array] = call[c].buffer]
          /\ given' = [given EXCEPT ![call[c].array] = call[c].buffer]
          /\ UNCHANGED defaultBuffer
      BY <2>1 DEF ReturnMessage
    <3>2. call[c].buffer \in Seq(Byte)
      BY FrameFacts DEF BytesInv, Frames
    <3>3. \A a \in Arrays : IsRest(heap'[a], given'[a])
      BY <1>2, <3>1, <3>2, RestFacts
    <3> QED
      BY <1>1, <1>2, <3>1, <3>3 DEF BytesInv, BorrowedBytesAreKept, IsRest
  <2>2. CASE ~ReturnMessage(c)
    <3>1. UNCHANGED <<heap, given, defaultBuffer>>
      BY <1>5, <2>2
         DEF Serialize, SizeRoot, SizeHeader, Fill, WriteNone, Filled, Measure,
             NewBuffer, PutHeader, Put, FindSchema, Check, Checked, OmitField,
             PutField, callers, history
    <3> QED
      BY <1>3, <3>1
  <2> QED
    BY <2>1, <2>2
<1>6. ASSUME NEW c \in Clients, Deserialize(c) PROVE BytesInv'
  <2>1. call[c] \in Frames
    BY FrameFacts DEF BytesInv
  <2>2. CASE ReadHeaderByte(c)
    BY <1>3, <1>4, <2>1, <2>2 DEF ReadHeaderByte, Exhausted, Frames, history
  <2>3. CASE ReadFlag(c)
    BY <1>3, <1>4, <2>1, <2>3 DEF ReadFlag, Exhausted, Having, Frames, history
  <2>4. CASE ReadByte(c)
    BY <1>3, <1>4, <2>1, <2>4 DEF ReadByte, Exhausted, Having, Frames, history
  <2>5. CASE LookUp(c) \/ ReadLength(c) \/ ReadText(c) \/ ReturnMap(c)
    BY <1>3, <2>5 DEF LookUp, ReadLength, ReadText, Slice, ReturnMap, callers, history
  <2> QED
    BY <1>6, <2>2, <2>3, <2>4, <2>5 DEF Deserialize
<1>7. ASSUME NEW c \in Clients, Call(c) PROVE BytesInv'
  BY <1>3, <1>7 DEF Call, StartSerialize, StartScalar, Enter, StartDeserialize,
                    callers, history
<1>8. ASSUME NEW d \in Dicts, NEW k \in Keys, NEW cell \in Cells, Edit(d, k, cell)
      PROVE  BytesInv'
  BY <1>3, <1>8 DEF Edit, history
<1>9. CASE AddListener \/ UNCHANGED vars
  BY <1>3, <1>9 DEF AddListener, vars, callers, history
<1> QED
  BY <1>5, <1>6, <1>7, <1>8, <1>9 DEF Next, Step

LEMMA BytesInit == Init => BytesInv
<1> SUFFICES ASSUME Init PROVE BytesInv
  OBVIOUS
<1>1. \A a \in Arrays : heap[a] = SubSeq(given[a], 0 + 1, Len(given[a]))
                     /\ 0 \in 0..Len(given[a])
  BY DEF Init
<1> QED
  BY <1>1, TypeInit DEF Init, BytesInv, BorrowedBytesAreKept

\* BorrowedBytesAreKept, of ByteBuffer: for every schema and all clients, even
\* when calls share their arrays, the default buffer stays empty and an array
\* is what its message was, less some bytes at the front.
THEOREM BytesKept == Spec => []BorrowedBytesAreKept
<1>1. BytesInv => BorrowedBytesAreKept
  BY DEF BytesInv
<1> QED
  BY <1>1, BytesInit, BytesStep, PTL DEF Spec

----------------------------------------------------------------------------
\* What serialize keeps when no two calls work on the same dict.

\* A call of c works on a dict of the callers or on the one it made.
OwnDicts == \A c \in Clients : call[c].dict \in Dicts \cup {Scratch[c]}

\* No two calls serialize the same dict, nor into the same array.
Apart ==
    \A c, o \in Clients :
        /\ c # o /\ call[c].at \in Serializing /\ call[o].at \in Serializing
        => call[c].dict # call[o].dict /\ call[c].array # call[o].array

\* The array a call serializes into is still to be given.
Rooms == \A c \in Clients : call[c].at \in Serializing => given[call[c].array] = <<>>

\* A dict names what somebody asked for.
NamesAsked == \A d \in AllDicts : dicts[d].ns \in NameArgs \cup {NoNames}

\* What the first loop of size leaves behind it.
Ready(f, cells) == ValueFor(f, cells) # Absent /\ (IsLacking(f, cells) => f.option)

\* The namespace of a call is the one its dict names, with a class in it by
\* the time there are fields to look at.
OnPath(frame, d) ==
    /\ frame.at # "sizeRoot" =>
          NamespaceOf(d.ns).ok /\ frame.schema = NamespaceOf(d.ns).path
    /\ frame.at \notin {"sizeRoot", "sizeHeader"} => HasRoot(frame.schema)
    /\ frame.at \in {"findSchema", "check", "put"} =>
          Packable(frame.schema) /\ frame.buffer # <<>>

\* How far the passes over the fields have come.
Passed(frame, d) ==
    LET fields == ToSet(Fields(frame.schema))
        todo == ToSet(frame.todo)
    IN /\ frame.at \in {"fill", "writeNone", "check", "put"} => todo \subseteq fields
       /\ frame.at \in {"fill", "writeNone"} =>
             \A f \in fields : f \in todo \/ Ready(f, d.cells)
       /\ frame.at = "writeNone" =>
             Head(frame.todo).option /\ IsLacking(Head(frame.todo), d.cells)
       /\ frame.at \in {"measure", "putHeader", "findSchema", "check", "put"} =>
             \A f \in fields : Ready(f, d.cells)
       /\ frame.at = "put" =>
             frame.omits = {} /\ \A f \in fields : f \in todo \/ Takes(f, Sent(f, d.cells))

\* A root class names each of its fields once.
NamedOnce ==
    \A p \in Paths : HasRoot(p) =>
        \A f, g \in ToSet(Fields(p)) : f.name = g.name => f = g

Meant(frame, d) == NamedOnce => Meaning(d) = frame.meant

Agrees(frame, d) == OnPath(frame, d) /\ Passed(frame, d) /\ Meant(frame, d)

PrivateInv ==
    /\ TypeInv /\ OwnDicts /\ Apart /\ Rooms /\ NamesAsked
    /\ \A c \in Clients :
          call[c].at \in Serializing => Agrees(call[c], dicts[call[c].dict])

----------------------------------------------------------------------------
\* The elements of a sequence are its head and those of its tail.
LEMMA Elements ==
    ASSUME NEW s \in Seq(FieldDecl)
    PROVE  /\ ToSet(s) \subseteq FieldDecl
           /\ s # <<>> => /\ Head(s) \in ToSet(s)
                          /\ \A f \in ToSet(s) : f = Head(s) \/ f \in ToSet(Tail(s))
                          /\ ToSet(Tail(s)) \subseteq ToSet(s)
           /\ s = <<>> => ToSet(s) = {}
<1>1. ToSet(s) \subseteq FieldDecl
  BY DEF ToSet
<1>2. ASSUME s # <<>>
      PROVE  /\ Head(s) \in ToSet(s)
             /\ \A f \in ToSet(s) : f = Head(s) \/ f \in ToSet(Tail(s))
             /\ ToSet(Tail(s)) \subseteq ToSet(s)
  <2>1. Len(s) \in Nat /\ Len(s) # 0 /\ Len(Tail(s)) = Len(s) - 1
    BY <1>2
  <2>2. \A i \in 1..(Len(s) - 1) : Tail(s)[i] = s[i + 1]
    BY <1>2
  <2>3. ASSUME NEW i \in DOMAIN s PROVE s[i] = Head(s) \/ s[i] \in ToSet(Tail(s))
    <3>1. CASE i = 1
      BY <3>1
    <3>2. CASE i # 1
      <4>1. i - 1 \in 1..(Len(s) - 1) /\ i - 1 \in DOMAIN Tail(s)
        BY <1>2, <2>1, <3>2
      <4>2. Tail(s)[i - 1] = s[i]
        BY <2>2, <4>1
      <4> QED
        BY <4>1, <4>2 DEF ToSet
    <3> QED
      BY <3>1, <3>2
  <2>4. ASSUME NEW i \in DOMAIN Tail(s) PROVE Tail(s)[i] \in ToSet(s)
    <3>1. i \in 1..(Len(s) - 1) /\ i + 1 \in DOMAIN s
      BY <1>2, <2>1
    <3> QED
      BY <2>2, <3>1 DEF ToSet
  <2>5. Head(s) \in ToSet(s)
    BY <2>1 DEF ToSet
  <2> QED
    BY <2>3, <2>4, <2>5 DEF ToSet
<1>3. s = <<>> => ToSet(s) = {}
  BY DEF ToSet
<1> QED
  BY <1>1, <1>2, <1>3

\* What a frame that serializes can rely on.
LEMMA PrivateFacts ==
    ASSUME PrivateInv, NEW c \in Clients
    PROVE  /\ call[c] \in Frames /\ Sound(call[c])
           /\ call[c].dict \in AllDicts /\ call[c].schema \in Paths
           /\ dicts[call[c].dict] \in [ns : Seq(STRING), cells : [Keys -> Cells]]
           /\ CellsOf(c) \in [Keys -> Cell]
           /\ HasRoot(call[c].schema) => Fields(call[c].schema) \in Seq(FieldDecl)
           /\ call[c].todo \in Seq(FieldDecl)
           /\ call \in [Clients -> Frames]
<1>1. TypeInv
  BY DEF PrivateInv
<1>2. call[c] \in Frames /\ Sound(call[c]) /\ CellsOf(c) \in [Keys -> Cell]
  BY <1>1, FrameFacts
<1>3. call[c].dict \in AllDicts /\ call[c].schema \in Paths /\ call[c].todo \in Seq(FieldDecl)
  BY <1>2 DEF Frames
<1> QED
  BY <1>1, <1>2, <1>3, RootFacts DEF TypeInv, TypeOK

\* A step after which the frame of one call agrees with its dict, and no
\* other call has to see a difference.
LEMMA Settles ==
    ASSUME PrivateInv, TypeInv', NamesAsked', NEW c \in Clients, NEW frame,
           Continue(c, frame), frame.dict \in Dicts \cup {Scratch[c]},
           frame.at \in Serializing =>
              /\ Agrees(frame, dicts'[frame.dict])
              /\ given'[frame.array] = <<>>
              /\ \A o \in Clients \ {c} : call[o].at \in Serializing =>
                    call[o].dict # frame.dict /\ call[o].array # frame.array,
           \A o \in Clients \ {c} : call[o].at \in Serializing =>
              /\ dicts'[call[o].dict] = dicts[call[o].dict]
              /\ given'[call[o].array] = <<>>
    PROVE  PrivateInv'
<1>1. call \in [Clients -> Frames] /\ call' = [call EXCEPT ![c] = frame]
  BY PrivateFacts DEF Continue
<1>2. call'[c] = frame /\ \A o \in Clients \ {c} : call'[o] = call[o]
  BY <1>1
<1>3. OwnDicts'
  BY <1>2 DEF OwnDicts, PrivateInv
<1>4. Apart'
  BY <1>2 DEF Apart, PrivateInv
<1>5. Rooms'
  BY <1>2 DEF Rooms, PrivateInv
<1>6. ASSUME NEW o \in Clients, call'[o].at \in Serializing
      PROVE  Agrees(call'[o], dicts'[call'[o].dict])
  <2>1. CASE o = c
    BY <1>2, <1>6, <2>1
  <2>2. CASE o # c
    BY <1>2, <1>6, <2>2 DEF PrivateInv
  <2> QED
    BY <2>1, <2>2
<1> QED
  BY <1>3, <1>4, <1>5, <1>6 DEF PrivateInv

\* A step of a call that is over, or reads, and leaves dicts and messages.
LEMMA SettlesAway ==
    ASSUME PrivateInv, TypeInv', NEW c \in Clients, NEW frame,
           Continue(c, frame), frame.dict \in Dicts \cup {Scratch[c]},
           frame.at \notin Serializing, UNCHANGED <<dicts, given>>
    PROVE  PrivateInv'
<1>1. NamesAsked'
  BY DEF PrivateInv, NamesAsked
<1>2. \A o \in Clients : call[o].at \in Serializing =>
         /\ dicts'[call[o].dict] = dicts[call[o].dict]
         /\ given'[call[o].array] = <<>>
  BY DEF PrivateInv, Rooms
<1> QED
  BY <1>1, <1>2, Settles

LEMMA SettlesOver ==
    ASSUME PrivateInv, TypeInv', NEW c \in Clients, Leave(c), UNCHANGED <<dicts, given>>
    PROVE  PrivateInv'
<1>1. NoCall(c).at \notin Serializing /\ NoCall(c).dict \in Dicts \cup {Scratch[c]}
  BY DEF NoCall, Serializing
<1> QED
  BY <1>1, SettlesAway DEF Leave

\* A step of a call that serializes on, on the same dict.
LEMMA SettlesOn ==
    ASSUME PrivateInv, TypeInv', NEW c \in Clients, NEW frame, Continue(c, frame),
           call[c].at \in Serializing,
           frame.dict = call[c].dict, frame.array = call[c].array,
           Agrees(frame, dicts'[call[c].dict]),
           \A d \in AllDicts : /\ d # call[c].dict => dicts'[d] = dicts[d]
                               /\ dicts'[d].ns = dicts[d].ns,
           UNCHANGED given
    PROVE  PrivateInv'
<1>1. NamesAsked'
  BY DEF PrivateInv, NamesAsked
<1>2. \A o \in Clients \ {c} : call[o].at \in Serializing =>
         call[o].dict # call[c].dict /\ call[o].array # call[c].array
  BY DEF PrivateInv, Apart
<1>3. \A o \in Clients : call[o].at \in Serializing =>
         given'[call[o].array] = <<>>
  BY DEF PrivateInv, Rooms
<1>4. \A o \in Clients : call[o].dict \in AllDicts
  BY PrivateFacts
<1>5. frame.dict \in Dicts \cup {Scratch[c]}
  BY DEF PrivateInv, OwnDicts
<1> QED
  BY <1>1, <1>2, <1>3, <1>4, <1>5, Settles

\* The frame of a call to serialize agrees with its dict.
LEMMA AgreesNow ==
    ASSUME PrivateInv, NEW c \in Clients, call[c].at \in Serializing
    PROVE  /\ OnPath(call[c], dicts[call[c].dict])
           /\ Passed(call[c], dicts[call[c].dict])
           /\ Meant(call[c], dicts[call[c].dict])
BY DEF PrivateInv, Agrees

\* A step that serializes on, and leaves all dicts alone.
LEMMA GoesOn ==
    ASSUME PrivateInv, TypeInv', NEW c \in Clients, NEW frame, Continue(c, frame),
           call[c].at \in Serializing, frame.dict = call[c].dict,
           frame.array = call[c].array, frame.meant = call[c].meant,
           OnPath(frame, dicts[call[c].dict]), Passed(frame, dicts[call[c].dict]),
           UNCHANGED <<dicts, given>>
    PROVE  PrivateInv'
<1>1. Meant(frame, dicts[call[c].dict])
  BY AgreesNow DEF Meant
<1>2. Agrees(frame, dicts'[call[c].dict])
  BY <1>1 DEF Agrees
<1> QED
  BY <1>2, SettlesOn

\* A field that lacks a value and has no default is not ready before None is
\* written to its key, and every other field stays as ready as it is.
LEMMA NoneMakesReady ==
    ASSUME NEW f \in FieldDecl, NEW g \in FieldDecl, NEW cells \in [Keys -> Cell],
           IsLacking(f, cells), f.option
    PROVE  LET now == [cells EXCEPT ![f.name] = None]
           IN /\ Ready(f, now)
              /\ Ready(g, cells) => Ready(g, now)
              /\ f.name # g.name => Sent(g, now) = Sent(g, cells)
              /\ Sent(f, now) = Sent(f, cells)
<1> DEFINE now == [cells EXCEPT ![f.name] = None]
<1>1. f.name \in Keys /\ g.name \in Keys
  BY DEF FieldDecl
<1>2. now[f.name] = None /\ \A k \in Keys : k # f.name => now[k] = cells[k]
  BY <1>1
<1>3. None # Absent
  BY DEF None, Absent
<1>4. cells[f.name] \in Missing /\ f.default = Absent
  BY DEF IsLacking
<1> HIDE DEF now
<1>5. Ready(f, now)
  BY <1>2, <1>3 DEF Ready, ValueFor
<1>6. Ready(g, cells) => Ready(g, now)
  BY <1>1, <1>2, <1>3, <1>4 DEF Ready, ValueFor, IsLacking, Missing
<1>7. f.name # g.name => Sent(g, now) = Sent(g, cells)
  BY <1>1, <1>2 DEF Sent, ValueFor
<1>8. Sent(f, now) = Sent(f, cells)
  BY <1>2, <1>3, <1>4 DEF Sent, ValueFor, Missing
<1> QED
  BY <1>5, <1>6, <1>7, <1>8 DEF now

\* The size pass, the first that looks into the dict.
LEMMA SizePrivate ==
    ASSUME PrivateInv, TypeInv', NEW c \in Clients,
           SizeRoot(c) \/ SizeHeader(c) \/ Fill(c) \/ Filled(c) \/ Measure(c)
    PROVE  PrivateInv'
<1> DEFINE d == dicts[call[c].dict]
           f == Field(c)
<1>1. /\ call[c] \in Frames /\ Sound(call[c])
      /\ call[c].todo \in Seq(FieldDecl)
  BY PrivateFacts
<1>2. call[c].at \in Serializing
  BY DEF SizeRoot, SizeHeader, Fill, Filled, Measure, Coming, Through, At, Serializing
<1>3. OnPath(call[c], d) /\ Passed(call[c], d)
  BY <1>2, AgreesNow
<1>4. Resolved(c) = NamespaceOf(d.ns) /\ CellsOf(c) = d.cells
  BY DEF Resolved, CellsOf
<1>5. UNCHANGED <<dicts, given>>
  BY DEF SizeRoot, SizeHeader, Fill, Filled, Measure, callers, history
<1> HIDE DEF d
<1>6. ASSUME NEW frame, Continue(c, frame), frame.dict = call[c].dict,
             frame.array = call[c].array, frame.meant = call[c].meant,
             OnPath(frame, d), Passed(frame, d)
      PROVE  PrivateInv'
  BY <1>2, <1>5, <1>6, GoesOn DEF d
<1>7. ASSUME Leave(c) PROVE PrivateInv'
  BY <1>5, <1>7, SettlesOver
<1>8. CASE SizeRoot(c)
  <2> DEFINE frame == [call[c] EXCEPT !.at = "sizeHeader", !.schema = Resolved(c).path]
  <2>1. frame.dict = call[c].dict /\ frame.array = call[c].array /\ frame.meant = call[c].meant
    BY <1>1 DEF Frames
  <2>2. Resolved(c).ok => OnPath(frame, d) /\ Passed(frame, d)
    BY <1>1, <1>4 DEF Frames, OnPath, Passed
  <2> HIDE DEF frame
  <2>3. Resolved(c).ok /\ Continue(c, frame) => PrivateInv'
    BY <1>6, <2>1, <2>2
  <2> QED
    BY <1>7, <1>8, <2>3 DEF SizeRoot, frame
<1>9. CASE SizeHeader(c)
  <2> DEFINE frame == [call[c] EXCEPT !.at = "fill", !.size = HeaderSize(Resolved(c).path),
                                      !.todo = Fields(call[c].schema)]
  <2>1. frame.dict = call[c].dict /\ frame.array = call[c].array /\ frame.meant = call[c].meant
    BY <1>1 DEF Frames
  <2>2. call[c].at = "sizeHeader"
    BY <1>9 DEF SizeHeader, At
  <2>3. HasRoot(call[c].schema) => OnPath(frame, d) /\ Passed(frame, d)
    BY <1>1, <1>3, <2>2 DEF Frames, OnPath, Passed
  <2> HIDE DEF frame
  <2>4. HasRoot(call[c].schema) /\ Continue(c, frame) => PrivateInv'
    BY <1>6, <2>1, <2>3
  <2> QED
    BY <1>7, <1>9, <2>4 DEF SizeHeader, frame
<1>10. CASE Fill(c)
  <2> DEFINE next == [call[c] EXCEPT !.todo = Tail(@)]
             none == [call[c] EXCEPT !.at = "writeNone"]
  <2>1. call[c].at = "fill" /\ call[c].todo # <<>>
    BY <1>10 DEF Fill, Coming, At
  <2>2. /\ next.dict = call[c].dict /\ next.array = call[c].array /\ next.meant = call[c].meant
        /\ none.dict = call[c].dict /\ none.array = call[c].array /\ none.meant = call[c].meant
        /\ next.at = "fill" /\ next.schema = call[c].schema /\ next.todo = Tail(call[c].todo)
        /\ none.at = "writeNone" /\ none.schema = call[c].schema /\ none.todo = call[c].todo
    BY <1>1, <2>1 DEF Frames
  <2> HIDE DEF next, none
  <2>3. OnPath(next, d) /\ OnPath(none, d)
    BY <1>3, <2>1, <2>2 DEF OnPath
  <2>4. ASSUME IsLacking(f, d.cells), f.option PROVE Passed(none, d)
    BY <1>3, <2>1, <2>2, <2>4 DEF Passed, Field
  <2>5. ASSUME ~IsLacking(f, d.cells) PROVE Passed(next, d)
    <3>1. Ready(f, d.cells)
      <4>1. ValueFor(f, d.cells) # Absent
        BY <2>5 DEF IsLacking, ValueFor, Missing
      <4> QED
        BY <2>5, <4>1 DEF Ready
    <3>2. /\ \A g \in ToSet(call[c].todo) : g = f \/ g \in ToSet(next.todo)
          /\ ToSet(next.todo) \subseteq ToSet(call[c].todo)
      BY <1>1, <2>1, <2>2, Elements DEF Field
    <3> QED
      BY <1>3, <2>1, <2>2, <3>1, <3>2 DEF Passed
  <2> QED
    BY <1>4, <1>6, <1>7, <1>10, <2>2, <2>3, <2>4, <2>5 DEF Fill, next, none
<1>11. CASE Filled(c)
  <2> DEFINE frame == [call[c] EXCEPT !.at = "measure", !.todo = Fields(call[c].schema)]
  <2>1. call[c].at = "fill" /\ call[c].todo = <<>>
    BY <1>11 DEF Filled, Through, At
  <2>2. /\ frame.dict = call[c].dict /\ frame.array = call[c].array /\ frame.meant = call[c].meant
        /\ frame.at = "measure" /\ frame.schema = call[c].schema
    BY <1>1 DEF Frames
  <2> HIDE DEF frame
  <2>3. OnPath(frame, d)
    BY <1>3, <2>1, <2>2 DEF OnPath
  <2>4. Passed(frame, d)
    <3>1. ToSet(call[c].todo) = {}
      BY <1>1, <2>1, Elements
    <3> QED
      BY <1>3, <2>1, <2>2, <3>1 DEF Passed
  <2> QED
    BY <1>6, <1>11, <2>2, <2>3, <2>4 DEF Filled, frame
<1>12. CASE Measure(c)
  <2> DEFINE more == IF ValueFor(f, CellsOf(c)) = Absent THEN 0
                     ELSE SizeOf(f, ValueFor(f, CellsOf(c)))
             frame == [call[c] EXCEPT !.todo = Tail(@), !.size = @ + more]
  <2>1. call[c].at = "measure"
    BY <1>12 DEF Measure, Coming, At
  <2>2. Continue(c, frame)
    BY <1>12 DEF Measure
  <2> HIDE DEF more
  <2>3. /\ frame.dict = call[c].dict /\ frame.array = call[c].array /\ frame.meant = call[c].meant
        /\ frame.at = "measure" /\ frame.schema = call[c].schema
    BY <1>1, <2>1 DEF Frames
  <2> HIDE DEF frame
  <2>4. OnPath(frame, d) /\ Passed(frame, d)
    BY <1>3, <2>1, <2>3 DEF OnPath, Passed
  <2> QED
    BY <1>6, <2>2, <2>3, <2>4
<1> QED
  BY <1>8, <1>9, <1>10, <1>11, <1>12

\* The None that the size pass writes.
LEMMA NonePrivate ==
    ASSUME PrivateInv, TypeInv', NEW c \in Clients, WriteNone(c)
    PROVE  PrivateInv'
<1> DEFINE d == dicts[call[c].dict]
           f == Field(c)
           cells == [d.cells EXCEPT ![f.name] = None]
           frame == [call[c] EXCEPT !.at = "fill", !.todo = Tail(@)]
<1>1. /\ call[c] \in Frames /\ Sound(call[c]) /\ call[c].dict \in AllDicts
      /\ call[c].todo \in Seq(FieldDecl) /\ d \in [ns : Seq(STRING), cells : [Keys -> Cells]]
      /\ d.cells \in [Keys -> Cell]
      /\ HasRoot(call[c].schema) => Fields(call[c].schema) \in Seq(FieldDecl)
  BY PrivateFacts DEF CellsOf
<1>2. call[c].at = "writeNone" /\ call[c].at \in Serializing /\ call[c].todo # <<>>
  BY <1>1 DEF WriteNone, At, Serializing, Sound
<1>3. OnPath(call[c], d) /\ Passed(call[c], d) /\ Meant(call[c], d)
  BY <1>2, AgreesNow
<1>4. /\ dicts' = [dicts EXCEPT ![call[c].dict].cells[f.name] = None]
      /\ Continue(c, frame) /\ UNCHANGED given
  BY DEF WriteNone, history
<1>5. dicts \in [AllDicts -> [ns : Seq(STRING), cells : [Keys -> Cells]]]
  BY DEF PrivateInv, TypeInv, TypeOK
<1>6. f \in FieldDecl /\ f.name \in Keys /\ f.option /\ IsLacking(f, d.cells)
      /\ HasRoot(call[c].schema)
  <2>1. f \in FieldDecl
    BY <1>2, FrameFacts DEF PrivateInv
  <2>2. f.option /\ IsLacking(f, d.cells)
    BY <1>2, <1>3 DEF Passed, Field
  <2>3. HasRoot(call[c].schema)
    BY <1>2, <1>3 DEF OnPath
  <2> QED
    BY <2>1, <2>2, <2>3 DEF FieldDecl
<1>7. /\ dicts'[call[c].dict] = [ns |-> d.ns, cells |-> cells]
      /\ \A e \in AllDicts : /\ e # call[c].dict => dicts'[e] = dicts[e]
                             /\ dicts'[e].ns = dicts[e].ns
  <2> HIDE DEF f, frame
  <2>1. dicts'[call[c].dict] = [d EXCEPT !.cells[f.name] = None]
    BY <1>1, <1>4, <1>5
  <2>2. [d EXCEPT !.cells[f.name] = None] = [ns |-> d.ns, cells |-> cells]
    <3>1. \A r \in [ns : Seq(STRING), cells : [Keys -> Cells]] :
             [r EXCEPT !.cells[f.name] = None]
                = [ns |-> r.ns, cells |-> [r.cells EXCEPT ![f.name] = None]]
      OBVIOUS
    <3> QED
      BY <1>1, <3>1
  <2>3. \A e \in AllDicts : e # call[c].dict => dicts'[e] = dicts[e]
    BY <1>4, <1>5
  <2> QED
    BY <2>1, <2>2, <2>3
<1>8. /\ frame.dict = call[c].dict /\ frame.array = call[c].array /\ frame.meant = call[c].meant
      /\ frame.at = "fill" /\ frame.schema = call[c].schema /\ frame.todo = Tail(call[c].todo)
  BY <1>1, <1>2 DEF Frames
<1> HIDE DEF frame
<1>9. \A g \in FieldDecl : /\ Ready(f, cells)
                           /\ Ready(g, d.cells) => Ready(g, cells)
                           /\ f.name # g.name => Sent(g, cells) = Sent(g, d.cells)
                           /\ Sent(f, cells) = Sent(f, d.cells)
  BY <1>1, <1>6, NoneMakesReady
<1> DEFINE now == [ns |-> d.ns, cells |-> cells]
<1>10. OnPath(frame, now)
  BY <1>2, <1>3, <1>8 DEF OnPath
<1>11. Passed(frame, now)
  <2>1. /\ \A g \in ToSet(call[c].todo) : g = f \/ g \in ToSet(frame.todo)
        /\ ToSet(frame.todo) \subseteq ToSet(call[c].todo)
    BY <1>1, <1>2, <1>8, Elements DEF Field
  <2>2. ToSet(Fields(call[c].schema)) \subseteq FieldDecl
    BY <1>1, <1>6, Elements
  <2> HIDE DEF f, cells
  <2> QED
    BY <1>2, <1>3, <1>8, <1>9, <2>1, <2>2 DEF Passed
<1>12. Meant(frame, now)
  <2> SUFFICES ASSUME NamedOnce PROVE Meaning(now) = call[c].meant
    BY <1>8 DEF Meant
  <2> DEFINE ns == NamespaceOf(d.ns)
             sends(k) == {g \in ToSet(Fields(ns.path)) : g.name = k}
  <2>1. ns.ok /\ call[c].schema = ns.path /\ HasRoot(ns.path) /\ ns.path \in Paths
    BY <1>2, <1>3, ResolvedType DEF OnPath
  <2>2. f \in ToSet(Fields(ns.path)) /\ ToSet(Fields(ns.path)) \subseteq FieldDecl
    BY <1>1, <1>2, <1>3, <2>1, Elements DEF Passed, Field
  <2>3. ASSUME NEW k \in Keys, sends(k) # {}
        PROVE  Sent(CHOOSE g \in sends(k) : TRUE, cells) = Sent(CHOOSE g \in sends(k) : TRUE, d.cells)
    <3> DEFINE g == CHOOSE h \in sends(k) : TRUE
    <3>1. g \in sends(k)
      BY <2>3
    <3> HIDE DEF g
    <3>2. g \in FieldDecl /\ g \in ToSet(Fields(ns.path))
      BY <2>2, <3>1
    <3>3. CASE g.name = f.name
      <4>1. g = f
        BY <2>1, <2>2, <3>2, <3>3 DEF NamedOnce
      <4> QED
        BY <1>9, <3>2, <4>1 DEF g
    <3>4. CASE g.name # f.name
      BY <1>9, <3>2, <3>4 DEF g
    <3> QED
      BY <3>3, <3>4
  <2>4. Meaning(now) = Meaning(d)
    <3> DEFINE value(k, held) == IF ns.ok /\ HasRoot(ns.path) /\ sends(k) # {}
                                 THEN Sent(CHOOSE g \in sends(k) : TRUE, held)
                                 ELSE Absent
    <3>1. Meaning(now) = [path |-> ns.path, values |-> [k \in Keys |-> value(k, cells)]]
      BY DEF Meaning
    <3>2. Meaning(d) = [path |-> ns.path, values |-> [k \in Keys |-> value(k, d.cells)]]
      BY DEF Meaning
    <3>3. \A k \in Keys : value(k, cells) = value(k, d.cells)
      BY <2>3
    <3> HIDE DEF value, cells, now
    <3> QED
      BY <3>1, <3>2, <3>3
  <2>5. Meaning(d) = call[c].meant
    BY <1>3 DEF Meant
  <2> QED
    BY <2>4, <2>5
<1>13. Agrees(frame, dicts'[call[c].dict])
  BY <1>7, <1>10, <1>11, <1>12 DEF Agrees
<1> HIDE DEF d, f, cells
<1> QED
  BY <1>2, <1>4, <1>7, <1>8, <1>13, SettlesOn

\* Once its namespace and its class were found by size, a dict loses them no
\* more: the serialize pass finds the same path.
LEMMA PathStays ==
    ASSUME PrivateInv, NEW c \in Clients,
           call[c].at \in Serializing \ {"sizeRoot", "sizeHeader"}
    PROVE  /\ Resolved(c).ok /\ Resolved(c).path = call[c].schema
           /\ HasRoot(call[c].schema)
           /\ ToSet(Fields(call[c].schema)) \subseteq FieldDecl
<1>1. OnPath(call[c], dicts[call[c].dict])
  BY AgreesNow
<1>2. Resolved(c).ok /\ Resolved(c).path = call[c].schema /\ HasRoot(call[c].schema)
  BY <1>1 DEF OnPath, Resolved
<1> QED
  BY <1>2, PrivateFacts, Elements

\* A field that is ready is never found missing, nor left out.
LEMMA ReadyIsPut ==
    ASSUME NEW f, NEW cells, Ready(f, cells)
    PROVE  /\ ValueFor(f, cells) # Absent
           /\ ~(IsLacking(f, cells) /\ ~f.option)
BY DEF Ready

\* The serialize pass: what size left behind is what it finds.
LEMMA PutPrivate ==
    ASSUME PrivateInv, TypeInv', NEW c \in Clients,
           NewBuffer(c) \/ PutHeader(c) \/ FindSchema(c) \/ Check(c) \/ Checked(c)
           \/ OmitField(c) \/ PutField(c)
    PROVE  PrivateInv'
<1> DEFINE d == dicts[call[c].dict]
           f == Field(c)
<1>1. /\ call[c] \in Frames /\ Sound(call[c])
      /\ call[c].todo \in Seq(FieldDecl)
  BY PrivateFacts
<1>2. call[c].at \in Serializing \ {"sizeRoot", "sizeHeader"}
  BY DEF NewBuffer, PutHeader, FindSchema, Check, Checked, OmitField, PutField,
         Coming, Through, At, Serializing
<1>3. OnPath(call[c], d) /\ Passed(call[c], d)
  BY <1>2, AgreesNow
<1>4. /\ Resolved(c).ok /\ Resolved(c).path = call[c].schema /\ HasRoot(call[c].schema)
      /\ CellsOf(c) = d.cells
  BY <1>2, PathStays DEF CellsOf
<1>5. UNCHANGED <<dicts, given>>
  BY DEF NewBuffer, PutHeader, Put, FindSchema, Check, Checked, OmitField, PutField,
         callers, history
<1> HIDE DEF d
<1>6. ASSUME NEW frame, Continue(c, frame), frame.dict = call[c].dict,
             frame.array = call[c].array, frame.meant = call[c].meant,
             OnPath(frame, d), Passed(frame, d)
      PROVE  PrivateInv'
  BY <1>2, <1>5, <1>6, GoesOn DEF d
<1>7. ASSUME Leave(c) PROVE PrivateInv'
  BY <1>5, <1>7, SettlesOver
<1>8. CASE NewBuffer(c)
  <2> DEFINE frame == [call[c] EXCEPT !.at = "putHeader", !.buffer = defaultBuffer]
  <2>1. call[c].at = "measure"
    BY <1>8 DEF NewBuffer, Through, At
  <2>2. /\ frame.dict = call[c].dict /\ frame.array = call[c].array /\ frame.meant = call[c].meant
        /\ frame.at = "putHeader" /\ frame.schema = call[c].schema
    BY <1>1 DEF Frames
  <2> HIDE DEF frame
  <2>3. OnPath(frame, d) /\ Passed(frame, d)
    BY <1>3, <2>1, <2>2 DEF OnPath, Passed
  <2> QED
    BY <1>6, <1>8, <2>2, <2>3 DEF NewBuffer, frame
<1>9. CASE PutHeader(c)
  <2> DEFINE bytes == call[c].buffer \o EncodeHeader(Version, Resolved(c).path)
             frame == [[call[c] EXCEPT !.at = "findSchema"] EXCEPT !.buffer = bytes]
  <2>1. call[c].at = "putHeader"
    BY <1>9 DEF PutHeader, At
  <2>2. CASE Packable(Resolved(c).path) /\ Continue(c, frame)
    <3>1. bytes # <<>>
      <4>1. Version \in Byte /\ call[c].buffer \in Seq(Byte)
        BY <1>1 DEF Version, Byte, Frames
      <4>2. EncodeHeader(Version, Resolved(c).path) \in Seq(Byte)
        BY <2>2, <4>1, HeaderType, ResolvedType DEF Resolved
      <4>3. PathBytes(Resolved(c).path) \in Seq(Byte) /\ SecondByte(Resolved(c).path) \in Byte
        BY <2>2, ResolvedType, DepthReadBack, PathReadBack DEF Resolved
      <4>4. EncodeHeader(Version, Resolved(c).path) # <<>>
        BY <4>1, <4>3 DEF EncodeHeader
      <4> QED
        BY <4>1, <4>2, <4>4
    <3> HIDE DEF bytes
    <3>2. /\ frame.dict = call[c].dict /\ frame.array = call[c].array
          /\ frame.meant = call[c].meant /\ frame.at = "findSchema"
          /\ frame.schema = call[c].schema /\ frame.buffer = bytes
      BY <1>1 DEF Frames
    <3> HIDE DEF frame
    <3>3. OnPath(frame, d)
      BY <1>3, <1>4, <2>1, <2>2, <3>1, <3>2 DEF OnPath
    <3>4. Passed(frame, d)
      BY <1>3, <2>1, <3>2 DEF Passed
    <3> QED
      BY <1>6, <2>2, <3>2, <3>3, <3>4
  <2> QED
    BY <1>7, <1>9, <2>2 DEF PutHeader, Put
<1>10. CASE FindSchema(c)
  <2> DEFINE path == Resolved(c).path
             frame == [call[c] EXCEPT !.at = "check", !.schema = path, !.todo = Fields(path)]
  <2>1. call[c].at = "findSchema"
    BY <1>10 DEF FindSchema, At
  <2>2. /\ frame.dict = call[c].dict /\ frame.array = call[c].array /\ frame.meant = call[c].meant
        /\ frame.at = "check" /\ frame.schema = call[c].schema
        /\ frame.todo = Fields(call[c].schema) /\ frame.buffer = call[c].buffer
    BY <1>1, <1>4 DEF Frames
  <2> HIDE DEF frame
  <2>3. OnPath(frame, d) /\ Passed(frame, d)
    BY <1>3, <2>1, <2>2 DEF OnPath, Passed
  <2> QED
    BY <1>4, <1>6, <1>10, <2>2, <2>3 DEF FindSchema, frame
<1>11. CASE Check(c)
  <2> DEFINE frame == [call[c] EXCEPT !.todo = Tail(@)]
  <2>1. call[c].at = "check" /\ call[c].todo # <<>>
    BY <1>11 DEF Check, Coming, At
  <2>2. /\ frame.dict = call[c].dict /\ frame.array = call[c].array /\ frame.meant = call[c].meant
        /\ frame.at = "check" /\ frame.schema = call[c].schema
        /\ frame.todo = Tail(call[c].todo) /\ frame.buffer = call[c].buffer
    BY <1>1, <2>1 DEF Frames
  <2> HIDE DEF frame
  <2>3. ToSet(frame.todo) \subseteq ToSet(call[c].todo)
    BY <1>1, <2>1, <2>2, Elements
  <2>4. OnPath(frame, d) /\ Passed(frame, d)
    BY <1>3, <2>1, <2>2, <2>3 DEF OnPath, Passed
  <2> QED
    BY <1>6, <1>7, <1>11, <2>2, <2>4 DEF Check, frame
<1>12. CASE Checked(c)
  <2> DEFINE frame == [call[c] EXCEPT !.at = "put", !.todo = Fields(call[c].schema),
                                      !.omits = Omitted(c)]
  <2>1. call[c].at = "check"
    BY <1>12 DEF Checked, Through, At
  <2>2. /\ frame.dict = call[c].dict /\ frame.array = call[c].array /\ frame.meant = call[c].meant
        /\ frame.at = "put" /\ frame.schema = call[c].schema
        /\ frame.todo = Fields(call[c].schema) /\ frame.buffer = call[c].buffer
        /\ frame.omits = Omitted(c)
    BY <1>1 DEF Frames
  <2> HIDE DEF frame
  <2>3. Omitted(c) = {}
    <3>1. \A g \in ToSet(Fields(call[c].schema)) : Ready(g, CellsOf(c))
      BY <1>3, <1>4, <2>1 DEF Passed
    <3> QED
      BY <3>1, ReadyIsPut DEF Omitted
  <2>4. OnPath(frame, d) /\ Passed(frame, d)
    BY <1>3, <2>1, <2>2, <2>3 DEF OnPath, Passed
  <2> QED
    BY <1>6, <1>12, <2>2, <2>4 DEF Checked, frame
<1>13. CASE OmitField(c)
  <2>1. call[c].at = "put" /\ f \in call[c].omits
    BY <1>13 DEF OmitField, Coming, At
  <2> QED
    BY <1>3, <2>1 DEF Passed
<1>14. CASE PutField(c)
  <2> DEFINE cell == Sent(f, CellsOf(c))
             bytes == call[c].buffer \o EncodeField(f, cell)
             frame == [[call[c] EXCEPT !.todo = Tail(@)] EXCEPT !.buffer = bytes]
  <2>1. call[c].at = "put" /\ call[c].todo # <<>>
    BY <1>14 DEF PutField, Coming, At
  <2>2. CASE Takes(f, cell) /\ Continue(c, frame)
    <3>1. bytes # <<>>
      <4>1. call[c].buffer \in Seq(Byte) /\ call[c].buffer # <<>>
        BY <1>1, <1>3, <2>1 DEF Frames, OnPath
      <4>2. f \in FieldDecl /\ CellsOf(c) \in [Keys -> Cell]
        BY <2>1, FrameFacts DEF PrivateInv
      <4>3. EncodeField(f, cell) \in Seq(Byte)
        BY <2>2, <4>2, FieldType, SentType DEF Takes
      <4> QED
        BY <4>1, <4>3
    <3> HIDE DEF bytes, cell
    <3>2. /\ frame.dict = call[c].dict /\ frame.array = call[c].array
          /\ frame.meant = call[c].meant /\ frame.at = "put"
          /\ frame.schema = call[c].schema /\ frame.buffer = bytes
          /\ frame.todo = Tail(call[c].todo) /\ frame.omits = call[c].omits
      BY <1>1, <2>1 DEF Frames
    <3> HIDE DEF frame
    <3>3. OnPath(frame, d)
      BY <1>3, <2>1, <3>1, <3>2 DEF OnPath
    <3>4. /\ \A g \in ToSet(call[c].todo) : g = f \/ g \in ToSet(frame.todo)
          /\ ToSet(frame.todo) \subseteq ToSet(call[c].todo)
      BY <1>1, <2>1, <3>2, Elements DEF Field
    <3>5. Takes(f, Sent(f, d.cells))
      BY <1>4, <2>2 DEF cell
    <3> HIDE DEF f
    <3>6. Passed(frame, d)
      BY <1>3, <2>1, <3>2, <3>4, <3>5 DEF Passed
    <3> QED
      BY <1>6, <2>2, <3>2, <3>3, <3>6
  <2> QED
    BY <1>7, <1>14, <2>2 DEF PutField, Put, Takes
<1> QED
  BY <1>8, <1>9, <1>10, <1>11, <1>12, <1>13, <1>14

\* The message is given to the array its call had to itself.
LEMMA ReturnPrivate ==
    ASSUME PrivateInv, TypeInv', NEW c \in Clients, ReturnMessage(c)
    PROVE  PrivateInv'
<1>1. /\ Leave(c) /\ UNCHANGED dicts
      /\ given' = [given EXCEPT ![call[c].array] = call[c].buffer]
      /\ call[c].at \in Serializing
  BY DEF ReturnMessage, Through, At, Serializing
<1>2. NamesAsked'
  BY <1>1 DEF PrivateInv, NamesAsked
<1>3. ASSUME NEW o \in Clients \ {c}, call[o].at \in Serializing
      PROVE  given'[call[o].array] = <<>>
  <2>1. call[o].array # call[c].array /\ given[call[o].array] = <<>>
    BY <1>1, <1>3 DEF PrivateInv, Apart, Rooms
  <2>2. given \in [Arrays -> Seq(Byte)] /\ call[o].array \in Arrays
    BY PrivateFacts DEF PrivateInv, TypeInv, TypeOK, Frames
  <2> QED
    BY <1>1, <2>1, <2>2
<1>4. NoCall(c).at \notin Serializing /\ NoCall(c).dict \in Dicts \cup {Scratch[c]}
  BY DEF NoCall, Serializing
<1> QED
  BY <1>1, <1>2, <1>3, <1>4, Settles DEF Leave

\* No reader touches a dict or a message, nor comes to serialize.
LEMMA ReaderMoves ==
    ASSUME PrivateInv, NEW c \in Clients, Deserialize(c)
    PROVE  /\ call[c].at \notin Serializing
           /\ \E frame : /\ Continue(c, frame) /\ frame.at \notin Serializing
                         /\ frame.dict \in Dicts \cup {Scratch[c]}
           /\ UNCHANGED <<dicts, given>>
<1> DEFINE away == \E frame : /\ Continue(c, frame) /\ frame.at \notin Serializing
                              /\ frame.dict \in Dicts \cup {Scratch[c]}
<1>1. call[c] \in Frames /\ call[c].at \in Deserializing
  BY PrivateFacts
     DEF Deserialize, ReadHeaderByte, LookUp, ReadFlag, ReadByte, ReadLength, ReadText,
         ReturnMap, Coming, Through, At, Deserializing
<1>2. UNCHANGED <<dicts, given>>
  BY DEF Deserialize, ReadHeaderByte, LookUp, ReadFlag, ReadByte, ReadLength, ReadText,
         ReturnMap, callers, history
<1>3. call[c].dict \in Dicts \cup {Scratch[c]}
  BY DEF PrivateInv, OwnDicts
<1>4. ASSUME Leave(c) PROVE away
  <2>1. NoCall(c).at \notin Serializing /\ NoCall(c).dict = Scratch[c]
    BY DEF NoCall, Serializing
  <2> QED
    BY <1>4, <2>1 DEF Leave
<1>5. ASSUME NEW frame, Continue(c, frame), frame.dict = call[c].dict,
             frame.at \in Deserializing
      PROVE  away
  <2>1. frame.at \notin Serializing
    BY <1>5 DEF Serializing, Deserializing
  <2> QED
    BY <1>3, <1>5, <2>1
<1>6. ASSUME NEW frame, Pop(c, frame), DOMAIN frame = DOMAIN call[c],
             frame.dict = call[c].dict, frame.at \in Deserializing
      PROVE  away
  <2>1. /\ [frame EXCEPT !.buffer = Tail(@)].dict = call[c].dict
        /\ [frame EXCEPT !.buffer = Tail(@)].at \in Deserializing
    BY <1>1, <1>6 DEF Frames
  <2> QED
    BY <1>5, <1>6, <2>1 DEF Pop
<1> SUFFICES away
  <2>1. call[c].at \notin Serializing
    BY <1>1 DEF Serializing, Deserializing
  <2> QED
    BY <1>2, <2>1
<1> HIDE DEF away
<1> USE <1>1 DEF Frames
<1>7. CASE ReadHeaderByte(c)
  BY <1>4, <1>6, <1>7 DEF ReadHeaderByte, Exhausted
<1>8. CASE LookUp(c)
  <2>1. "read" \in Deserializing
    BY DEF Deserializing
  <2> QED
    BY <1>4, <1>5, <1>8, <2>1 DEF LookUp
<1>9. CASE ReadFlag(c)
  BY <1>4, <1>6, <1>9 DEF ReadFlag, Exhausted, Having
<1>10. CASE ReadByte(c)
  BY <1>4, <1>6, <1>10 DEF ReadByte, Exhausted, Having
<1>11. CASE ReadLength(c)
  <2>1. "text" \in Deserializing
    BY DEF Deserializing
  <2> QED
    BY <1>4, <1>5, <1>11, <2>1 DEF ReadLength
<1>12. CASE ReadText(c)
  <2> DEFINE text == UpTo(From(Source(c), 4), call[c].size)
             next(left) == [[Having(c, Text(text)) EXCEPT !.at = "read", !.size = 0]
                            EXCEPT !.buffer = left, !.inPlace = FALSE]
  <2>1. \A left : next(left).dict = call[c].dict /\ next(left).at \in Deserializing
    BY DEF Having, Deserializing
  <2>2. Leave(c) \/ \E left : Continue(c, next(left))
    BY <1>12 DEF ReadText, Slice
  <2> HIDE DEF next
  <2> QED
    BY <1>4, <1>5, <2>1, <2>2
<1>13. CASE ReturnMap(c)
  BY <1>4, <1>13 DEF ReturnMap
<1> QED
  BY <1>7, <1>8, <1>9, <1>10, <1>11, <1>12, <1>13 DEF Deserialize

LEMMA DeserializePrivate ==
    ASSUME PrivateInv, TypeInv', NEW c \in Clients, Deserialize(c)
    PROVE  PrivateInv'
BY ReaderMoves, SettlesAway

\* A call begins on a dict that no other call is serializing, with an array
\* that no other call is serializing into.
LEMMA EnterPrivate ==
    ASSUME PrivateInv, TypeInv', NEW c \in Clients,
           NEW d \in Dicts \cup {Scratch[c]}, NEW contents, Enter(c, d, contents),
           contents.ns \in NameArgs \cup {NoNames},
           \A o \in Clients \ {c} : call[o].at \in Serializing => call[o].dict # d
    PROVE  PrivateInv'
<1> DEFINE array == CHOOSE a \in Arrays : Unused(a)
           frame == [NoCall(c) EXCEPT !.at = "sizeRoot", !.dict = d, !.array = array,
                                      !.meant = Meaning(contents)]
<1>1. /\ Continue(c, frame) /\ dicts' = [dicts EXCEPT ![d] = contents]
      /\ UNCHANGED given
  BY DEF Enter, history
<1>2. array \in Arrays /\ Unused(array)
  BY DEF Enter
<1> HIDE DEF array
<1>3. /\ frame.at = "sizeRoot" /\ frame.dict = d /\ frame.array = array
      /\ frame.meant = Meaning(contents)
  BY DEF NoCall
<1> HIDE DEF frame
<1>4. d \in AllDicts /\ dicts \in [AllDicts -> [ns : Seq(STRING), cells : [Keys -> Cells]]]
  BY DEF AllDicts, PrivateInv, TypeInv, TypeOK
<1>5. dicts'[d] = contents /\ \A e \in AllDicts : e # d => dicts'[e] = dicts[e]
  BY <1>1, <1>4
<1>6. NamesAsked'
  BY <1>5 DEF PrivateInv, NamesAsked
<1>7. Agrees(frame, dicts'[frame.dict])
  BY <1>3, <1>5 DEF Agrees, OnPath, Passed, Meant
<1>8. \A o \in Clients \ {c} : call[o].at \in Serializing =>
         /\ call[o].dict # frame.dict /\ call[o].array # frame.array
         /\ dicts'[call[o].dict] = dicts[call[o].dict]
         /\ given'[call[o].array] = <<>>
  BY <1>1, <1>2, <1>3, <1>5, PrivateFacts DEF Unused, PrivateInv, Rooms
<1>9. given'[frame.array] = <<>>
  BY <1>1, <1>2, <1>3 DEF Unused
<1> QED
  BY <1>1, <1>3, <1>6, <1>7, <1>8, <1>9, Settles

LEMMA CallPrivate ==
    ASSUME ~MayShare, PrivateInv, TypeInv', NEW c \in Clients, Call(c)
    PROVE  PrivateInv'
<1>1. ASSUME NEW d \in Dicts, NEW names \in NameArgs, StartSerialize(c, d, names)
      PROVE  PrivateInv'
  <2> DEFINE contents == [dicts[d] EXCEPT !.ns = IF names = NoNames THEN @ ELSE names]
  <2>1. dicts[d] \in [ns : Seq(STRING), cells : [Keys -> Cells]] /\ d \in AllDicts
    BY DEF AllDicts, PrivateInv, TypeInv, TypeOK
  <2>2. contents.ns \in NameArgs \cup {NoNames}
    BY <2>1 DEF PrivateInv, NamesAsked
  <2>3. \A o \in Clients : call[o].at \in Serializing => call[o].dict # d
    BY <1>1 DEF StartSerialize, DictFree, Uses
  <2>4. Enter(c, d, contents)
    BY <1>1 DEF StartSerialize
  <2> HIDE DEF contents
  <2> QED
    BY <2>2, <2>3, <2>4, EnterPrivate
<1>2. ASSUME NEW cell \in Scalars, StartScalar(c, cell)
      PROVE  PrivateInv'
  <2>1. \A o \in Clients \ {c} : call[o].dict # Scratch[c]
    <3>1. \A o \in Clients \ {c} : Scratch[c] # Scratch[o] /\ Scratch[c] \notin Dicts
      BY EngineAssumption
    <3> QED
      BY <3>1 DEF PrivateInv, OwnDicts
  <2> QED
    BY <1>2, <2>1, EnterPrivate DEF StartScalar
<1>3. ASSUME NEW a \in Arrays, StartDeserialize(c, a)
      PROVE  PrivateInv'
  <2> DEFINE frame == [NoCall(c) EXCEPT !.at = "header", !.array = a, !.inPlace = TRUE]
  <2>1. Continue(c, frame) /\ UNCHANGED <<dicts, given>>
    BY <1>3 DEF StartDeserialize, callers
  <2>2. frame.at \notin Serializing /\ frame.dict = Scratch[c]
    BY DEF NoCall, Serializing
  <2> HIDE DEF frame
  <2> QED
    BY <2>1, <2>2, SettlesAway
<1> QED
  BY <1>1, <1>2, <1>3 DEF Call

\* The inductive step of all that follows.
LEMMA PrivateStep ==
    ASSUME ~MayShare, PrivateInv, [Next]_vars
    PROVE  PrivateInv'
<1>1. TypeInv'
  BY TypeStep DEF PrivateInv
<1>2. ASSUME NEW c \in Clients, Call(c) PROVE PrivateInv'
  BY <1>1, <1>2, CallPrivate
<1>3. ASSUME NEW c \in Clients, Step(c) PROVE PrivateInv'
  BY <1>1, <1>3, SizePrivate, NonePrivate, PutPrivate, ReturnPrivate, DeserializePrivate
     DEF Step, Serialize
<1>4. ASSUME NEW d \in Dicts, NEW k \in Keys, NEW cell \in Cells, Edit(d, k, cell)
      PROVE  PrivateInv'
  <2>1. /\ dicts' = [dicts EXCEPT ![d].cells[k] = cell]
        /\ \A c \in Clients : call[c].at \in Serializing => call[c].dict # d
        /\ UNCHANGED <<call, given>>
    BY <1>4 DEF Edit, Uses, history
  <2>2. dicts \in [AllDicts -> [ns : Seq(STRING), cells : [Keys -> Cells]]]
        /\ d \in AllDicts
    BY DEF PrivateInv, TypeInv, TypeOK, AllDicts
  <2>3. \A e \in AllDicts : /\ e # d => dicts'[e] = dicts[e]
                            /\ dicts'[e].ns = dicts[e].ns
    BY <2>1, <2>2
  <2>4. \A c \in Clients : call[c].at \in Serializing => dicts'[call[c].dict] = dicts[call[c].dict]
    BY <2>1, <2>3, PrivateFacts
  <2> QED
    BY <1>1, <2>1, <2>3, <2>4 DEF PrivateInv, OwnDicts, Apart, Rooms, NamesAsked
<1>5. CASE AddListener \/ UNCHANGED vars
  <2>1. UNCHANGED <<dicts, call, given>>
    BY <1>5 DEF AddListener, vars, callers, history
  <2> QED
    BY <1>1, <2>1 DEF PrivateInv, OwnDicts, Apart, Rooms, NamesAsked
<1> QED
  BY <1>2, <1>3, <1>4, <1>5 DEF Next

\* Nobody is in a call at the beginning.
LEMMA PrivateInit == Init => PrivateInv
<1> SUFFICES ASSUME Init PROVE PrivateInv
  OBVIOUS
<1>1. \A c \in Clients : call[c].at = "idle" /\ call[c].dict = Scratch[c]
  BY DEF Init, NoCall
<1>2. \A d \in AllDicts : dicts[d].ns = NoNames
  BY DEF Init
<1>3. TypeInv
  BY TypeInit
<1> QED
  BY <1>1, <1>2, <1>3 DEF PrivateInv, OwnDicts, Apart, Rooms, NamesAsked, Serializing

\* MissingIsFoundBySize, of ClassType.size and ClassType.serialize: whatever
\* the schema and however many clients, as long as no two calls share a dict,
\* a field that is required and missing is found before a byte is written.
THEOREM MissingFoundBySize ==
    ASSUME ~MayShare
    PROVE  Spec => []MissingIsFoundBySize
<1>1. PrivateInv => MissingIsFoundBySize
  <2> SUFFICES ASSUME PrivateInv, NEW c \in Clients, Coming(c, "check"),
                      IsLacking(Field(c), CellsOf(c))
               PROVE  Field(c).option
    BY DEF MissingIsFoundBySize
  <2>1. call[c].at = "check" /\ call[c].todo # <<>> /\ call[c].at \in Serializing
    BY DEF Coming, At, Serializing
  <2>2. Field(c) \in ToSet(call[c].todo)
    BY <2>1, PrivateFacts, Elements DEF Field
  <2>3. Ready(Field(c), CellsOf(c))
    BY <2>1, <2>2, AgreesNow DEF Passed, CellsOf
  <2> QED
    BY <2>3, ReadyIsPut
<1> QED
  BY <1>1, PrivateInit, PrivateStep, PTL DEF Spec

\* MeaningIsStable, of ClassType.size: if moreover no root class names a field
\* twice, the None that size writes into a dict never changes what the dict
\* means, from the call of serialize to its end.
THEOREM MeaningStays ==
    ASSUME ~MayShare, NamedOnce
    PROVE  Spec => []MeaningIsStable
<1>1. PrivateInv => MeaningIsStable
  BY AgreesNow DEF MeaningIsStable, Meant
<1> QED
  BY <1>1, PrivateInit, PrivateStep, PTL DEF Spec

----------------------------------------------------------------------------
\* What a dict means says whether it can be sent: a meaning that one dict can
\* be sent with is that of dicts that can be sent only.
LEMMA SendableMeans ==
    ASSUME NamedOnce, NEW d \in [ns : Seq(STRING), cells : [Keys -> Cells]],
           d.ns \in NameArgs \cup {NoNames}
    PROVE  CanBeSent(d) <=> Meaning(d) \in Sendable
<1>1. d \in Requests
  <2>1. d = [ns |-> d.ns, cells |-> d.cells]
    OBVIOUS
  <2> QED
    BY <2>1 DEF Requests
<1>2. CanBeSent(d) => Meaning(d) \in Sendable
  BY <1>1 DEF Sendable
<1>3. ASSUME Meaning(d) \in Sendable PROVE CanBeSent(d)
  <2>1. PICK r \in Requests : CanBeSent(r) /\ Meaning(d) = Meaning(r)
    BY <1>3 DEF Sendable
  <2>2. Meaning(d) # NoMeaning
    BY <1>3, SendableAssumption
  <2> DEFINE p == NamespaceOf(r.ns).path
             q == NamespaceOf(d.ns).path
  <2>3. NamespaceOf(r.ns).ok /\ HasRoot(p) /\ Packable(p) /\ p \in Paths
    BY <2>1, ResolvedType DEF CanBeSent
  <2>4. p = q
    BY <2>1 DEF Meaning
  <2>5. NamespaceOf(d.ns).ok
    <3> SUFFICES ASSUME ~NamespaceOf(d.ns).ok PROVE Meaning(d) = NoMeaning
      BY <2>2
    <3>1. q = <<>>
      BY DEF NamespaceOf, InferDefault, NamespaceOfNames, Found, NotFound
    <3> QED
      BY <3>1 DEF Meaning, NoMeaning, Nothing
  <2>6. ASSUME NEW f \in ToSet(Fields(p)) PROVE Sent(f, r.cells) = Sent(f, d.cells)
    <3> DEFINE sends == {g \in ToSet(Fields(p)) : g.name = f.name}
    <3>1. sends = {f}
      BY <2>3, <2>6 DEF NamedOnce
    <3>2. f.name \in Keys
      <4>1. Fields(p) \in Seq(FieldDecl)
        BY <2>3, RootFacts
      <4>2. f \in FieldDecl
        BY <2>6, <4>1, Elements
      <4> QED
        BY <4>2 DEF FieldDecl
    <3>3. Meaning(r).values[f.name] = Sent(CHOOSE g \in sends : TRUE, r.cells)
      BY <2>3, <3>1, <3>2 DEF Meaning
    <3>4. Meaning(d).values[f.name] = Sent(CHOOSE g \in sends : TRUE, d.cells)
      BY <2>3, <2>4, <2>5, <3>1, <3>2 DEF Meaning
    <3>5. (CHOOSE g \in sends : TRUE) = f
      BY <3>1
    <3> HIDE DEF sends
    <3> QED
      BY <2>1, <3>3, <3>4, <3>5
  <2> QED
    BY <2>1, <2>3, <2>4, <2>5, <2>6 DEF CanBeSent
<1> QED
  BY <1>2, <1>3

\* A step of serialize goes on with the same meaning, gives up a dict that
\* cannot be sent, or returns the message of one that can.
LEMMA SerializeMoves ==
    ASSUME PrivateInv, NEW c \in Clients, Serialize(c)
    PROVE  /\ call[c].at \in Serializing
           /\ \/ /\ \E frame : Continue(c, frame) /\ frame.at \in Serializing
                                 /\ frame.meant = call[c].meant
                 /\ UNCHANGED <<result, history>>
              \/ /\ Leave(c) /\ ~CanBeSent(dicts[call[c].dict])
                 /\ UNCHANGED <<result, history>>
              \/ /\ ReturnMessage(c) /\ CanBeSent(dicts[call[c].dict])
                 /\ call[c].buffer # <<>>
<1> DEFINE d == dicts[call[c].dict]
           f == Field(c)
           goes == /\ \E frame : Continue(c, frame) /\ frame.at \in Serializing
                                   /\ frame.meant = call[c].meant
                   /\ UNCHANGED <<result, history>>
           quits == Leave(c) /\ ~CanBeSent(d) /\ UNCHANGED <<result, history>>
           returns == ReturnMessage(c) /\ CanBeSent(d) /\ call[c].buffer # <<>>
<1>1. call[c] \in Frames /\ call[c].todo \in Seq(FieldDecl)
  BY PrivateFacts
<1>2. call[c].at \in Serializing
  BY DEF Serialize, SizeRoot, SizeHeader, Fill, WriteNone, Filled, Measure, NewBuffer,
         PutHeader, FindSchema, Check, Checked, OmitField, PutField, ReturnMessage,
         Coming, Through, At, Serializing
<1>3. OnPath(call[c], d) /\ Passed(call[c], d)
  BY <1>2, AgreesNow
<1>4. Resolved(c) = NamespaceOf(d.ns) /\ CellsOf(c) = d.cells
  BY DEF Resolved, CellsOf
<1>5. ASSUME call[c].todo # <<>> PROVE f \in ToSet(call[c].todo)
  BY <1>1, <1>5, Elements DEF Field
<1> DEFINE over == goes \/ quits \/ returns
<1>6. ASSUME NEW frame, Continue(c, frame), frame.at \in Serializing,
             frame.meant = call[c].meant, UNCHANGED <<result, history>>
      PROVE  over
  BY <1>6
<1>7. ASSUME Leave(c), ~CanBeSent(d), UNCHANGED <<result, history>> PROVE over
  BY <1>7
<1> SUFFICES over
  BY <1>2
<1> HIDE DEF d, f, over
<1>8. CASE SizeRoot(c)
  <2> DEFINE frame == [call[c] EXCEPT !.at = "sizeHeader", !.schema = Resolved(c).path]
  <2>1. frame.at \in Serializing /\ frame.meant = call[c].meant
    BY <1>1 DEF Frames, Serializing
  <2> HIDE DEF frame
  <2>2. ~Resolved(c).ok => ~CanBeSent(d)
    BY <1>4 DEF CanBeSent
  <2>3. UNCHANGED <<result, history>>
    BY <1>8 DEF SizeRoot
  <2> QED
    BY <1>6, <1>7, <1>8, <2>1, <2>2, <2>3 DEF SizeRoot, frame
<1>9. CASE SizeHeader(c)
  <2> DEFINE frame == [call[c] EXCEPT !.at = "fill", !.size = HeaderSize(Resolved(c).path),
                                      !.todo = Fields(call[c].schema)]
  <2>1. frame.at \in Serializing /\ frame.meant = call[c].meant
    BY <1>1 DEF Frames, Serializing
  <2> HIDE DEF frame
  <2>2. ~(Resolved(c).ok /\ HasRoot(call[c].schema)) => ~CanBeSent(d)
    BY <1>3, <1>4, <1>9 DEF SizeHeader, At, OnPath, CanBeSent
  <2>3. UNCHANGED <<result, history>>
    BY <1>9 DEF SizeHeader
  <2> QED
    BY <1>6, <1>7, <1>9, <2>1, <2>2, <2>3 DEF SizeHeader, frame
<1>10. CASE Fill(c)
  <2> DEFINE next == [call[c] EXCEPT !.todo = Tail(@)]
             none == [call[c] EXCEPT !.at = "writeNone"]
  <2>1. call[c].at = "fill" /\ call[c].todo # <<>> /\ UNCHANGED <<result, history>>
    BY <1>10 DEF Fill, Coming, At
  <2>2. /\ next.at \in Serializing /\ next.meant = call[c].meant
        /\ none.at \in Serializing /\ none.meant = call[c].meant
    BY <1>1, <2>1 DEF Frames, Serializing
  <2> HIDE DEF next, none
  <2>3. ASSUME IsLacking(f, d.cells), ~f.option PROVE ~CanBeSent(d)
    <3>1. Sent(f, d.cells) = None
      BY <2>3 DEF IsLacking, Sent, ValueFor, Missing
    <3>2. ~Takes(f, None)
      BY <2>3 DEF Takes, Encodable, None
    <3>3. f \in ToSet(Fields(NamespaceOf(d.ns).path))
      BY <1>3, <1>5, <2>1 DEF Passed, OnPath
    <3> QED
      BY <3>1, <3>2, <3>3 DEF CanBeSent
  <2> QED
    BY <1>4, <1>6, <1>7, <1>10, <2>1, <2>2, <2>3 DEF Fill, next, none, f
<1>11. CASE WriteNone(c)
  <2> DEFINE frame == [call[c] EXCEPT !.at = "fill", !.todo = Tail(@)]
  <2>1. frame.at \in Serializing /\ frame.meant = call[c].meant
    BY <1>1 DEF Frames, Serializing
  <2>2. Continue(c, frame) /\ UNCHANGED <<result, history>>
    BY <1>11 DEF WriteNone
  <2> HIDE DEF frame
  <2> QED
    BY <1>6, <2>1, <2>2
<1>12. CASE Filled(c)
  <2> DEFINE frame == [call[c] EXCEPT !.at = "measure", !.todo = Fields(call[c].schema)]
  <2>1. frame.at \in Serializing /\ frame.meant = call[c].meant
    BY <1>1 DEF Frames, Serializing
  <2>2. Continue(c, frame) /\ UNCHANGED <<result, history>>
    BY <1>12 DEF Filled
  <2> HIDE DEF frame
  <2> QED
    BY <1>6, <2>1, <2>2
<1>13. CASE Measure(c)
  <2> DEFINE more == IF ValueFor(Field(c), CellsOf(c)) = Absent THEN 0
                     ELSE SizeOf(Field(c), ValueFor(Field(c), CellsOf(c)))
             frame == [call[c] EXCEPT !.todo = Tail(@), !.size = @ + more]
  <2>1. Continue(c, frame) /\ UNCHANGED <<result, history>>
    BY <1>13 DEF Measure
  <2> HIDE DEF more
  <2>2. frame.at \in Serializing /\ frame.meant = call[c].meant
    BY <1>1, <1>2 DEF Frames
  <2> HIDE DEF frame
  <2> QED
    BY <1>6, <2>1, <2>2
<1>14. CASE NewBuffer(c)
  <2> DEFINE frame == [call[c] EXCEPT !.at = "putHeader", !.buffer = defaultBuffer]
  <2>1. frame.at \in Serializing /\ frame.meant = call[c].meant
    BY <1>1 DEF Frames, Serializing
  <2>2. Continue(c, frame) /\ UNCHANGED <<result, history>>
    BY <1>14 DEF NewBuffer
  <2> HIDE DEF frame
  <2> QED
    BY <1>6, <2>1, <2>2
<1>15. CASE PutHeader(c)
  <2> DEFINE bytes == EncodeHeader(Version, Resolved(c).path)
             moved == [call[c] EXCEPT !.at = "findSchema"]
             frame == [moved EXCEPT !.buffer = @ \o bytes]
  <2>1. ~(Resolved(c).ok /\ Packable(Resolved(c).path)) => ~CanBeSent(d)
    BY <1>4 DEF CanBeSent
  <2>2. \/ Continue(c, frame)
        \/ Leave(c) /\ ~(Resolved(c).ok /\ Packable(Resolved(c).path))
    <3>1. Put(c, moved, bytes) => Continue(c, frame)
      BY DEF Put
    <3> HIDE DEF frame
    <3> QED
      BY <1>15, <3>1 DEF PutHeader
  <2>3. UNCHANGED <<result, history>>
    BY <1>15 DEF PutHeader
  <2> HIDE DEF bytes
  <2>4. frame.at = "findSchema" /\ frame.meant = call[c].meant
    BY <1>1 DEF Frames
  <2>5. frame.at \in Serializing
    BY <2>4 DEF Serializing
  <2> HIDE DEF frame
  <2> QED
    BY <1>6, <1>7, <2>1, <2>2, <2>3, <2>4, <2>5
<1>16. CASE FindSchema(c)
  <2> DEFINE path == Resolved(c).path
             frame == [call[c] EXCEPT !.at = "check", !.schema = path, !.todo = Fields(path)]
  <2>1. Resolved(c).ok /\ HasRoot(path)
    BY <1>2, <1>16, PathStays DEF FindSchema, At
  <2>2. Continue(c, frame) /\ UNCHANGED <<result, history>>
    BY <1>16, <2>1 DEF FindSchema
  <2>3. frame.at \in Serializing /\ frame.meant = call[c].meant
    BY <1>1 DEF Frames, Serializing
  <2> HIDE DEF frame
  <2> QED
    BY <1>6, <2>2, <2>3
<1>17. CASE Check(c)
  <2> DEFINE frame == [call[c] EXCEPT !.todo = Tail(@)]
  <2>1. call[c].at = "check" /\ call[c].todo # <<>> /\ UNCHANGED <<result, history>>
    BY <1>17 DEF Check, Coming, At
  <2>2. Ready(f, d.cells)
    BY <1>3, <1>5, <2>1 DEF Passed
  <2>3. ~(IsLacking(Field(c), CellsOf(c)) /\ ~Field(c).option)
    BY <1>4, <2>2, ReadyIsPut DEF f
  <2>4. Continue(c, frame)
    BY <1>17, <2>3 DEF Check
  <2>5. frame.at \in Serializing /\ frame.meant = call[c].meant
    BY <1>1, <1>2 DEF Frames
  <2> HIDE DEF frame
  <2> QED
    BY <1>6, <2>1, <2>4, <2>5
<1>18. CASE Checked(c)
  <2> DEFINE frame == [call[c] EXCEPT !.at = "put", !.todo = Fields(call[c].schema),
                                      !.omits = Omitted(c)]
  <2>1. frame.at \in Serializing /\ frame.meant = call[c].meant
    BY <1>1 DEF Frames, Serializing
  <2>2. Continue(c, frame) /\ UNCHANGED <<result, history>>
    BY <1>18 DEF Checked
  <2> HIDE DEF frame
  <2> QED
    BY <1>6, <2>1, <2>2
<1>19. CASE OmitField(c)
  <2> DEFINE frame == [call[c] EXCEPT !.todo = Tail(@)]
  <2>1. Continue(c, frame) /\ UNCHANGED <<result, history>>
    BY <1>19 DEF OmitField
  <2>2. frame.at \in Serializing /\ frame.meant = call[c].meant
    BY <1>1, <1>2 DEF Frames
  <2> HIDE DEF frame
  <2> QED
    BY <1>6, <2>1, <2>2
<1>20. CASE PutField(c)
  <2> DEFINE cell == Sent(Field(c), CellsOf(c))
             bytes == EncodeField(Field(c), cell)
             moved == [call[c] EXCEPT !.todo = Tail(@)]
             frame == [moved EXCEPT !.buffer = @ \o bytes]
  <2>1. call[c].at = "put" /\ call[c].todo # <<>> /\ UNCHANGED <<result, history>>
    BY <1>20 DEF PutField, Coming, At
  <2>2. Continue(c, frame) \/ (Leave(c) /\ ~Takes(f, Sent(f, d.cells)))
    <3>1. Put(c, moved, bytes) => Continue(c, frame)
      BY DEF Put
    <3>2. Put(c, moved, bytes) \/ (Leave(c) /\ ~Takes(Field(c), cell))
      BY <1>20 DEF PutField, Takes
    <3> HIDE DEF frame, bytes, moved
    <3> QED
      BY <1>4, <3>1, <3>2 DEF f
  <2> HIDE DEF bytes
  <2>3. frame.at \in Serializing /\ frame.meant = call[c].meant
    BY <1>1, <1>2 DEF Frames
  <2>4. ~Takes(f, Sent(f, d.cells)) => ~CanBeSent(d)
    BY <1>3, <1>5, <2>1 DEF Passed, OnPath, CanBeSent
  <2> HIDE DEF frame
  <2> QED
    BY <1>6, <1>7, <2>1, <2>2, <2>3, <2>4
<1>21. CASE ReturnMessage(c)
  <2>1. call[c].at = "put" /\ call[c].todo = <<>>
    BY <1>21 DEF ReturnMessage, Through, At
  <2>2. ToSet(call[c].todo) = {}
    BY <1>1, <2>1, Elements
  <2>3. CanBeSent(d) /\ call[c].buffer # <<>>
    BY <1>3, <2>1, <2>2 DEF Passed, OnPath, CanBeSent
  <2> QED
    BY <1>21, <2>3 DEF over
<1> QED
  BY <1>8, <1>9, <1>10, <1>11, <1>12, <1>13, <1>14, <1>15, <1>16, <1>17, <1>18,
     <1>19, <1>20, <1>21 DEF Serialize

\* What a client waits for and what it was told, while another one moves.
LEMMA OthersWait ==
    ASSUME PrivateInv, NEW c \in Clients, NEW frame, Continue(c, frame),
           \A o \in Clients \ {c} : result'[o] = result[o]
    PROVE  /\ call'[c] = frame
           /\ \A o \in Clients \ {c} : /\ call'[o] = call[o]
                                       /\ RequestOf(o)' = RequestOf(o)
                                       /\ AnswerTo(o)' = AnswerTo(o)
<1>1. call \in [Clients -> Frames] /\ call' = [call EXCEPT ![c] = frame]
  BY PrivateFacts DEF Continue
<1>2. call'[c] = frame /\ \A o \in Clients \ {c} : call'[o] = call[o]
  BY <1>1
<1> QED
  BY <1>2 DEF RequestOf, AnswerTo

\* A call that serializes on: nothing a client could see.
LEMMA GoingOnStutters ==
    ASSUME PrivateInv, NEW c \in Clients, NEW frame, Continue(c, frame),
           call[c].at \in Serializing, frame.at \in Serializing,
           frame.meant = call[c].meant, UNCHANGED <<result, history>>
    PROVE  UNCHANGED Promise!vars
<1>1. call'[c] = frame /\ \A o \in Clients \ {c} : /\ RequestOf(o)' = RequestOf(o)
                                                   /\ AnswerTo(o)' = AnswerTo(o)
  BY OthersWait
<1>2. RequestOf(c)' = RequestOf(c) /\ AnswerTo(c)' = AnswerTo(c)
  BY <1>1 DEF RequestOf, AnswerTo
<1>3. \A o \in Clients : RequestOf(o)' = RequestOf(o) /\ AnswerTo(o)' = AnswerTo(o)
  BY <1>1, <1>2
<1>4. \A a \in Arrays : MessageIn(a)' = MessageIn(a)
  BY DEF MessageIn, history
<1>5. UNCHANGED reads
  BY DEF history
<1> QED
  BY <1>3, <1>4, <1>5 DEF Promise!vars

\* A call that gives up a dict that cannot be sent.
LEMMA GivingUpRefuses ==
    ASSUME PrivateInv, NEW c \in Clients, Leave(c), call[c].at \in Serializing,
           call[c].meant \notin Sendable, UNCHANGED <<result, history>>
    PROVE  Promise!Refuse(c)
<1>1. call'[c] = NoCall(c)
      /\ \A o \in Clients \ {c} : /\ RequestOf(o)' = RequestOf(o)
                                  /\ AnswerTo(o)' = AnswerTo(o)
  BY OthersWait DEF Leave
<1>2. RequestOf(c) = [op |-> "send", content |-> call[c].meant]
  BY DEF RequestOf
<1>3. RequestOf(c)' = Promise!NoRequest /\ AnswerTo(c)' = AnswerTo(c)
  BY <1>1 DEF RequestOf, AnswerTo, NoCall, Serializing, Deserializing, Promise!NoRequest
<1>4. \A a \in Arrays : MessageIn(a)' = MessageIn(a)
  BY DEF MessageIn, history
<1>5. UNCHANGED reads
  BY DEF history
<1>6. Promise!Ends(c)
  BY <1>1, <1>3 DEF Promise!Ends
<1> QED
  BY <1>1, <1>2, <1>3, <1>4, <1>5, <1>6 DEF Promise!Refuse

\* A call that returns the message of a dict that can be sent.
LEMMA ReturningDelivers ==
    ASSUME PrivateInv, NEW c \in Clients, ReturnMessage(c), call[c].at \in Serializing,
           call[c].meant \in Sendable, call[c].buffer # <<>>
    PROVE  Promise!Deliver(c, call[c].array)
<1> DEFINE a == call[c].array
<1>1. /\ Leave(c) /\ UNCHANGED <<result, reads>>
      /\ given' = [given EXCEPT ![a] = call[c].buffer]
      /\ meaning' = [meaning EXCEPT ![a] = call[c].meant]
  BY DEF ReturnMessage
<1>2. call'[c] = NoCall(c)
      /\ \A o \in Clients \ {c} : /\ RequestOf(o)' = RequestOf(o)
                                  /\ AnswerTo(o)' = AnswerTo(o)
  BY <1>1, OthersWait DEF Leave
<1>3. RequestOf(c) = [op |-> "send", content |-> call[c].meant]
  BY DEF RequestOf
<1>4. RequestOf(c)' = Promise!NoRequest /\ AnswerTo(c)' = AnswerTo(c)
  BY <1>1, <1>2 DEF RequestOf, AnswerTo, NoCall, Serializing, Deserializing,
                    Promise!NoRequest
<1>5. a \in Arrays /\ given \in [Arrays -> Seq(Byte)] /\ meaning \in [Arrays -> Meanings]
  BY PrivateFacts DEF Frames, PrivateInv, TypeInv, TypeOK
<1>6. MessageIn(a) = NoMeaning
  BY DEF PrivateInv, Rooms, MessageIn
<1>7. \A e \in Arrays : MessageIn(e)' = IF e = a THEN call[c].meant ELSE MessageIn(e)
  BY <1>1, <1>5 DEF MessageIn
<1>8. Promise!Ends(c)
  BY <1>2, <1>4 DEF Promise!Ends
<1> HIDE DEF a
<1>9. Promise!Deliver(c, a)
  <2>1. [e \in Arrays |-> MessageIn(e)]'
           = [[e \in Arrays |-> MessageIn(e)] EXCEPT ![a] = call[c].meant]
    BY <1>5, <1>7
  <2>2. UNCHANGED <<{e \in Arrays : reads[e] > 0}, [o \in Clients |-> AnswerTo(o)]>>
    BY <1>1, <1>2, <1>4
  <2>3. /\ [o \in Clients |-> RequestOf(o)][c].op = "send"
        /\ [o \in Clients |-> RequestOf(o)][c].content = call[c].meant
    BY <1>3
  <2>4. [e \in Arrays |-> MessageIn(e)][a] = NoMeaning
    BY <1>5, <1>6
  <2> QED
    BY <1>8, <2>1, <2>2, <2>3, <2>4, Zenon DEF Promise!Deliver
<1> QED
  BY <1>9 DEF a

\* A call that begins to serialize asks for what its dict means.
LEMMA EnteringAsks ==
    ASSUME PrivateInv, NEW c \in Clients, At(c, "idle"),
           NEW d \in AllDicts, NEW contents \in Requests, Enter(c, d, contents)
    PROVE  Promise!Ask(c, Meaning(contents))
<1> DEFINE array == CHOOSE a \in Arrays : Unused(a)
           meant == Meaning(contents)
           frame == [NoCall(c) EXCEPT !.at = "sizeRoot", !.dict = d, !.array = array,
                                      !.meant = meant]
<1>1. /\ Continue(c, frame) /\ result' = [result EXCEPT ![c] = NoResult]
      /\ UNCHANGED history
  BY DEF Enter
<1>2. result' \in [Clients -> {result'[o] : o \in Clients}]
      /\ result'[c] = NoResult /\ \A o \in Clients \ {c} : result'[o] = result[o]
  BY <1>1 DEF PrivateInv, TypeInv, TypeOK
<1> HIDE DEF array, meant
<1>3. frame.at = "sizeRoot" /\ frame.meant = meant
  BY DEF NoCall
<1> HIDE DEF frame
<1>4. call'[c] = frame
      /\ \A o \in Clients \ {c} : /\ RequestOf(o)' = RequestOf(o)
                                  /\ AnswerTo(o)' = AnswerTo(o)
  BY <1>1, <1>2, OthersWait
<1>5. RequestOf(c) = Promise!NoRequest
  BY DEF At, RequestOf, Serializing, Deserializing, Promise!NoRequest
<1>6. RequestOf(c)' = Promise!Sending(meant)
  BY <1>3, <1>4 DEF RequestOf, Serializing, Promise!Sending
<1>7. AnswerTo(c)' = NoMeaning
  BY <1>2 DEF AnswerTo, NoResult
<1>8. \A a \in Arrays : MessageIn(a)' = MessageIn(a)
  BY <1>1 DEF MessageIn, history
<1>9. UNCHANGED reads
  BY <1>1 DEF history
<1>10. Promise!Begins(c, Promise!Sending(meant))
  BY <1>4, <1>5, <1>6, <1>7 DEF Promise!Begins
<1>11. Promise!Ask(c, meant)
  BY <1>8, <1>9, <1>10 DEF Promise!Ask
<1> QED
  BY <1>11 DEF meant

\* What a call to serialize does, seen from outside, in one step.
Sends(c) ==
    \/ \E content \in Contents : Promise!Ask(c, content)
    \/ \E a \in Arrays : Promise!Deliver(c, a)
    \/ Promise!Refuse(c)
    \/ UNCHANGED Promise!vars

LEMMA SerializeSends ==
    ASSUME NamedOnce, PrivateInv, NEW c \in Clients, Serialize(c)
    PROVE  Sends(c)
<1> DEFINE d == dicts[call[c].dict]
<1>1. call[c].at \in Serializing
  BY SerializeMoves
<1>2. CanBeSent(d) <=> call[c].meant \in Sendable
  <2>1. d \in [ns : Seq(STRING), cells : [Keys -> Cells]] /\ call[c].dict \in AllDicts
    BY PrivateFacts
  <2>2. d.ns \in NameArgs \cup {NoNames}
    BY <2>1 DEF PrivateInv, NamesAsked
  <2>3. Meaning(d) = call[c].meant
    BY <1>1, AgreesNow DEF Meant
  <2> QED
    BY <2>1, <2>2, <2>3, SendableMeans
<1>3. ASSUME NEW frame, Continue(c, frame), frame.at \in Serializing,
             frame.meant = call[c].meant, UNCHANGED <<result, history>>
      PROVE  Sends(c)
  BY <1>1, <1>3, GoingOnStutters DEF Sends
<1>4. ASSUME Leave(c), ~CanBeSent(d), UNCHANGED <<result, history>>
      PROVE  Sends(c)
  BY <1>1, <1>2, <1>4, GivingUpRefuses DEF Sends
<1>5. ASSUME ReturnMessage(c), CanBeSent(d), call[c].buffer # <<>>
      PROVE  Sends(c)
  <2>1. call[c].array \in Arrays
    BY PrivateFacts DEF Frames
  <2> QED
    BY <1>1, <1>2, <1>5, <2>1, ReturningDelivers DEF Sends
<1> HIDE DEF d
<1> QED
  BY <1>3, <1>4, <1>5, SerializeMoves DEF d

\* The ways into serialize; a reader begins elsewhere.
LEMMA CallSends ==
    ASSUME PrivateInv, NEW c \in Clients, Call(c), call'[c].at \in Serializing
    PROVE  Sends(c)
<1>1. Nothing \in [Keys -> Cells]
  BY CellFacts DEF Nothing
<1>2. ASSUME NEW d \in AllDicts, NEW contents \in Requests, At(c, "idle"),
             Enter(c, d, contents)
      PROVE  Sends(c)
  <2>1. Meaning(contents) \in Contents
    BY DEF Contents
  <2> QED
    BY <1>2, <2>1, EnteringAsks DEF Sends
<1>3. ASSUME NEW d \in Dicts, NEW names \in NameArgs, StartSerialize(c, d, names)
      PROVE  Sends(c)
  <2> DEFINE contents == [dicts[d] EXCEPT !.ns = IF names = NoNames THEN @ ELSE names]
             ns == IF names = NoNames THEN dicts[d].ns ELSE names
  <2>1. d \in AllDicts /\ dicts[d] \in [ns : Seq(STRING), cells : [Keys -> Cells]]
    BY DEF AllDicts, PrivateInv, TypeInv, TypeOK
  <2>2. contents = [ns |-> ns, cells |-> dicts[d].cells]
    BY <2>1
  <2>3. ns \in NameArgs \cup {NoNames} /\ dicts[d].cells \in [Keys -> Cells]
    BY <2>1 DEF PrivateInv, NamesAsked
  <2>4. contents \in Requests
    <3> HIDE DEF contents, ns
    <3> QED
      BY <2>2, <2>3 DEF Requests
  <2> QED
    BY <1>2, <1>3, <2>1, <2>4 DEF StartSerialize
<1>4. ASSUME NEW cell \in Scalars, StartScalar(c, cell)
      PROVE  Sends(c)
  <2> DEFINE cells == [Nothing EXCEPT !["value"] = cell]
  <2>1. cells \in [Keys -> Cells] /\ Scratch[c] \in AllDicts
    BY <1>1, EngineAssumption DEF AllDicts
  <2>2. [ns |-> NoNames, cells |-> cells] \in Requests
    <3> HIDE DEF cells
    <3> QED
      BY <2>1 DEF Requests
  <2> QED
    BY <1>2, <1>4, <2>1, <2>2 DEF StartScalar
<1>5. ASSUME NEW a \in Arrays, StartDeserialize(c, a) PROVE FALSE
  <2> DEFINE frame == [NoCall(c) EXCEPT !.at = "header", !.array = a, !.inPlace = TRUE]
  <2>1. Continue(c, frame) /\ call \in [Clients -> Frames]
    BY <1>5, PrivateFacts DEF StartDeserialize
  <2>2. frame.at = "header"
    BY DEF NoCall
  <2> HIDE DEF frame
  <2>3. call'[c] = frame
    BY <2>1 DEF Continue
  <2> QED
    BY <2>2, <2>3 DEF Serializing
<1> QED
  BY <1>3, <1>4, <1>5 DEF Call

\* A step moves one call.
LEMMA OneMoves ==
    ASSUME PrivateInv, NEW c \in Clients, Call(c) \/ Step(c)
    PROVE  \A o \in Clients \ {c} : call'[o] = call[o]
<1>1. call \in [Clients -> Frames]
  BY PrivateFacts
<1>2. ASSUME NEW frame, Continue(c, frame)
      PROVE  \A o \in Clients \ {c} : call'[o] = call[o]
  BY <1>1, <1>2 DEF Continue
<1>3. CASE Serialize(c)
  BY <1>2, <1>3, SerializeMoves DEF Leave, ReturnMessage
<1>4. CASE Deserialize(c)
  BY <1>2, <1>4, ReaderMoves
<1>5. CASE Call(c)
  BY <1>2, <1>5 DEF Call, StartSerialize, StartScalar, Enter, StartDeserialize
<1> QED
  BY <1>3, <1>4, <1>5 DEF Step

LEMMA SendingStep ==
    ASSUME NamedOnce, PrivateInv, [Next]_vars, NEW c \in Clients, call'[c] # call[c],
           {call[c].at, call'[c].at} \cap Serializing # {}
    PROVE  Sends(c)
<1>1. PICK o \in Clients : Call(o) \/ Step(o)
  BY DEF Next, Edit, AddListener, vars
<1>2. o = c
  BY <1>1, OneMoves
<1>3. CASE Serialize(c)
  BY <1>3, SerializeSends
<1>4. CASE Deserialize(c)
  <2>1. call \in [Clients -> Frames]
    BY PrivateFacts
  <2>2. call[c].at \notin Serializing /\ call'[c].at \notin Serializing
    BY <1>4, <2>1, ReaderMoves DEF Continue
  <2> QED
    BY <2>2
<1>5. CASE Call(c)
  <2>1. call[c].at = "idle"
    BY <1>5 DEF Call, StartSerialize, StartScalar, StartDeserialize, At
  <2>2. call'[c].at \in Serializing
    BY <2>1 DEF Serializing
  <2> QED
    BY <1>5, <2>2, CallSends
<1> QED
  BY <1>1, <1>2, <1>3, <1>4, <1>5 DEF Step

\* SendsAsPromised, of the passes of DynabuffersEngine.serialize: for every
\* schema that names the fields of a class once, and however many clients, as
\* long as no two calls share a dict, a dict that can be sent is delivered as
\* it was when the call began and any other is refused, without a trace.
THEOREM SerializeImplementsTransport ==
    ASSUME ~MayShare, NamedOnce
    PROVE  Spec => SendsAsPromised
<1>1. PrivateInv /\ [Next]_vars =>
        [\A c \in Clients :
            call'[c] # call[c] /\ {call[c].at, call'[c].at} \cap Serializing # {} =>
                \/ \E content \in Contents : Promise!Ask(c, content)
                \/ \E a \in Arrays : Promise!Deliver(c, a)
                \/ Promise!Refuse(c)
                \/ UNCHANGED Promise!vars]_vars
  BY SendingStep DEF Sends
<1> QED
  BY <1>1, PrivateInit, PrivateStep, PTL DEF Spec, SendsAsPromised

----------------------------------------------------------------------------
\* What the bytes of a field are made of, encodable or not.
Units == Int \cup {cell.data[1] : cell \in Cell}

\* The bytes of each field of the root class of p.
Encoded(p, cells) ==
    [i \in DOMAIN Fields(p) |-> EncodeField(Fields(p)[i], Sent(Fields(p)[i], cells))]

\* todo is what is left of the fields at the end.
IsEnd(todo, fields) ==
    /\ Len(todo) <= Len(fields)
    /\ \A i \in 1..Len(todo) : todo[i] = fields[Len(fields) - Len(todo) + i]

\* What a call has counted, and what it has put, by the fields it is done with.
Builds(frame, cells) ==
    LET fields == Fields(frame.schema)
        all == Encoded(frame.schema, cells)
        header == EncodeHeader(Version, frame.schema)
        done == Len(fields) - Len(frame.todo)
    IN /\ frame.at \in {"measure", "put"} => IsEnd(frame.todo, fields)
       /\ frame.at \in {"fill", "writeNone"} => frame.size = HeaderSize(frame.schema)
       /\ frame.at = "measure" =>
             frame.size = HeaderSize(frame.schema) + Len(Joined(all, done))
       /\ frame.at \in {"putHeader", "findSchema", "check", "put"} =>
             frame.size = HeaderSize(frame.schema) + Len(FlattenSeq(all))
       /\ frame.at = "putHeader" => frame.buffer = <<>>
       /\ frame.at \in {"findSchema", "check"} => frame.buffer = header
       /\ frame.at = "put" => frame.buffer = header \o Joined(all, done)

MessageInv ==
    /\ PrivateInv /\ BytesInv
    /\ \A c \in Clients :
          call[c].at \in Serializing => Builds(call[c], dicts[call[c].dict].cells)
    /\ NamedOnce => MessageSaysWhatWasMeant

----------------------------------------------------------------------------
\* A field puts as many bytes as it is counted for.
LEMMA FieldSize ==
    ASSUME NEW f \in FieldDecl, NEW cell \in Cell
    PROVE  /\ EncodeField(f, cell) \in Seq(Units)
           /\ Len(EncodeField(f, cell)) = SizeOf(f, cell)
<1>1. Int \subseteq Units /\ cell.data[1] \in Units
  BY DEF Units
<1>2. \A n \in Nat : IntBytes(n) \in Seq(Units) /\ Len(IntBytes(n)) = 4
  BY <1>1 DEF IntBytes
<1>3. cell.data \in Seq(Units)
  <2>1. CASE cell \in Missing
    <3>1. cell.data = <<>>
      BY <2>1 DEF Missing, Absent, None
    <3> HIDE DEF Units
    <3> QED
      BY <3>1
  <2>2. CASE cell \in [is : {"number"}, data : [{1} -> Int]]
    <3>1. cell.data \in [{1} -> Int]
      BY <2>2
    <3>2. cell.data = [i \in 1..1 |-> cell.data[i]] /\ cell.data[1] \in Int
      BY <3>1
    <3> QED
      BY <1>1, <3>2
  <2>3. CASE cell \in [is : {"text"}, data : Seq(Byte)]
    <3>1. cell.data \in Seq(Byte)
      BY <2>3
    <3>2. Byte \subseteq Units
      BY <1>1 DEF Byte
    <3> HIDE DEF Units
    <3> QED
      BY <3>1, <3>2
  <2> QED
    BY <2>1, <2>2, <2>3 DEF Cell
<1>4. Len(cell.data) \in Nat
  BY <1>3
<1>5. /\ EncodeValue(f, cell) \in Seq(Units)
      /\ Len(EncodeValue(f, cell)) = IF f.kind = "byte" THEN 1 ELSE 4 + Len(cell.data)
  <2>1. CASE f.kind = "byte"
    BY <1>1, <2>1 DEF EncodeValue
  <2>2. CASE f.kind # "byte"
    <3>1. EncodeValue(f, cell) = IntBytes(Len(cell.data)) \o cell.data
      BY <2>2 DEF EncodeValue
    <3>2. IntBytes(Len(cell.data)) \in Seq(Units) /\ Len(IntBytes(Len(cell.data))) = 4
      BY <1>2, <1>4
    <3> HIDE DEF Units
    <3>3. IntBytes(Len(cell.data)) \o cell.data \in Seq(Units)
      BY <1>3, <3>2
    <3>4. Len(IntBytes(Len(cell.data)) \o cell.data) = 4 + Len(cell.data)
      BY <1>3, <3>2, Lengths
    <3> QED
      BY <2>2, <3>1, <3>3, <3>4
  <2> QED
    BY <2>1, <2>2
<1>6. <<0>> \in Seq(Units) /\ <<1>> \in Seq(Units)
  BY <1>1
<1> HIDE DEF Units
<1>7. CASE ~f.option
  BY <1>4, <1>5, <1>7 DEF EncodeField, SizeOf
<1>8. CASE f.option /\ cell = None
  BY <1>6, <1>8 DEF EncodeField, SizeOf
<1>9. CASE f.option /\ cell # None
  <2>1. EncodeField(f, cell) = <<1>> \o EncodeValue(f, cell)
    BY <1>9 DEF EncodeField
  <2>2. Len(EncodeField(f, cell)) = 1 + Len(EncodeValue(f, cell))
    BY <1>5, <1>6, <2>1
  <2> QED
    BY <1>5, <1>6, <1>9, <2>1, <2>2 DEF SizeOf
<1> QED
  BY <1>7, <1>8, <1>9

\* The bytes of all fields.
LEMMA EncodedType ==
    ASSUME NEW p \in Paths, HasRoot(p), NEW cells \in [Keys -> Cell]
    PROVE  /\ Encoded(p, cells) \in Seq(Seq(Units))
           /\ Len(Encoded(p, cells)) = Len(Fields(p))
           /\ Fields(p) \in Seq(FieldDecl)
<1>1. Fields(p) \in Seq(FieldDecl)
  BY RootFacts
<1>2. \A i \in 1..Len(Fields(p)) :
         EncodeField(Fields(p)[i], Sent(Fields(p)[i], cells)) \in Seq(Units)
  <2> TAKE i \in 1..Len(Fields(p))
  <2>1. Fields(p)[i] \in FieldDecl
    BY <1>1
  <2> QED
    BY <2>1, SentType, FieldSize
<1> DEFINE bytes(i) == EncodeField(Fields(p)[i], Sent(Fields(p)[i], cells))
<1>3. Encoded(p, cells) = [i \in 1..Len(Fields(p)) |-> bytes(i)]
  BY <1>1 DEF Encoded
<1> HIDE DEF bytes
<1>4. Encoded(p, cells) \in Seq(Seq(Units)) /\ Len(Encoded(p, cells)) = Len(Fields(p))
  <2>1. Len(Fields(p)) \in Nat /\ \A i \in 1..Len(Fields(p)) : bytes(i) \in Seq(Units)
    BY <1>1, <1>2 DEF bytes
  <2> QED
    BY <1>3, <2>1
<1> QED
  BY <1>1, <1>4

\* A pass comes to its fields one after the other.
LEMMA EndFacts ==
    ASSUME NEW fields \in Seq(FieldDecl), NEW todo \in Seq(FieldDecl), IsEnd(todo, fields)
    PROVE  LET done == Len(fields) - Len(todo)
           IN /\ done \in 0..Len(fields)
              /\ todo = <<>> => done = Len(fields)
              /\ todo # <<>> =>
                    /\ done \in 0..(Len(fields) - 1)
                    /\ Head(todo) = fields[done + 1]
                    /\ IsEnd(Tail(todo), fields)
                    /\ Len(fields) - Len(Tail(todo)) = done + 1
<1>1. Len(fields) \in Nat /\ Len(todo) \in Nat /\ Len(todo) <= Len(fields)
  BY DEF IsEnd
<1>2. todo = <<>> => Len(todo) = 0
  OBVIOUS
<1>3. ASSUME todo # <<>>
      PROVE  /\ Len(todo) # 0 /\ Head(todo) = todo[1] /\ Len(Tail(todo)) = Len(todo) - 1
             /\ \A i \in 1..(Len(todo) - 1) : Tail(todo)[i] = todo[i + 1]
  BY <1>3
<1>4. ASSUME todo # <<>>
      PROVE  /\ Head(todo) = fields[Len(fields) - Len(todo) + 1]
             /\ IsEnd(Tail(todo), fields)
  <2>1. todo[1] = fields[Len(fields) - Len(todo) + 1]
    BY <1>1, <1>3, <1>4 DEF IsEnd
  <2>2. ASSUME NEW i \in 1..(Len(todo) - 1)
        PROVE  Tail(todo)[i] = fields[Len(fields) - (Len(todo) - 1) + i]
    <3>1. i + 1 \in 1..Len(todo) /\ Tail(todo)[i] = todo[i + 1]
      BY <1>1, <1>3, <1>4
    <3>2. todo[i + 1] = fields[Len(fields) - Len(todo) + (i + 1)]
      BY <3>1 DEF IsEnd
    <3>3. Len(fields) - Len(todo) + (i + 1) = Len(fields) - (Len(todo) - 1) + i
      BY <1>1
    <3> QED
      BY <3>1, <3>2, <3>3
  <2> QED
    BY <1>1, <1>3, <1>4, <2>1, <2>2 DEF IsEnd
<1> DEFINE done == Len(fields) - Len(todo)
<1>5. done \in 0..Len(fields) /\ (todo = <<>> => done = Len(fields))
  BY <1>1, <1>2
<1>6. todo # <<>> => /\ done \in 0..(Len(fields) - 1)
                     /\ Len(fields) - Len(Tail(todo)) = done + 1
  BY <1>1, <1>3
<1> QED
  BY <1>4, <1>5, <1>6

\* Every pass begins with all of them.
LEMMA EndAll ==
    ASSUME NEW fields \in Seq(FieldDecl)
    PROVE  IsEnd(fields, fields) /\ Len(fields) - Len(fields) = 0
<1>1. Len(fields) \in Nat
  OBVIOUS
<1>2. \A i \in 1..Len(fields) : Len(fields) - Len(fields) + i = i
  BY <1>1
<1> QED
  BY <1>1, <1>2 DEF IsEnd

\* The header is as long as HeaderSize says.
LEMMA HeaderLength ==
    ASSUME NEW path \in Seq(Nat), Packable(path)
    PROVE  /\ EncodeHeader(Version, path) \in Seq(Units)
           /\ Len(EncodeHeader(Version, path)) = HeaderSize(path)
<1>1. /\ SecondByte(path) \in Byte /\ PathBytes(path) \in Seq(Byte)
      /\ Version \in Byte /\ Byte \subseteq Units
  BY DepthReadBack, PathReadBack DEF Version, Byte, Units
<1>2. Len(PathBytes(path)) = CeilHalf(Len(path))
  <2>1. CeilHalf(Len(path)) \in Nat
    BY HalfFacts
  <2> QED
    BY <2>1 DEF PathBytes
<1> HIDE DEF Units
<1>3. PathBytes(path) \in Seq(Units) /\ <<Version, SecondByte(path)>> \in Seq(Units)
  BY <1>1
<1> QED
  BY <1>1, <1>2, <1>3 DEF EncodeHeader, HeaderSize

LEMMA HeaderSizeType ==
    ASSUME NEW path \in Paths
    PROVE  HeaderSize(path) \in Int /\ path \in Seq(Nat)
<1>1. path \in Seq(Nat)
  BY NestedAssumption
<1>2. CeilHalf(Len(path)) \in Nat
  BY <1>1, HalfFacts
<1> QED
  BY <1>1, <1>2 DEF HeaderSize

----------------------------------------------------------------------------
\* A step of c after which its frame, if it serializes on, is built as far as
\* it says.
Building(c) ==
    \E frame : /\ Continue(c, frame)
               /\ frame.at \in Serializing => Builds(frame, dicts'[frame.dict].cells)

\* What a call that serializes can rely on.
LEMMA BuildFacts ==
    ASSUME MessageInv, NEW c \in Clients, call[c].at \in Serializing
    PROVE  /\ call[c] \in Frames /\ call[c].todo \in Seq(FieldDecl)
           /\ CellsOf(c) \in [Keys -> Cell] /\ call[c].schema \in Paths
           /\ Builds(call[c], CellsOf(c))
           /\ OnPath(call[c], dicts[call[c].dict])
           /\ Passed(call[c], dicts[call[c].dict])
           /\ HasRoot(call[c].schema) =>
                 /\ Fields(call[c].schema) \in Seq(FieldDecl)
                 /\ Encoded(call[c].schema, CellsOf(c)) \in Seq(Seq(Units))
                 /\ Len(Encoded(call[c].schema, CellsOf(c))) = Len(Fields(call[c].schema))
<1>1. PrivateInv
  BY DEF MessageInv
<1>2. /\ call[c] \in Frames /\ call[c].todo \in Seq(FieldDecl)
      /\ CellsOf(c) \in [Keys -> Cell] /\ call[c].schema \in Paths
  BY <1>1, PrivateFacts
<1>3. OnPath(call[c], dicts[call[c].dict]) /\ Passed(call[c], dicts[call[c].dict])
  BY <1>1, AgreesNow
<1>4. Builds(call[c], CellsOf(c))
  BY DEF MessageInv, CellsOf
<1> QED
  BY <1>2, <1>3, <1>4, EncodedType

LEMMA BuildsOn ==
    ASSUME NEW c, NEW frame, Continue(c, frame), frame.dict = call[c].dict,
           Builds(frame, CellsOf(c)), UNCHANGED dicts
    PROVE  Building(c)
BY DEF Building, CellsOf

LEMMA BuildsNoMore ==
    ASSUME NEW c, Leave(c)
    PROVE  Building(c)
<1>1. NoCall(c).at \notin Serializing
  BY DEF NoCall, Serializing
<1> QED
  BY <1>1 DEF Leave, Building

\* The first passes count: the header, then each field's bytes.
LEMMA SizeBuilds ==
    ASSUME MessageInv, NEW c \in Clients,
           SizeRoot(c) \/ SizeHeader(c) \/ Fill(c) \/ WriteNone(c) \/ Filled(c)
           \/ Measure(c)
    PROVE  Building(c)
<1> DEFINE p == call[c].schema
           fields == Fields(p)
           all == Encoded(p, CellsOf(c))
           done == Len(fields) - Len(call[c].todo)
<1>1. call[c].at \in Serializing
  BY DEF SizeRoot, SizeHeader, Fill, WriteNone, Filled, Measure, Coming, Through, At,
         Serializing
<1>2. /\ call[c] \in Frames /\ call[c].todo \in Seq(FieldDecl)
      /\ CellsOf(c) \in [Keys -> Cell] /\ p \in Paths
      /\ Builds(call[c], CellsOf(c))
      /\ OnPath(call[c], dicts[call[c].dict])
      /\ Passed(call[c], dicts[call[c].dict])
      /\ HasRoot(p) => /\ fields \in Seq(FieldDecl) /\ all \in Seq(Seq(Units))
                       /\ Len(all) = Len(fields)
  BY <1>1, BuildFacts
<1>3. CASE SizeRoot(c)
  <2> DEFINE frame == [call[c] EXCEPT !.at = "sizeHeader", !.schema = Resolved(c).path]
  <2>1. frame.at = "sizeHeader" /\ frame.dict = call[c].dict
    BY <1>2 DEF Frames
  <2> HIDE DEF frame
  <2>2. Builds(frame, CellsOf(c))
    BY <2>1 DEF Builds
  <2>3. UNCHANGED dicts
    BY <1>3 DEF SizeRoot, callers
  <2> QED
    BY <1>3, <2>1, <2>2, <2>3, BuildsOn, BuildsNoMore DEF SizeRoot, frame
<1>4. CASE SizeHeader(c)
  <2> DEFINE frame == [call[c] EXCEPT !.at = "fill", !.size = HeaderSize(Resolved(c).path),
                                      !.todo = Fields(call[c].schema)]
  <2>1. /\ frame.at = "fill" /\ frame.dict = call[c].dict /\ frame.schema = p
        /\ frame.size = HeaderSize(Resolved(c).path)
    BY <1>2 DEF Frames
  <2> HIDE DEF frame
  <2>2. Resolved(c).path = p
    BY <1>2, <1>4 DEF SizeHeader, At, OnPath, Resolved
  <2>3. Builds(frame, CellsOf(c))
    BY <2>1, <2>2 DEF Builds
  <2>4. UNCHANGED dicts
    BY <1>4 DEF SizeHeader, callers
  <2> QED
    BY <1>4, <2>1, <2>3, <2>4, BuildsOn, BuildsNoMore DEF SizeHeader, frame
<1>5. CASE Fill(c)
  <2> DEFINE next == [call[c] EXCEPT !.todo = Tail(@)]
             none == [call[c] EXCEPT !.at = "writeNone"]
  <2>1. call[c].at = "fill" /\ call[c].todo # <<>> /\ UNCHANGED dicts
    BY <1>5 DEF Fill, Coming, At, callers
  <2>2. /\ next.at = "fill" /\ next.dict = call[c].dict /\ next.schema = p
        /\ next.size = call[c].size
        /\ none.at = "writeNone" /\ none.dict = call[c].dict /\ none.schema = p
        /\ none.size = call[c].size
    BY <1>2, <2>1 DEF Frames
  <2> HIDE DEF next, none
  <2>3. call[c].size = HeaderSize(p)
    BY <1>2, <2>1 DEF Builds
  <2>4. Builds(next, CellsOf(c)) /\ Builds(none, CellsOf(c))
    BY <2>2, <2>3 DEF Builds
  <2> QED
    BY <1>5, <2>1, <2>2, <2>4, BuildsOn, BuildsNoMore DEF Fill, next, none
<1>6. CASE WriteNone(c)
  <2> DEFINE frame == [call[c] EXCEPT !.at = "fill", !.todo = Tail(@)]
  <2>1. call[c].at = "writeNone" /\ Continue(c, frame)
    BY <1>6 DEF WriteNone, At
  <2>2. frame.at = "fill" /\ frame.schema = p /\ frame.size = call[c].size
    BY <1>2 DEF Frames
  <2> HIDE DEF frame
  <2>3. call[c].size = HeaderSize(p)
    BY <1>2, <2>1 DEF Builds
  <2>4. \A cells : Builds(frame, cells)
    BY <2>2, <2>3 DEF Builds
  <2> QED
    BY <2>1, <2>4 DEF Building
<1>7. CASE Filled(c)
  <2> DEFINE frame == [call[c] EXCEPT !.at = "measure", !.todo = Fields(call[c].schema)]
  <2>1. call[c].at = "fill" /\ Continue(c, frame) /\ UNCHANGED dicts
    BY <1>7 DEF Filled, Through, At, callers
  <2>2. /\ frame.at = "measure" /\ frame.dict = call[c].dict /\ frame.schema = p
        /\ frame.size = call[c].size /\ frame.todo = fields
    BY <1>2 DEF Frames
  <2> HIDE DEF frame
  <2>3. call[c].size = HeaderSize(p) /\ HasRoot(p)
    BY <1>2, <2>1 DEF Builds, OnPath
  <2>4. Joined(all, 0) = <<>>
    BY <1>2, <2>3, JoinedFacts
  <2>5. IsEnd(fields, fields) /\ Len(fields) - Len(fields) = 0
    BY <1>2, <2>3, EndAll
  <2>6. HeaderSize(p) + Len(Joined(all, 0)) = HeaderSize(p)
    <3>1. HeaderSize(p) \in Int
      BY <1>2, HeaderSizeType
    <3> QED
      BY <2>4, <3>1
  <2>7. Builds(frame, CellsOf(c))
    BY <2>2, <2>3, <2>5, <2>6 DEF Builds
  <2> QED
    BY <2>1, <2>2, <2>7, BuildsOn
<1>8. CASE Measure(c)
  <2> DEFINE f == Field(c)
             cell == ValueFor(f, CellsOf(c))
             more == IF cell = Absent THEN 0 ELSE SizeOf(f, cell)
             frame == [call[c] EXCEPT !.todo = Tail(@), !.size = @ + more]
  <2>1. /\ call[c].at = "measure" /\ call[c].todo # <<>>
        /\ Continue(c, frame) /\ UNCHANGED dicts
    BY <1>8 DEF Measure, Coming, At, callers
  <2> HIDE DEF more
  <2>2. /\ frame.at = "measure" /\ frame.dict = call[c].dict /\ frame.schema = p
        /\ frame.size = call[c].size + more /\ frame.todo = Tail(call[c].todo)
    BY <1>2, <2>1 DEF Frames
  <2> HIDE DEF frame
  <2>3. /\ HasRoot(p) /\ IsEnd(call[c].todo, fields)
        /\ call[c].size = HeaderSize(p) + Len(Joined(all, done))
        /\ \A g \in ToSet(fields) : Ready(g, CellsOf(c))
    BY <1>2, <2>1 DEF Builds, OnPath, Passed, CellsOf
  <2>4. /\ done \in 0..(Len(fields) - 1) /\ f = fields[done + 1]
        /\ IsEnd(Tail(call[c].todo), fields)
        /\ Len(fields) - Len(Tail(call[c].todo)) = done + 1
    BY <1>2, <2>1, <2>3, EndFacts DEF Field
  <2> HIDE DEF done
  <2>5. done + 1 \in 1..Len(fields) /\ f \in FieldDecl /\ f \in ToSet(fields)
    BY <1>2, <2>3, <2>4 DEF ToSet
  <2>6. cell # Absent /\ cell \in Cell /\ Sent(f, CellsOf(c)) = cell
    BY <1>2, <2>3, <2>5, ReadyIsPut, SentType DEF Sent
  <2>7. all[done + 1] = EncodeField(f, cell)
    BY <2>4, <2>5, <2>6 DEF Encoded
  <2> HIDE DEF all, cell, f
  <2>8. more = Len(all[done + 1])
    BY <2>5, <2>6, <2>7, FieldSize DEF more
  <2>9. /\ Joined(all, done + 1) = Joined(all, done) \o all[done + 1]
        /\ Joined(all, done) \in Seq(Units) /\ all[done + 1] \in Seq(Units)
    <3>1. all \in Seq(Seq(Units)) /\ Len(all) = Len(fields) /\ Len(fields) \in Nat
      BY <1>2, <2>3
    <3>2. done \in 0..(Len(all) - 1) /\ done \in 0..Len(all) /\ done + 1 \in 1..Len(all)
      BY <2>4, <3>1
    <3>3. all[done + 1] \in Seq(Units)
      BY <3>1, <3>2
    <3> QED
      BY <3>1, <3>2, <3>3, JoinedFacts
  <2>10. Len(Joined(all, done + 1)) = Len(Joined(all, done)) + Len(all[done + 1])
    BY <2>9, Lengths
  <2>11. frame.size = HeaderSize(p) + Len(Joined(all, done + 1))
    <3>1. Len(Joined(all, done)) \in Nat /\ Len(all[done + 1]) \in Nat
      BY <2>9
    <3>2. HeaderSize(p) \in Int
      BY <1>2, HeaderSizeType
    <3> QED
      BY <2>2, <2>3, <2>8, <2>10, <3>1, <3>2
  <2>12. Builds(frame, CellsOf(c))
    BY <2>2, <2>4, <2>11 DEF Builds, all
  <2> QED
    BY <2>1, <2>2, <2>12, BuildsOn
<1> QED
  BY <1>3, <1>4, <1>5, <1>6, <1>7, <1>8

\* The serialize pass puts what was counted: the header, then each field.
LEMMA PutBuilds ==
    ASSUME MessageInv, NEW c \in Clients,
           NewBuffer(c) \/ PutHeader(c) \/ FindSchema(c) \/ Check(c) \/ Checked(c)
           \/ OmitField(c) \/ PutField(c)
    PROVE  Building(c)
<1> DEFINE p == call[c].schema
           fields == Fields(p)
           all == Encoded(p, CellsOf(c))
           done == Len(fields) - Len(call[c].todo)
           header == EncodeHeader(Version, p)
           whole == HeaderSize(p) + Len(FlattenSeq(all))
<1>1. call[c].at \in Serializing \ {"sizeRoot", "sizeHeader"}
  BY DEF NewBuffer, PutHeader, FindSchema, Check, Checked, OmitField, PutField,
         Coming, Through, At, Serializing
<1>2. /\ call[c] \in Frames /\ call[c].todo \in Seq(FieldDecl)
      /\ CellsOf(c) \in [Keys -> Cell] /\ p \in Paths
      /\ Builds(call[c], CellsOf(c))
      /\ OnPath(call[c], dicts[call[c].dict])
      /\ Passed(call[c], dicts[call[c].dict])
      /\ HasRoot(p) => /\ fields \in Seq(FieldDecl) /\ all \in Seq(Seq(Units))
                       /\ Len(all) = Len(fields)
  BY <1>1, BuildFacts
<1>3. Resolved(c).ok /\ Resolved(c).path = p /\ HasRoot(p)
  BY <1>1, PathStays DEF MessageInv
<1>4. /\ Joined(all, 0) = <<>> /\ Joined(all, Len(fields)) = FlattenSeq(all)
      /\ fields \in Seq(FieldDecl)
  BY <1>2, <1>3, JoinedFacts
<1>5. UNCHANGED dicts
  BY DEF NewBuffer, PutHeader, Put, FindSchema, Check, Checked, OmitField, PutField,
         callers
<1> HIDE DEF all, header, whole
<1>6. CASE NewBuffer(c)
  <2> DEFINE frame == [call[c] EXCEPT !.at = "putHeader", !.buffer = defaultBuffer]
  <2>1. call[c].at = "measure" /\ call[c].todo = <<>> /\ Continue(c, frame)
    BY <1>6 DEF NewBuffer, Through, At
  <2>2. /\ frame.at = "putHeader" /\ frame.dict = call[c].dict /\ frame.schema = p
        /\ frame.size = call[c].size /\ frame.buffer = defaultBuffer
    BY <1>2 DEF Frames
  <2> HIDE DEF frame
  <2>3. defaultBuffer = <<>>
    BY DEF MessageInv, BytesInv, BorrowedBytesAreKept
  <2>4. /\ IsEnd(call[c].todo, fields)
        /\ call[c].size = HeaderSize(p) + Len(Joined(all, done))
    BY <1>2, <2>1 DEF Builds, all
  <2>5. done = Len(fields)
    BY <1>2, <1>4, <2>1, <2>4, EndFacts
  <2>6. Builds(frame, CellsOf(c))
    BY <1>4, <2>2, <2>3, <2>4, <2>5 DEF Builds, all
  <2> QED
    BY <1>5, <2>1, <2>2, <2>6, BuildsOn
<1>7. CASE PutHeader(c)
  <2> DEFINE bytes == call[c].buffer \o header
             frame == [[call[c] EXCEPT !.at = "findSchema"] EXCEPT !.buffer = bytes]
  <2>1. call[c].at = "putHeader"
    BY <1>7 DEF PutHeader, At
  <2>2. \/ Packable(p) /\ Continue(c, frame)
        \/ Leave(c)
    BY <1>3, <1>7 DEF PutHeader, Put, header
  <2>3. Packable(p) => bytes = header
    <3>1. call[c].buffer = <<>>
      BY <1>2, <2>1 DEF Builds
    <3>2. Packable(p) => header \in Seq(Units)
      BY <1>2, HeaderSizeType, HeaderLength DEF header
    <3> QED
      BY <3>1, <3>2
  <2> HIDE DEF bytes
  <2>4. /\ frame.at = "findSchema" /\ frame.dict = call[c].dict /\ frame.schema = p
        /\ frame.size = call[c].size /\ frame.buffer = bytes
    BY <1>2 DEF Frames
  <2> HIDE DEF frame
  <2>5. call[c].size = whole
    BY <1>2, <2>1 DEF Builds, whole, all
  <2>6. Packable(p) => Builds(frame, CellsOf(c))
    BY <2>3, <2>4, <2>5 DEF Builds, whole, all, header
  <2> QED
    BY <1>5, <2>2, <2>4, <2>6, BuildsOn, BuildsNoMore
<1>8. CASE FindSchema(c)
  <2> DEFINE path == Resolved(c).path
             frame == [call[c] EXCEPT !.at = "check", !.schema = path, !.todo = Fields(path)]
  <2>1. call[c].at = "findSchema" /\ Continue(c, frame)
    BY <1>3, <1>8 DEF FindSchema, At
  <2>2. /\ frame.at = "check" /\ frame.dict = call[c].dict /\ frame.schema = p
        /\ frame.size = call[c].size /\ frame.buffer = call[c].buffer
    BY <1>2, <1>3 DEF Frames
  <2> HIDE DEF frame
  <2>3. call[c].size = whole /\ call[c].buffer = header
    BY <1>2, <2>1 DEF Builds, whole, all, header
  <2>4. Builds(frame, CellsOf(c))
    BY <2>2, <2>3 DEF Builds, whole, all, header
  <2> QED
    BY <1>5, <2>1, <2>2, <2>4, BuildsOn
<1>9. CASE Check(c)
  <2> DEFINE frame == [call[c] EXCEPT !.todo = Tail(@)]
  <2>1. call[c].at = "check" /\ call[c].todo # <<>>
    BY <1>9 DEF Check, Coming, At
  <2>2. Leave(c) \/ Continue(c, frame)
    BY <1>9 DEF Check
  <2>3. /\ frame.at = "check" /\ frame.dict = call[c].dict /\ frame.schema = p
        /\ frame.size = call[c].size /\ frame.buffer = call[c].buffer
    BY <1>2, <2>1 DEF Frames
  <2> HIDE DEF frame
  <2>4. call[c].size = whole /\ call[c].buffer = header
    BY <1>2, <2>1 DEF Builds, whole, all, header
  <2>5. Builds(frame, CellsOf(c))
    BY <2>3, <2>4 DEF Builds, whole, all, header
  <2> QED
    BY <1>5, <2>2, <2>3, <2>5, BuildsOn, BuildsNoMore
<1>10. CASE Checked(c)
  <2> DEFINE frame == [call[c] EXCEPT !.at = "put", !.todo = Fields(call[c].schema),
                                      !.omits = Omitted(c)]
  <2>1. call[c].at = "check" /\ Continue(c, frame)
    BY <1>10 DEF Checked, Through, At
  <2>2. /\ frame.at = "put" /\ frame.dict = call[c].dict /\ frame.schema = p
        /\ frame.size = call[c].size /\ frame.buffer = call[c].buffer
        /\ frame.todo = fields
    BY <1>2 DEF Frames
  <2> HIDE DEF frame
  <2>3. call[c].size = whole /\ call[c].buffer = header /\ Packable(p)
    BY <1>2, <2>1 DEF Builds, whole, all, header, OnPath
  <2>4. IsEnd(fields, fields) /\ Len(fields) - Len(fields) = 0
    BY <1>4, EndAll
  <2>5. header \o Joined(all, 0) = header
    <3>1. header \in Seq(Units)
      BY <1>2, <2>3, HeaderSizeType, HeaderLength DEF header
    <3> QED
      BY <1>4, <3>1
  <2>6. Builds(frame, CellsOf(c))
    BY <2>2, <2>3, <2>4, <2>5 DEF Builds, whole, all, header
  <2> QED
    BY <1>5, <2>1, <2>2, <2>6, BuildsOn
<1>11. CASE OmitField(c)
  <2>1. call[c].at = "put" /\ Field(c) \in call[c].omits
    BY <1>11 DEF OmitField, Coming, At
  <2> QED
    BY <1>2, <2>1 DEF Passed
<1>12. CASE PutField(c)
  <2> DEFINE f == Field(c)
             bytes == EncodeField(f, Sent(f, CellsOf(c)))
             moved == [call[c] EXCEPT !.todo = Tail(@)]
             frame == [moved EXCEPT !.buffer = @ \o bytes]
  <2>1. call[c].at = "put" /\ call[c].todo # <<>>
    BY <1>12 DEF PutField, Coming, At
  <2>2. Leave(c) \/ Continue(c, frame)
    <3>1. Put(c, moved, bytes) => Continue(c, frame)
      BY DEF Put
    <3> HIDE DEF frame, moved, bytes
    <3> QED
      BY <1>12, <3>1 DEF PutField, moved, bytes
  <2> HIDE DEF bytes
  <2>3. /\ frame.at = "put" /\ frame.dict = call[c].dict /\ frame.schema = p
        /\ frame.size = call[c].size /\ frame.buffer = call[c].buffer \o bytes
        /\ frame.todo = Tail(call[c].todo)
    BY <1>2, <2>1 DEF Frames
  <2> HIDE DEF frame
  <2>4. /\ call[c].size = whole /\ Packable(p) /\ IsEnd(call[c].todo, fields)
        /\ call[c].buffer = header \o Joined(all, done)
    BY <1>2, <2>1 DEF Builds, whole, all, header, OnPath
  <2>5. /\ done \in 0..(Len(fields) - 1) /\ f = fields[done + 1]
        /\ IsEnd(Tail(call[c].todo), fields)
        /\ Len(fields) - Len(Tail(call[c].todo)) = done + 1
    BY <1>2, <1>4, <2>1, <2>4, EndFacts DEF Field
  <2> HIDE DEF done
  <2>6. done + 1 \in 1..Len(fields)
    BY <1>4, <2>5
  <2>7. all[done + 1] = bytes
    BY <1>4, <2>5, <2>6 DEF Encoded, all, bytes
  <2> HIDE DEF f
  <2>8. /\ Joined(all, done + 1) = Joined(all, done) \o bytes
        /\ Joined(all, done) \in Seq(Units) /\ bytes \in Seq(Units)
    <3>1. all \in Seq(Seq(Units)) /\ Len(all) = Len(fields) /\ Len(fields) \in Nat
      BY <1>2, <1>3 DEF all
    <3>2. done \in 0..(Len(all) - 1) /\ done \in 0..Len(all) /\ done + 1 \in 1..Len(all)
      BY <2>5, <3>1
    <3>3. all[done + 1] \in Seq(Units)
      BY <3>1, <3>2
    <3> QED
      BY <2>7, <3>1, <3>2, <3>3, JoinedFacts
  <2>9. header \in Seq(Units)
    BY <1>2, <2>4, HeaderSizeType, HeaderLength DEF header
  <2>10. (header \o Joined(all, done)) \o bytes = header \o Joined(all, done + 1)
    <3>1. (header \o Joined(all, done)) \o bytes = header \o (Joined(all, done) \o bytes)
      BY <2>8, <2>9, Grouping
    <3> QED
      BY <2>8, <3>1
  <2>11. Builds(frame, CellsOf(c))
    BY <2>3, <2>4, <2>5, <2>10 DEF Builds, whole, all, header
  <2> QED
    BY <1>5, <2>2, <2>3, <2>11, BuildsOn, BuildsNoMore
<1> QED
  BY <1>6, <1>7, <1>8, <1>9, <1>10, <1>11, <1>12

LEMMA SerializeBuilds ==
    ASSUME MessageInv, NEW c \in Clients, Serialize(c)
    PROVE  Building(c)
<1>1. CASE ReturnMessage(c)
  BY <1>1, BuildsNoMore DEF ReturnMessage
<1> QED
  BY <1>1, SizeBuilds, PutBuilds DEF Serialize

\* When no class names a field twice, what a dict means is the bytes of its
\* fields.
LEMMA EncodedMeans ==
    ASSUME NamedOnce, NEW d \in [ns : Seq(STRING), cells : [Keys -> Cell]],
           NamespaceOf(d.ns).ok, HasRoot(NamespaceOf(d.ns).path)
    PROVE  LET p == NamespaceOf(d.ns).path
           IN  EncodeMessage(Meaning(d))
                  = EncodeHeader(Version, p) \o FlattenSeq(Encoded(p, d.cells))
<1> DEFINE p == NamespaceOf(d.ns).path
           fields == Fields(p)
<1>1. p \in Paths /\ fields \in Seq(FieldDecl)
  BY ResolvedType, RootFacts
<1>2. Meaning(d).path = p
  BY DEF Meaning
<1>3. ASSUME NEW i \in DOMAIN fields
      PROVE  Meaning(d).values[fields[i].name] = Sent(fields[i], d.cells)
  <2> DEFINE f == fields[i]
             sends == {g \in ToSet(fields) : g.name = f.name}
  <2>1. f \in ToSet(fields) /\ f \in FieldDecl
    BY <1>1 DEF ToSet
  <2>2. sends = {f}
    BY <1>1, <2>1 DEF NamedOnce
  <2>3. f.name \in Keys
    BY <2>1 DEF FieldDecl
  <2>4. Meaning(d).values[f.name] = Sent(CHOOSE g \in sends : TRUE, d.cells)
    BY <2>2, <2>3 DEF Meaning
  <2>5. (CHOOSE g \in sends : TRUE) = f
    BY <2>2
  <2> HIDE DEF sends
  <2> QED
    BY <2>4, <2>5
<1>4. EncodedFields(Meaning(d)) = Encoded(p, d.cells)
  BY <1>2, <1>3 DEF EncodedFields, Encoded
<1> QED
  BY <1>2, <1>4 DEF EncodeMessage

\* A message that is returned is that of its meaning.
LEMMA ReturnsTheMeaning ==
    ASSUME MessageInv, NamedOnce, NEW c \in Clients, ReturnMessage(c)
    PROVE  call[c].buffer = EncodeMessage(call[c].meant)
<1> DEFINE p == call[c].schema
           fields == Fields(p)
           d == dicts[call[c].dict]
<1>1. call[c].at = "put" /\ call[c].todo = <<>> /\ call[c].at \in Serializing
  BY DEF ReturnMessage, Through, At, Serializing
<1>2. /\ call[c].todo \in Seq(FieldDecl)
      /\ Builds(call[c], d.cells) /\ OnPath(call[c], d)
      /\ HasRoot(p) => /\ fields \in Seq(FieldDecl)
                       /\ Encoded(p, d.cells) \in Seq(Seq(Units))
                       /\ Len(Encoded(p, d.cells)) = Len(fields)
  BY <1>1, BuildFacts DEF CellsOf
<1>3. HasRoot(p) /\ NamespaceOf(d.ns).ok /\ p = NamespaceOf(d.ns).path
  BY <1>1, <1>2 DEF OnPath
<1>4. Len(fields) - Len(call[c].todo) = Len(fields) /\ IsEnd(call[c].todo, fields)
  BY <1>1, <1>2, <1>3, EndFacts DEF Builds
<1>5. Joined(Encoded(p, d.cells), Len(fields)) = FlattenSeq(Encoded(p, d.cells))
  BY <1>2, <1>3, JoinedFacts
<1>6. call[c].buffer = EncodeHeader(Version, p) \o FlattenSeq(Encoded(p, d.cells))
  BY <1>1, <1>2, <1>4, <1>5 DEF Builds
<1>7. d \in [ns : Seq(STRING), cells : [Keys -> Cell]]
  <2>1. d \in [ns : Seq(STRING), cells : [Keys -> Cells]]
    BY PrivateFacts DEF MessageInv
  <2> QED
    BY <2>1, EngineAssumption
<1>8. Meaning(d) = call[c].meant
  BY <1>1, AgreesNow DEF MessageInv, Meant
<1> HIDE DEF d, p, fields
<1> QED
  BY <1>3, <1>6, <1>7, <1>8, EncodedMeans

\* A step of one call leaves what the others build alone.
LEMMA OthersBuild ==
    ASSUME MessageInv, PrivateInv', BytesInv', NEW c \in Clients, Building(c),
           \A o \in Clients \ {c} :
              call[o].at \in Serializing => dicts'[call[o].dict] = dicts[call[o].dict],
           NamedOnce => MessageSaysWhatWasMeant'
    PROVE  MessageInv'
<1>1. PICK frame : /\ Continue(c, frame)
                   /\ frame.at \in Serializing => Builds(frame, dicts'[frame.dict].cells)
  BY DEF Building
<1>2. call'[c] = frame /\ \A o \in Clients \ {c} : call'[o] = call[o]
  BY <1>1, PrivateFacts DEF MessageInv, Continue
<1>3. ASSUME NEW o \in Clients, call'[o].at \in Serializing
      PROVE  Builds(call'[o], dicts'[call'[o].dict].cells)
  <2>1. CASE o = c
    BY <1>1, <1>2, <1>3, <2>1
  <2>2. CASE o # c
    BY <1>2, <1>3, <2>2 DEF MessageInv
  <2> QED
    BY <2>1, <2>2
<1> QED
  BY <1>3 DEF MessageInv

\* The inductive step of what follows.
LEMMA MessageStep ==
    ASSUME ~MayShare, MessageInv, [Next]_vars
    PROVE  MessageInv'
<1>1. PrivateInv' /\ BytesInv'
  BY PrivateStep, BytesStep DEF MessageInv
<1>2. ASSUME UNCHANGED <<given, meaning>>
      PROVE  NamedOnce => MessageSaysWhatWasMeant'
  BY <1>2 DEF MessageInv, MessageSaysWhatWasMeant
<1>3. /\ dicts \in [AllDicts -> [ns : Seq(STRING), cells : [Keys -> Cells]]]
      /\ given \in [Arrays -> Seq(Byte)] /\ meaning \in [Arrays -> Meanings]
      /\ \A o \in Clients : call[o].dict \in AllDicts /\ call[o].array \in Arrays
  BY PrivateFacts DEF MessageInv, PrivateInv, TypeInv, TypeOK, Frames
<1>4. ASSUME NEW c \in Clients, Serialize(c) PROVE MessageInv'
  <2>1. call[c].at \in Serializing
    BY <1>4, SerializeMoves DEF MessageInv
  <2>2. \A d \in AllDicts : d # call[c].dict => dicts'[d] = dicts[d]
    BY <1>3, <1>4
       DEF Serialize, SizeRoot, SizeHeader, Fill, WriteNone, Filled, Measure, NewBuffer,
           PutHeader, Put, FindSchema, Check, Checked, OmitField, PutField,
           ReturnMessage, callers
  <2>3. \A o \in Clients \ {c} :
           call[o].at \in Serializing => dicts'[call[o].dict] = dicts[call[o].dict]
    BY <1>3, <2>1, <2>2 DEF MessageInv, PrivateInv, Apart
  <2>4. NamedOnce => MessageSaysWhatWasMeant'
    <3>1. CASE ReturnMessage(c)
      <4>1. SUFFICES ASSUME NamedOnce, NEW a \in Arrays, given'[a] # <<>>
                     PROVE  given'[a] = EncodeMessage(meaning'[a])
        BY DEF MessageSaysWhatWasMeant
      <4>2. /\ given' = [given EXCEPT ![call[c].array] = call[c].buffer]
            /\ meaning' = [meaning EXCEPT ![call[c].array] = call[c].meant]
        BY <3>1 DEF ReturnMessage
      <4>3. CASE a = call[c].array
        BY <1>3, <3>1, <4>1, <4>2, <4>3, ReturnsTheMeaning
      <4>4. CASE a # call[c].array
        BY <1>3, <4>1, <4>2, <4>4 DEF MessageInv, MessageSaysWhatWasMeant
      <4> QED
        BY <4>3, <4>4
    <3>2. CASE ~ReturnMessage(c)
      <4>1. UNCHANGED <<given, meaning>>
        BY <1>4, <3>2
           DEF Serialize, SizeRoot, SizeHeader, Fill, WriteNone, Filled, Measure,
               NewBuffer, PutHeader, FindSchema, Check, Checked, OmitField, PutField,
               history
      <4> QED
        BY <1>2, <4>1
    <3> QED
      BY <3>1, <3>2
  <2> QED
    BY <1>1, <1>4, <2>3, <2>4, SerializeBuilds, OthersBuild
<1>5. ASSUME NEW c \in Clients, Deserialize(c) PROVE MessageInv'
  <2>1. UNCHANGED dicts /\ Building(c)
    BY <1>5, ReaderMoves DEF MessageInv, Building
  <2>2. UNCHANGED <<given, meaning>>
    BY <1>5 DEF Deserialize, ReadHeaderByte, LookUp, ReadFlag, ReadByte, ReadLength,
                ReadText, ReturnMap, history
  <2> QED
    BY <1>1, <1>2, <2>1, <2>2, OthersBuild
<1>6. ASSUME NEW c \in Clients, Call(c) PROVE MessageInv'
  <2>1. UNCHANGED <<given, meaning>>
    BY <1>6 DEF Call, StartSerialize, StartScalar, Enter, StartDeserialize, history
  <2>2. ASSUME NEW d, NEW contents, Enter(c, d, contents),
               \A o \in Clients \ {c} : call[o].at \in Serializing => call[o].dict # d
        PROVE  MessageInv'
    <3> DEFINE frame == [NoCall(c) EXCEPT !.at = "sizeRoot", !.dict = d,
                                          !.array = CHOOSE a \in Arrays : Unused(a),
                                          !.meant = Meaning(contents)]
    <3>1. Continue(c, frame) /\ dicts' = [dicts EXCEPT ![d] = contents]
      BY <2>2 DEF Enter
    <3>2. frame.at = "sizeRoot"
      BY DEF NoCall
    <3> HIDE DEF frame
    <3>3. \A cells : Builds(frame, cells)
      BY <3>2 DEF Builds
    <3>4. Building(c)
      BY <3>1, <3>3 DEF Building
    <3>5. \A o \in Clients \ {c} :
             call[o].at \in Serializing => dicts'[call[o].dict] = dicts[call[o].dict]
      BY <1>3, <2>2, <3>1
    <3> QED
      BY <1>1, <1>2, <2>1, <3>4, <3>5, OthersBuild
  <2>3. ASSUME NEW d \in Dicts, NEW names \in NameArgs, StartSerialize(c, d, names)
        PROVE  MessageInv'
    <3>1. \A o \in Clients : call[o].at \in Serializing => call[o].dict # d
      BY <2>3 DEF StartSerialize, DictFree, Uses
    <3> QED
      BY <2>2, <2>3, <3>1 DEF StartSerialize
  <2>4. ASSUME NEW cell \in Scalars, StartScalar(c, cell) PROVE MessageInv'
    <3>1. \A o \in Clients \ {c} : call[o].dict # Scratch[c]
      <4>1. \A o \in Clients \ {c} : Scratch[c] # Scratch[o] /\ Scratch[c] \notin Dicts
        BY EngineAssumption
      <4> QED
        BY <4>1 DEF MessageInv, PrivateInv, OwnDicts
    <3> QED
      BY <2>2, <2>4, <3>1 DEF StartScalar
  <2>5. ASSUME NEW a \in Arrays, StartDeserialize(c, a) PROVE MessageInv'
    <3> DEFINE frame == [NoCall(c) EXCEPT !.at = "header", !.array = a, !.inPlace = TRUE]
    <3>1. Continue(c, frame) /\ UNCHANGED dicts
      BY <2>5 DEF StartDeserialize, callers
    <3>2. frame.at \notin Serializing
      BY DEF NoCall, Serializing
    <3> HIDE DEF frame
    <3>3. Building(c)
      BY <3>1, <3>2 DEF Building
    <3> QED
      BY <1>1, <1>2, <2>1, <3>1, <3>3, OthersBuild
  <2> QED
    BY <1>6, <2>3, <2>4, <2>5 DEF Call
<1>7. ASSUME NEW d \in Dicts, NEW k \in Keys, NEW cell \in Cells, Edit(d, k, cell)
      PROVE  MessageInv'
  <2>1. /\ dicts' = [dicts EXCEPT ![d].cells[k] = cell]
        /\ \A c \in Clients : call[c].at \in Serializing => call[c].dict # d
        /\ UNCHANGED <<call, given, meaning>>
    BY <1>7 DEF Edit, Uses, history
  <2>2. \A e \in AllDicts : e # d => dicts'[e] = dicts[e]
    BY <1>3, <2>1
  <2>3. \A c \in Clients :
           call[c].at \in Serializing => dicts'[call[c].dict] = dicts[call[c].dict]
    BY <1>3, <2>1, <2>2
  <2> QED
    BY <1>1, <1>2, <2>1, <2>3 DEF MessageInv
<1>8. CASE AddListener \/ UNCHANGED vars
  <2>1. UNCHANGED <<dicts, call, given, meaning>>
    BY <1>8 DEF AddListener, vars, callers, history
  <2> QED
    BY <1>1, <1>2, <2>1 DEF MessageInv
<1> QED
  BY <1>4, <1>5, <1>6, <1>7, <1>8 DEF Next, Step

LEMMA MessageInit == Init => MessageInv
<1> SUFFICES ASSUME Init PROVE MessageInv
  OBVIOUS
<1>1. \A c \in Clients : call[c].at \notin Serializing
  BY DEF Init, NoCall, Serializing
<1>2. \A a \in Arrays : given[a] = <<>>
  BY DEF Init
<1>3. PrivateInv /\ BytesInv
  BY PrivateInit, BytesInit
<1> QED
  BY <1>1, <1>2, <1>3 DEF MessageInv, MessageSaysWhatWasMeant

\* MessageSaysWhatWasMeant, of DynabuffersEngine.serialize: for every schema
\* that names a field once in a class, and however many clients, as long as no
\* two calls share a dict, every message is the header and the fields, in
\* their order, of what its dict meant when serialize was called.
THEOREM MessagesAreMeant ==
    ASSUME ~MayShare, NamedOnce
    PROVE  Spec => []MessageSaysWhatWasMeant
<1>1. MessageInv => MessageSaysWhatWasMeant
  BY DEF MessageInv
<1> QED
  BY <1>1, MessageInit, MessageStep, PTL DEF Spec

\* SizePassIsExact, of ClassType.size and the size of each datatype: the bytes
\* put are as many as the size pass counted, without NamedOnce too.
THEOREM SizesAreExact ==
    ASSUME ~MayShare
    PROVE  Spec => []SizePassIsExact
<1>1. MessageInv => SizePassIsExact
  <2> SUFFICES ASSUME MessageInv, NEW c \in Clients, Through(c, "put")
               PROVE  Len(call[c].buffer) = call[c].size
    BY DEF SizePassIsExact
  <2> DEFINE p == call[c].schema
             fields == Fields(p)
             all == Encoded(p, CellsOf(c))
             header == EncodeHeader(Version, p)
  <2>1. call[c].at = "put" /\ call[c].todo = <<>> /\ call[c].at \in Serializing
    BY DEF Through, At, Serializing
  <2>2. /\ call[c].todo \in Seq(FieldDecl) /\ p \in Paths
        /\ Builds(call[c], CellsOf(c)) /\ OnPath(call[c], dicts[call[c].dict])
        /\ HasRoot(p) => /\ fields \in Seq(FieldDecl) /\ all \in Seq(Seq(Units))
                         /\ Len(all) = Len(fields)
    BY <2>1, BuildFacts
  <2>3. HasRoot(p) /\ Packable(p)
    BY <2>1, <2>2 DEF OnPath
  <2>4. Len(fields) - Len(call[c].todo) = Len(fields)
    BY <2>1, <2>2, <2>3, EndFacts DEF Builds
  <2>5. Joined(all, Len(fields)) = FlattenSeq(all) /\ FlattenSeq(all) \in Seq(Units)
    <3>1. Len(all) \in 0..Len(all)
      BY <2>2, <2>3
    <3> QED
      BY <2>2, <2>3, <3>1, JoinedFacts
  <2>6. /\ call[c].buffer = header \o FlattenSeq(all)
        /\ call[c].size = HeaderSize(p) + Len(FlattenSeq(all))
    BY <2>1, <2>2, <2>4, <2>5 DEF Builds
  <2>7. header \in Seq(Units) /\ Len(header) = HeaderSize(p)
    BY <2>2, <2>3, HeaderSizeType, HeaderLength
  <2> HIDE DEF header, all
  <2> QED
    BY <2>5, <2>6, <2>7, Lengths
<1> QED
  BY <1>1, MessageInit, MessageStep, PTL DEF Spec

============================================================================
