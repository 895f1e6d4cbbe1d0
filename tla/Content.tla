------------------------------ MODULE Content ------------------------------
(***************************************************************************)
(* What follows the header: the values of a schema's types as bytes.  For  *)
(* each type the two libraries say how long a value is, which values they  *)
(* refuse, which bytes they put and what they read back.  The two passes   *)
(* of a call see the same values here (Engine has what may come between    *)
(* them), so an option that Python's size pass fills with None is filled   *)
(* when its bytes are put.                                                 *)
(***************************************************************************)
EXTENDS Values, SequencesExt

CONSTANT Declarations   \* the classes, enums and unions in their order

\* A type: of is the type in an array or an option, name what a reference names.
Scalar(is) == [is |-> is, of |-> <<>>, name |-> ""]
ArrayOf(T) == [is |-> "array", of |-> <<T>>, name |-> ""]
OptionOf(T) == [is |-> "option", of |-> <<T>>, name |-> ""]
RefTo(name) == [is |-> "ref", of |-> <<>>, name |-> name]

WidthOf(is) ==
    CASE is \in {"byte", "boolean"} -> 1
      [] is = "short" -> ShortWidth
      [] is \in {"int", "float"} -> IntWidth
      [] is = "long" -> LongWidth

\* The first declaration of a name.
Resolve(name) ==
    Declarations[SelectInSeq(Declarations, LAMBDA d : d.name = name)]

\* The types fields have, the types values have in maps, and all of them.
Declared(is) == {Declarations[i].name : i \in {k \in DOMAIN Declarations : Declarations[k].is = is}}
DataTypes ==
    {Scalar(is) : is \in NumberKinds \cup {"boolean", "string", "map"}}
        \cup {RefTo(name) : name \in UNION {Declared(is) : is \in {"class", "enum", "union"}}}
FieldTypes ==
    LET listed == DataTypes \cup {ArrayOf(T) : T \in DataTypes}
    IN listed \cup {OptionOf(T) : T \in listed}

ScalarValTypes ==
    {Scalar(is) : is \in NumberKinds \cup {"boolean", "string", "map", "null", "unknown"}}

WithLists(S) == ScalarValTypes \cup {ArrayOf(T) : T \in S}
valTypes[d \in Nat] == IF d = 0 THEN ScalarValTypes ELSE WithLists(valTypes[d - 1])

Types == FieldTypes \cup valTypes[MaxNesting]

\* A default is the text of the schema, an empty list or an empty map.  ":type"
\* is no name a field can have.
FieldDecl ==
    [name : TextNames \ {":type"}, type : FieldTypes, default : {<<>>} \cup [{1} -> ValueSet],
     rules : SUBSET [name : STRING, values : Seq(Int)]]

ASSUME DeclarationsAssumption ==
    /\ Declarations \in Seq([is : {"class", "enum", "union"}, name : STRING,
                             fields : Seq(FieldDecl), values : Seq(STRING)])
    /\ \A i \in 1..Len(Declarations) : Declarations[i].is = "union" =>
          \A k \in 1..Len(Declarations[i].values) :
              /\ Declarations[i].values[k] \in Declared("class")
              /\ Resolve(Declarations[i].values[k]).is = "class"

----------------------------------------------------------------------------
\* Classes.  A value, the default or None for a field; what has neither a
\* value nor a default nor an option type is missing.
Missing(f, v) ==
    f.default = <<>> /\ f.type.is # "option" /\ (~Has(v, f.name) \/ At(v, f.name).is = "null")

FieldValue(f, v) ==
    IF Has(v, f.name) THEN At(v, f.name)
    ELSE IF f.default # <<>> THEN f.default[1] ELSE Null

\* Unions.  The class a hint names, by position or by name ...
Hints(u, i, v) ==
    /\ Has(v, ":type")
    /\ LET hint == At(v, ":type")
       IN \/ hint.is \in WholeKinds /\ hint.n = i - 1
          \/ hint.is = "text" /\ hint.t = u.values[i]

NamesOf(class) == {class.fields[k].name : k \in 1..Len(class.fields)}

\* ... or the first whose fields are the keys (Python) ...
PyFits(u, i, v) == Hints(u, i, v) \/ KeysOf(v) = NamesOf(Resolve(u.values[i]))

\* A mutant: Kotlin goes by the keys alone.
KtFitsUnhinted(u, i, v) == KeysOf(v) \ {":type"} \subseteq NamesOf(Resolve(u.values[i]))

\* ... or the first that has them all (Kotlin).
KtFits(u, i, v) == Hints(u, i, v) \/ KeysOf(v) \subseteq NamesOf(Resolve(u.values[i]))

Candidates(p, u, v) ==
    {i \in 1..Len(u.values) : IF p = "python" THEN PyFits(u, i, v) ELSE KtFits(u, i, v)}

Chosen(p, u, v) == Min(Candidates(p, u, v))

----------------------------------------------------------------------------
\* Maps.  The type of an entry goes with the value in Python, where bytes are
\* taken for a byte and the width decides between int and long ...
PyKind(v) ==
    CASE v.is = "text" -> "string"
      [] v.is = "bool" -> "boolean"
      [] v.is \in WholeKinds -> IF InWidth(v.n, IntWidth) THEN "int" ELSE "long"
      [] v.is = "array" -> "byte"
      [] OTHER -> v.is

\* ... and with the kind in Kotlin, which knows no arrays of a primitive kind.
KtKind(v) ==
    CASE v.is = "text" -> "string"
      [] v.is = "bool" -> "boolean"
      [] v.is = "array" -> "unknown"
      [] OTHER -> v.is

KindOf(p, v) == IF p = "python" THEN PyKind(v) ELSE KtKind(v)

\* A list is of the type of its first item, and of texts if there is none.
FirstItem(p, v) ==
    IF v.items = <<>> \/ (p = "kotlin" /\ v.items[1].is = "null") THEN Text("") ELSE v.items[1]

NoLists == [p \in Platforms |-> [v \in ValueSet |-> Scalar(KindOf(p, v))]]

ListTypes(in) ==
    [p \in Platforms |-> [v \in ValueSet |->
        IF v.is = "list" THEN ArrayOf(in[p][FirstItem(p, v)]) ELSE Scalar(KindOf(p, v))]]

valType[d \in Nat] == IF d = 0 THEN NoLists ELSE ListTypes(valType[d - 1])

ValType(p, v) == valType[MaxNesting][p][v]

Ordinals == <<"string", "boolean", "byte", "float", "int", "long", "short", "map">>
NullOrdinal == 90

ScalarOrdinal(T) ==
    IF T.is = "null" THEN NullOrdinal
    ELSE 10 * (SelectInSeq(Ordinals, LAMBDA is : is = T.is) - 1)

\* 80 and more for lists, by what is in them: 8 for lists in lists, 9 for null.
Ordinal(T) ==
    IF T.is # "array" THEN ScalarOrdinal(T)
    ELSE 80 + IF T.of[1].is = "array" THEN 8 ELSE ScalarOrdinal(T.of[1]) \div 10

KnownOrdinals == {10 * i : i \in 0..7} \cup 80..87 \cup {NullOrdinal}

OrdinalType(o) ==
    IF o \in 80..87 THEN ArrayOf(Scalar(Ordinals[o - 79]))
    ELSE IF o = NullOrdinal THEN Scalar("null")
    ELSE Scalar(Ordinals[o \div 10 + 1])

\* The entries of a map but those under a key.
Without(items, key) ==
    FlattenSeq([i \in 1..Len(items) |-> IF items[i].t = key THEN <<>> ELSE <<items[i]>>])

\* Entries without a key are passed over.
Keyed(v) == Without(v.items, NoKey)

\* The length field of an entry's header, beside the ordinal in one int.
LengthWidth == IntWidth - 1

----------------------------------------------------------------------------
(***************************************************************************)
(* Types and values are nested, and so are the calls for them.  A codec is *)
(* what the calls for all types do as far as they nest to some depth; in   *)
(* is the one for the calls inside, and p the library.  MaxNesting stands  *)
(* for the stack: calls that need more than that raise.                    *)
(***************************************************************************)
\* size(value)
Total(ns) == Through(0, [i \in 1..Len(ns) |-> [n \in Nat |-> n + ns[i]]])

\* Kotlin counts a byte array by its bytes, whatever the declared items are.
ArraySize(in, p, T, v) ==
    IntWidth + IF p = "kotlin" /\ v.is = "array" /\ v.t = "byte"
               THEN Len(v.items)
               ELSE Total([i \in 1..Len(v.items) |-> in.size[p][T.of[1]][v.items[i]]])

EntrySize(in, p, e) ==
    IntWidth + Len(TextBytes(e.t)) + in.size[p][ValType(p, e.items[1])][e.items[1]]

\* A mutant: the header of an entry is not counted.
MapSizeHeaderless(in, p, v) ==
    LET items == Keyed(v)
    IN ShortWidth + Total([i \in 1..Len(items) |-> EntrySize(in, p, items[i])])

MapSize(in, p, v) ==
    LET items == Keyed(v)
    IN ShortWidth + Total([i \in 1..Len(items) |-> IntWidth + EntrySize(in, p, items[i])])

ClassSize(in, p, class, v) ==
    Total([k \in 1..Len(class.fields) |->
              in.size[p][class.fields[k].type][FieldValue(class.fields[k], v)]])

RefSize(in, p, d, v) ==
    CASE d.is = "enum" -> 1 + Len(TextBytes(ToText(p, v)))
      [] d.is = "class" -> ClassSize(in, p, d, v)
      [] d.is = "union" -> 1 + ClassSize(in, p, Resolve(d.values[Chosen(p, d, v)]), v)

SizeOf(in, p, T, v) ==
    CASE T.is = "string" -> IntWidth + Len(TextBytes(ToText(p, v)))
      [] T.is = "null" -> 0
      [] T.is = "array" -> ArraySize(in, p, T, v)
      [] T.is = "map" -> MapSize(in, p, v)
      [] T.is = "option" -> 1 + IF v.is = "null" THEN 0 ELSE in.size[p][T.of[1]][v]
      [] T.is = "ref" -> RefSize(in, p, Resolve(T.name), v)
      [] OTHER -> WidthOf(T.is)

----------------------------------------------------------------------------
\* Whether serialize(value) gets through: no conversion, no check and no
\* annotation raises.
\* A mutant: a byte has a sign in Python, too.
PyAcceptsSigned(is, v) == \E n \in PyWhole(v) : InWidth(n, WidthOf(is))

\* Python packs no number that is too wide, and a byte is unsigned.
PyAcceptsNumber(is, v) ==
    IF is = "byte" THEN v.is \in WholeKinds \cup {"bool"} /\ v.n \in Byte
    ELSE \E n \in PyWhole(v) : InWidth(n, WidthOf(is))

KtAcceptsNumber(is, v) == \E n \in KtWhole(v) : InWidth(n, WidthOf(is))

\* A list; bytes in Python and all but an array of Booleans in Kotlin.
IsItems(p, v) ==
    \/ v.is = "list"
    \/ v.is = "array" /\ (p = "python" \/ v.t # "boolean")

AcceptsArray(in, p, T, v) ==
    /\ IsItems(p, v)
    /\ \A i \in 1..Len(v.items) :
          /\ p = "kotlin" => v.items[i].is # "null"
          /\ in.accepts[p][T.of[1]][v.items[i]]

\* Python refuses more entries than a short counts.
AcceptsMap(in, p, v) ==
    /\ v.is = "map"
    /\ p = "python" => InWidth(Len(v.items), ShortWidth)
    /\ LET items == Keyed(v)
       IN \A i \in 1..Len(items) :
             LET x == items[i].items[1] IN in.accepts[p][ValType(p, x)][x]

\* A mutant: one annotation of several is enough.
AcceptsClassByOne(in, p, class, v) ==
    /\ v.is = "map"
    /\ \A k \in 1..Len(class.fields) :
          LET f == class.fields[k]
          IN /\ ~Missing(f, v)
             /\ f.rules # {} => \E r \in f.rules : Admits(p, r, FieldValue(f, v))
             /\ in.accepts[p][f.type][FieldValue(f, v)]

AcceptsClass(in, p, class, v) ==
    /\ v.is = "map"
    /\ \A k \in 1..Len(class.fields) :
          LET f == class.fields[k]
          IN /\ ~Missing(f, v)
             /\ \A r \in f.rules : Admits(p, r, FieldValue(f, v))
             /\ in.accepts[p][f.type][FieldValue(f, v)]

\* Python has one byte for the position of the class.
AcceptsMember(in, p, u, i, v) ==
    /\ p = "python" => i - 1 \in Byte
    /\ AcceptsClass(in, p, Resolve(u.values[i]), v)

AcceptsUnion(in, p, u, v) ==
    /\ v.is = "map"
    /\ Candidates(p, u, v) # {}
    /\ AcceptsMember(in, p, u, Chosen(p, u, v), v)

\* A mutant: the length of the text is not looked at.
AcceptsLongEnum(p, e, v) == p = "python" \/ (v.is = "text" /\ v.t \in ToSet(e.values))

\* Python writes any short text where an enum is declared.
AcceptsEnum(p, e, v) ==
    IF p = "python" THEN Len(TextBytes(ToText(p, v))) \in Byte
    ELSE v.is = "text" /\ v.t \in ToSet(e.values)

AcceptsRef(in, p, d, v) ==
    CASE d.is = "enum" -> AcceptsEnum(p, d, v)
      [] d.is = "class" -> AcceptsClass(in, p, d, v)
      [] d.is = "union" -> AcceptsUnion(in, p, d, v)

\* Kotlin packs a number that is too large for a single as an infinite one.
AcceptsFloat(p, v) ==
    \E h \in Halves(p, v) : p = "python" => InWidth(Single(h), WidthOf("float"))

AcceptsOf(in, p, T, v) ==
    CASE T.is \in WholeKinds ->
            IF p = "python" THEN PyAcceptsNumber(T.is, v) ELSE KtAcceptsNumber(T.is, v)
      [] T.is = "float" -> AcceptsFloat(p, v)
      [] T.is \in {"boolean", "null"} -> TRUE
      [] T.is = "string" -> p = "python" => v.is = "text"
      [] T.is = "array" -> AcceptsArray(in, p, T, v)
      [] T.is = "map" -> AcceptsMap(in, p, v)
      [] T.is = "option" -> v.is = "null" \/ in.accepts[p][T.of[1]][v]
      [] T.is = "ref" -> AcceptsRef(in, p, Resolve(T.name), v)
      [] T.is = "unknown" -> FALSE

----------------------------------------------------------------------------
\* serialize(value): the bytes of a value that is accepted.
PutText(t) == NumberBytes(Len(TextBytes(t)), IntWidth) \o TextBytes(t)

PutArray(in, p, T, v) ==
    NumberBytes(Len(v.items), IntWidth)
        \o FlattenSeq([i \in 1..Len(v.items) |-> in.put[p][T.of[1]][v.items[i]]])

\* A mutant: the mask is one bit short.
EntryHeaderShort(T, length) ==
    <<Ordinal(T)>> \o NumberBytes(length % (Weight[LengthWidth] \div 2), LengthWidth)

\* mergeHeader: what does not fit into the length field is cut off.
EntryHeader(T, length) == <<Ordinal(T)>> \o NumberBytes(length, LengthWidth)

PutEntryOf(in, p, T, e) ==
    EntryHeader(T, EntrySize(in, p, e)) \o PutText(e.t) \o in.put[p][T][e.items[1]]

PutEntry(in, p, e) == PutEntryOf(in, p, ValType(p, e.items[1]), e)

\* The count is that of all entries.  Kotlin's toShort() lets it wrap.
PutMap(in, p, v) ==
    LET items == Keyed(v)
    IN NumberBytes(Len(v.items), ShortWidth)
          \o FlattenSeq([i \in 1..Len(items) |-> PutEntry(in, p, items[i])])

PutClass(in, p, class, v) ==
    FlattenSeq([k \in 1..Len(class.fields) |->
                   in.put[p][class.fields[k].type][FieldValue(class.fields[k], v)]])

\* bytes([n]) and n.toByte(): Python has refused what does not fit.
PutByte(p, n) == <<IF p = "python" THEN n ELSE n % 256>>

PutMember(in, p, u, i, v) ==
    PutByte(p, SelectInSeq(u.values, LAMBDA name : name = u.values[i]) - 1)
        \o PutClass(in, p, Resolve(u.values[i]), v)

PutUnion(in, p, u, v) == PutMember(in, p, u, Chosen(p, u, v), v)

\* Kotlin counts letters, of which the values of an enum have one per byte.
PutShortText(p, bytes) == PutByte(p, Len(bytes)) \o bytes

PutEnum(p, v) == PutShortText(p, TextBytes(ToText(p, v)))

PutRef(in, p, d, v) ==
    CASE d.is = "enum" -> PutEnum(p, v)
      [] d.is = "class" -> PutClass(in, p, d, v)
      [] d.is = "union" -> PutUnion(in, p, d, v)

PutOption(in, p, T, v) ==
    IF v.is = "null" THEN <<0>> ELSE <<1>> \o in.put[p][T.of[1]][v]

\* struct.pack(">f", ...) and putFloat, the farthest number being the infinite.
PutFloat(h) == NumberBytes(Clipped(Single(h), WidthOf("float")), WidthOf("float"))

PutOf(in, p, T, v) ==
    CASE T.is \in WholeKinds -> NumberBytes(CHOOSE n \in Whole(p, v) : TRUE, WidthOf(T.is))
      [] T.is = "float" -> PutFloat(CHOOSE h \in Halves(p, v) : TRUE)
      [] T.is = "boolean" -> <<IF IsTrue(p, v) THEN 1 ELSE 0>>
      [] T.is = "string" -> PutText(ToText(p, v))
      [] T.is = "null" -> <<>>
      [] T.is = "array" -> PutArray(in, p, T, v)
      [] T.is = "map" -> PutMap(in, p, v)
      [] T.is = "option" -> PutOption(in, p, T, v)
      [] T.is = "ref" -> PutRef(in, p, Resolve(T.name), v)

----------------------------------------------------------------------------
\* deserialize(buffer): the value, and the bytes after it, or an exception.
Got(v, rest) == [ok |-> TRUE, v |-> v, rest |-> rest]
Raised == [ok |-> FALSE, v |-> Null, rest |-> <<>>]
Results == [ok : BOOLEAN, v : ValueSet, rest : Seq(Byte)]

\* How many bytes buffer[:n] has; Kotlin's buffers underflow instead, and
\* its arrays have no negative size.
PyCut(n, bytes) ==
    IF n > Len(bytes) THEN Len(bytes)
    ELSE IF n >= 0 THEN n
    ELSE IF Len(bytes) + n > 0 THEN Len(bytes) + n ELSE 0

KtUnderflows(n, bytes) == n \notin 0..Len(bytes)

Take(n, bytes) == SubSeq(bytes, 1, n)
Drop(n, bytes) == SubSeq(bytes, n + 1, Len(bytes))

\* Nothing is repeated a negative number of times.
Times(n) == IF n < 0 THEN 0 ELSE n

\* A number of a declared width: a byte has no sign in Python, and a single is
\* what was put as one.
NumberAs(p, is, n) ==
    IF p = "kotlin" \/ is = "float" THEN Number(is, n)
    ELSE Number("int", IF is = "byte" THEN n % 256 ELSE n)

GetBytes(p, is, w, bytes) ==
    IF Len(bytes) < w THEN Raised
    ELSE Got(NumberAs(p, is, NumberOf(Take(w, bytes))), Drop(w, bytes))

GetNumber(p, is, bytes) == GetBytes(p, is, WidthOf(is), bytes)

\* Python takes every byte but 0 for True, Kotlin only 1.
GetBoolean(p, bytes) ==
    IF bytes = <<>> THEN Raised
    ELSE Got(Bool(IF p = "python" THEN bytes[1] # 0 ELSE bytes[1] = 1), Tail(bytes))

GetText(p, n, bytes) ==
    IF p = "kotlin" /\ KtUnderflows(n, bytes) THEN Raised
    ELSE LET k == PyCut(n, bytes) IN Got(Text(TextOf(Take(k, bytes))), Drop(k, bytes))

\* What comes after a number that was read: here and below, its length first.
TextAfter(p, length) ==
    IF length.ok THEN GetText(p, length.v.n, length.rest) ELSE Raised

GetString(p, bytes) == TextAfter(p, GetNumber(p, "int", bytes))

\* Kotlin checks the text it has read against the enum, Python does not.
EnumOf(p, e, text) ==
    IF text.ok /\ (p = "kotlin" => text.v.t \in ToSet(e.values)) THEN text ELSE Raised

GetEnum(p, e, bytes) == EnumOf(p, e, TextAfter(p, GetNumber(p, "byte", bytes)))

\* One value after the other, as a list.
GetNext(in, p, T, done) ==
    LET next == in.get[p][T][done.rest]
    IN IF done.ok /\ next.ok
       THEN Got(List(Append(done.v.items, next.v)), next.rest) ELSE Raised

GetAll(in, p, types, bytes) ==
    Through(Got(List(<<>>), bytes),
            [i \in 1..Len(types) |-> [done \in Results |-> GetNext(in, p, types[i], done)]])

\* Kotlin has an array for each primitive kind, Python bytes for bytes.
Gathered(p, is, items) ==
    IF is \in IF p = "python" THEN {"byte"} ELSE NumberKinds \cup {"boolean"}
    THEN Array(is, items) ELSE List(items)

ItemsAfter(in, p, T, length) ==
    LET all == GetAll(in, p, [i \in 1..Times(length.v.n) |-> T], length.rest)
    IN IF \/ ~length.ok
          \/ p = "kotlin" /\ length.v.n < 0
          \/ ~all.ok
       THEN Raised
       ELSE Got(Gathered(p, T.is, all.v.items), all.rest)

GetArray(in, p, T, bytes) == ItemsAfter(in, p, T, GetNumber(p, "int", bytes))

\* A key and a value.
EntryOf(key, v) ==
    IF key.ok /\ v.ok THEN Got(Entry(key.v.t, v.v), v.rest) ELSE Raised

KeyAndValue(in, p, T, key) == EntryOf(key, in.get[p][T][key.rest])

\* Within their length: what is left of it is dropped.
EntryWithin(in, p, T, k, bytes) ==
    LET e == KeyAndValue(in, p, T, GetString(p, Take(k, bytes)))
    IN IF e.ok THEN Got(e.v, Drop(k, bytes)) ELSE Raised

\* unmergeHeader
EntryUnder(in, p, ordinal, length, bytes) ==
    IF ordinal \notin KnownOrdinals \/ (p = "kotlin" /\ KtUnderflows(length, bytes)) THEN Raised
    ELSE EntryWithin(in, p, OrdinalType(ordinal), PyCut(length, bytes), bytes)

EntryAfter(in, p, header) ==
    IF ~header.ok THEN Raised
    ELSE EntryUnder(in, p, header.v.n \div Weight[LengthWidth], header.v.n % Weight[LengthWidth],
                    header.rest)

GetEntry(in, p, bytes) == EntryAfter(in, p, GetNumber(p, "int", bytes))

\* An entry takes the place of one with the same key.
WithEntry(done, e) ==
    IF done.ok /\ e.ok
    THEN Got(Map(Append(Without(done.v.items, e.v.t), e.v)), e.rest) ELSE Raised

GetNextEntry(in, p, done) == WithEntry(done, GetEntry(in, p, done.rest))

EntriesAfter(in, p, count) ==
    IF ~count.ok THEN Raised
    ELSE Through(Got(Map(<<>>), count.rest),
                 [i \in 1..Times(count.v.n) |-> [done \in Results |-> GetNextEntry(in, p, done)]])

GetMap(in, p, bytes) == EntriesAfter(in, p, GetNumber(p, "short", bytes))

FieldsOf(class, all) ==
    IF ~all.ok THEN Raised
    ELSE Got(Map([k \in 1..Len(class.fields) |->
                     Entry(class.fields[k].name, all.v.items[k])]), all.rest)

GetClass(in, p, class, bytes) ==
    FieldsOf(class, GetAll(in, p, [k \in 1..Len(class.fields) |-> class.fields[k].type], bytes))

\* The position goes into the map, as the hint for the next who writes it.
MemberAfter(in, p, u, index) ==
    LET class == GetClass(in, p, Resolve(u.values[index.v.n + 1]), index.rest)
    IN IF ~index.ok \/ index.v.n \notin 0..(Len(u.values) - 1) \/ ~class.ok THEN Raised
       ELSE Got(Map(Append(class.v.items, Entry(":type", Number("int", index.v.n)))), class.rest)

GetUnion(in, p, u, bytes) == MemberAfter(in, p, u, GetNumber(p, "byte", bytes))

GetOption(in, p, T, bytes) ==
    IF bytes = <<>> THEN Raised
    ELSE IF bytes[1] = 0 THEN Got(Null, Tail(bytes)) ELSE in.get[p][T][Tail(bytes)]

GetRef(in, p, d, bytes) ==
    CASE d.is = "enum" -> GetEnum(p, d, bytes)
      [] d.is = "class" -> GetClass(in, p, d, bytes)
      [] d.is = "union" -> GetUnion(in, p, d, bytes)

GetOf(in, p, T, bytes) ==
    CASE T.is \in NumberKinds -> GetNumber(p, T.is, bytes)
      [] T.is = "boolean" -> GetBoolean(p, bytes)
      [] T.is = "string" -> GetString(p, bytes)
      [] T.is = "null" -> Got(Null, bytes)
      [] T.is = "array" -> GetArray(in, p, T.of[1], bytes)
      [] T.is = "map" -> GetMap(in, p, bytes)
      [] T.is = "option" -> GetOption(in, p, T.of[1], bytes)
      [] T.is = "ref" -> GetRef(in, p, Resolve(T.name), bytes)
      [] T.is = "unknown" -> Raised

----------------------------------------------------------------------------
\* The calls for all types, given the calls inside.
Codec(size(_, _, _), accepts(_, _, _), put(_, _, _), get(_, _, _)) ==
    [size    |-> [p \in Platforms |-> [T \in Types |-> [v \in ValueSet |-> size(p, T, v)]]],
     accepts |-> [p \in Platforms |-> [T \in Types |-> [v \in ValueSet |-> accepts(p, T, v)]]],
     put     |-> [p \in Platforms |-> [T \in Types |-> [v \in ValueSet |-> put(p, T, v)]]],
     get     |-> [p \in Platforms |-> [T \in Types |-> [b \in Seq(Byte) |-> get(p, T, b)]]]]

TooDeep ==
    Codec(LAMBDA p, T, v : 0, LAMBDA p, T, v : FALSE, LAMBDA p, T, v : <<>>, LAMBDA p, T, b : Raised)

CodecAround(in) ==
    Codec(LAMBDA p, T, v : SizeOf(in, p, T, v), LAMBDA p, T, v : AcceptsOf(in, p, T, v),
          LAMBDA p, T, v : PutOf(in, p, T, v), LAMBDA p, T, b : GetOf(in, p, T, b))

codec[d \in Nat] == IF d = 0 THEN TooDeep ELSE CodecAround(codec[d - 1])

Size(p, T, v) == codec[MaxNesting].size[p][T][v]
Accepts(p, T, v) == codec[MaxNesting].accepts[p][T][v]
Put(p, T, v) == codec[MaxNesting].put[p][T][v]
Get(p, T, bytes) == codec[MaxNesting].get[p][T][bytes]

============================================================================
