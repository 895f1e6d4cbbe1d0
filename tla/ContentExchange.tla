-------------------------- MODULE ContentExchange --------------------------
(***************************************************************************)
(* A value that travels.  A caller of one library has it serialized for a  *)
(* type of the schema, a caller of either library reads the message and    *)
(* may have what came out serialized again, and so on for a few hops.  The *)
(* header is HeaderExchange's; a call's two passes are one step here, for  *)
(* nothing is shared between the calls.                                    *)
(***************************************************************************)
EXTENDS Content

CONSTANTS
    Cases,      \* the values callers start with: [on, type, value]
    MaxHops     \* how often a value is read

ASSUME CasesAssumption ==
    /\ Cases \subseteq [on : Platforms, type : FieldTypes, value : ValueSet]
    /\ MaxHops \in Nat

VARIABLES
    phase,      \* whether someone holds the value, sent it, or has failed
    origin,     \* the case it began with
    holder,     \* the platform of the last caller
    held,       \* the value that caller has
    wire,       \* the message
    sized,      \* the result of the size pass
    rest,       \* what a reader left of the message
    hops

vars == <<phase, origin, holder, held, wire, sized, rest, hops>>

TypeOK ==
    /\ phase \in {"held", "sent", "refused", "failed"}
    /\ origin \in Cases
    /\ holder \in Platforms
    /\ held \in ValueSet
    /\ wire \in Seq(Byte) /\ rest \in Seq(Byte)
    /\ sized \in Nat
    /\ hops \in 0..MaxHops

Init ==
    /\ phase = "held"
    /\ origin \in Cases
    /\ holder = origin.on
    /\ held = origin.value
    /\ wire = <<>> /\ sized = 0 /\ rest = <<>>
    /\ hops = 0

----------------------------------------------------------------------------
\* Python's buffer grows; Kotlin's has the size that was asked for, and is
\* returned whole.
Overflows(p, size, bytes) == p = "kotlin" /\ Len(bytes) > size

Message(p, size, bytes) ==
    IF p = "python" THEN bytes ELSE bytes \o [i \in 1..(size - Len(bytes)) |-> 0]

Send(accepts, size, bytes) ==
    IF accepts /\ ~Overflows(holder, size, bytes)
    THEN phase' = "sent" /\ sized' = size /\ wire' = Message(holder, size, bytes)
    ELSE phase' = "refused" /\ UNCHANGED <<wire, sized>>

Serialize ==
    /\ phase = "held" /\ hops < MaxHops
    /\ Send(Accepts(holder, origin.type, held), Size(holder, origin.type, held),
            Put(holder, origin.type, held))
    /\ UNCHANGED <<origin, holder, held, rest, hops>>

Receive(got) ==
    IF got.ok
    THEN phase' = "held" /\ held' = got.v /\ rest' = got.rest /\ hops' = hops + 1
    ELSE phase' = "failed" /\ UNCHANGED <<held, rest, hops>>

Deserialize(p) ==
    /\ phase = "sent"
    /\ holder' = p
    /\ Receive(Get(p, origin.type, wire))
    /\ UNCHANGED <<origin, wire, sized>>

Next == Serialize \/ \E p \in Platforms : Deserialize(p)

Spec == Init /\ [][Next]_vars

----------------------------------------------------------------------------
\* What a value means: its number whatever the kind, the default of a field
\* that is not given, the class of a union.  A declared byte means its eight
\* bits, which Python shows without a sign and Kotlin with one, and a float the
\* single that is nearest to it, which is as much as a message has room for.
Unkeyed(in, v) ==
    LET items == Keyed(v) IN Map([i \in 1..Len(items) |-> Entry(items[i].t, in[items[i].items[1]])])

PlainOf(in, v) ==
    CASE v.is \in WholeKinds -> Number("number", 2 * v.n)
      [] v.is = "float" -> Number("number", Single(v.n))
      [] v.is \in {"list", "array"} -> List([i \in 1..Len(v.items) |-> in[v.items[i]]])
      [] v.is = "map" -> Unkeyed(in, v)
      [] OTHER -> v

NothingPlain == [v \in ValueSet |-> Null]
PlainAround(in) == [v \in ValueSet |-> PlainOf(in, v)]
plain[d \in Nat] == IF d = 0 THEN NothingPlain ELSE PlainAround(plain[d - 1])

FieldMeant(f, v) ==
    IF Has(v, f.name) /\ (At(v, f.name).is # "null" \/ f.type.is = "option") THEN At(v, f.name)
    ELSE IF f.default # <<>> THEN f.default[1] ELSE Null

\* The class of a union a value is of: the one its hint names or, without a
\* hint, the one that has its keys, on either platform.
Members(u, v) ==
    {i \in 1..Len(u.values) :
        IF Has(v, ":type") THEN Hints(u, i, v)
        ELSE KeysOf(v) = NamesOf(Resolve(u.values[i]))}

MemberOf(u, v) == Resolve(u.values[Min(Members(u, v))])

ClassMeaning(in, p, class, v) ==
    Map([k \in 1..Len(class.fields) |->
            LET f == class.fields[k]
            IN Entry(f.name, in[p][f.type][FieldMeant(f, v)])])

MeaningOf(in, p, T, v) ==
    CASE T.is \in WholeKinds ->
            LET n == CHOOSE n \in Whole(p, v) : TRUE
            IN Number("number", 2 * IF T.is = "byte" THEN n % 256 ELSE n)
      [] T.is = "float" -> Number("number", Single(CHOOSE h \in Halves(p, v) : TRUE))
      [] T.is = "boolean" -> Bool(IsTrue(p, v))
      [] T.is = "string" -> Text(ToText(p, v))
      [] T.is = "array" -> List([i \in 1..Len(v.items) |-> in[p][T.of[1]][v.items[i]]])
      [] T.is = "map" -> plain[MaxNesting][v]
      [] T.is = "option" -> IF v.is = "null" THEN Null ELSE in[p][T.of[1]][v]
      [] T.is = "ref" ->
            LET d == Resolve(T.name)
            IN CASE d.is = "enum" -> Text(ToText(p, v))
                 [] d.is = "class" -> ClassMeaning(in, p, d, v)
                 [] d.is = "union" ->
                       Entry(MemberOf(d, v).name, ClassMeaning(in, p, MemberOf(d, v), v))

NothingMeant == [p \in Platforms |-> [T \in FieldTypes |-> NothingPlain]]
MeaningAround(in) ==
    [p \in Platforms |-> [T \in FieldTypes |-> [v \in ValueSet |-> MeaningOf(in, p, T, v)]]]
meaning[d \in Nat] == IF d = 0 THEN NothingMeant ELSE MeaningAround(meaning[d - 1])

Meaning(p, T, v) == meaning[MaxNesting][p][T][v]

MeaningAtFirst == Meaning(origin.on, origin.type, origin.value)
MeaningNow == Meaning(holder, origin.type, held)

----------------------------------------------------------------------------
\* Values that are of their type, for a caller of a platform.
IsWhole(p, is, v) ==
    /\ v.is \in WholeKinds
    /\ IF is = "byte" /\ p = "python" THEN v.n \in Byte ELSE InWidth(v.n, WidthOf(is))

\* A number of any kind.  It need not be one that a float can hold, but a float
\* that a caller has is one that the caller's platform can.
IsFloat(p, v) ==
    /\ v.is \in NumberKinds
    /\ v.is = "float" => Held(p, v.n) = v.n
    /\ \A h \in Halves(p, v) : InWidth(Single(h), WidthOf("float"))

\* A length that an int can tell.
Counted(n) == InWidth(n, IntWidth)
IsText(v) == v.is = "text" /\ Counted(Len(TextBytes(v.t)))

\* An entry fits its length field, and still does if Python passes it on: what
\* Kotlin wrote as a byte or a short is an int from then on.
Fits(call, p, e) == \A q \in {p, "python"} : EntrySize(call, q, e) < Weight[LengthWidth]

\* What an untyped map may hold: texts, Booleans, numbers (no negative byte:
\* nothing in the message says it was one), null, maps of these and lists of
\* one kind of these, as far as counts and lengths fit their fields.
StorableMap(in, p, v) ==
    /\ NoKey \notin KeysOf(v)
    /\ \A i, k \in 1..Len(v.items) : v.items[i].t = v.items[k].t => i = k
    /\ InWidth(Len(v.items), ShortWidth)
    /\ \A i \in 1..Len(v.items) :
          /\ in.storable[p][v.items[i].items[1]]
          /\ Fits(codec[in.left], p, v.items[i])

\* The items of a Python list whose first number is long are written as such.
StorableList(in, p, v) ==
    /\ Counted(Len(v.items))
    /\ \A i \in 1..Len(v.items) :
          LET x == v.items[i]
              T == ValType(p, v.items[1])
          IN /\ x.is \notin {"null", "list"}
             /\ in.storable[p][x]
             /\ \/ ValType(p, x) = T
                \/ p = "python" /\ x.is \in WholeKinds /\ T.is = "long"

Storable(in, p, v) ==
    CASE v.is = "text" -> IsText(v)
      [] v.is \in {"bool", "null"} -> TRUE
      [] v.is = "float" -> IsFloat(p, v)
      [] v.is \in WholeKinds -> IF p = "python" THEN IsWhole(p, "long", v)
                                ELSE IsWhole(p, v.is, v) /\ (v.is = "byte" => v.n >= 0)
      [] v.is = "map" -> StorableMap(in, p, v)
      [] v.is = "list" -> StorableList(in, p, v)
      [] OTHER -> FALSE

LegalItems(in, p, T, v) ==
    /\ IsItems(p, v) /\ (v.is = "array" => v.t = T.is)
    /\ Counted(Len(v.items))
    /\ \A i \in 1..Len(v.items) : in.legal[p][T][v.items[i]]

\* A text of an enum.  Kotlin reads its length as a signed byte.
IsValueOf(e, t) == t \in ToSet(e.values) /\ Len(TextBytes(t)) <= 127

\* Defaults that convert to their type.  Python does not convert a byte's.
TextFits(p, T, t) ==
    CASE T.is \in WholeKinds ->
            /\ T.is = "byte" => p = "kotlin"
            /\ t \in DOMAIN Spells /\ Spells[t].is = "int" /\ InWidth(Spells[t].n, WidthOf(T.is))
      [] T.is = "float" ->
            /\ t \in DOMAIN Spells
            /\ \A h \in Halves(p, Text(t)) : InWidth(Single(h), WidthOf("float"))
      [] T.is = "string" -> IsText(Text(t))
      [] T.is = "ref" -> Resolve(T.name).is = "enum" /\ IsValueOf(Resolve(T.name), t)
      [] OTHER -> T.is = "boolean"

DefaultFits(p, T, v) ==
    \/ v.is = "null" /\ T.is = "option"
    \/ LET D == IF T.is = "option" THEN T.of[1] ELSE T
       IN \/ v = List(<<>>) /\ D.is = "array"
          \/ v = Map(<<>>) /\ D.is = "map"
          \/ v.is = "text" /\ TextFits(p, D, v.t)

\* A default may be left to the library, but not replaced by null.
LegalClass(in, p, class, v) ==
    /\ v.is = "map"
    /\ \A i, k \in 1..Len(class.fields) : class.fields[i].name = class.fields[k].name => i = k
    /\ \A k \in 1..Len(class.fields) :
          LET f == class.fields[k]
          IN /\ ~Missing(f, v)
             /\ IF Has(v, f.name) THEN in.legal[p][f.type][At(v, f.name)]
                ELSE in.left >= 2 /\ DefaultFits(p, f.type, FieldValue(f, v))
             /\ \A r \in f.rules : Admits(p, r, FieldValue(f, v))

\* Without a hint no class before its own may have all keys of a value.  The
\* class is one of the first 128: Kotlin reads a position as a signed byte.
LegalUnion(in, p, u, v) ==
    /\ v.is = "map"
    /\ \E k \in Members(u, v) : k <= 128
    /\ LegalClass(in, p, MemberOf(u, v), v)
    /\ \/ Has(v, ":type")
       \/ \A i \in 1..Len(u.values) : KeysOf(v) \subseteq NamesOf(Resolve(u.values[i]))
                                      => \E k \in Members(u, v) : k <= i

LegalOf(in, storable, p, T, v) ==
    CASE T.is \in WholeKinds -> IsWhole(p, T.is, v)
      [] T.is = "float" -> IsFloat(p, v)
      [] T.is = "boolean" -> v.is = "bool"
      [] T.is = "string" -> IsText(v)
      [] T.is = "array" -> LegalItems(in, p, T.of[1], v)
      [] T.is = "map" -> v.is = "map" /\ storable[p][v]
      [] T.is = "option" -> v.is = "null" \/ in.legal[p][T.of[1]][v]
      [] T.is = "ref" ->
            LET d == Resolve(T.name)
            IN CASE d.is = "enum" -> v.is = "text" /\ IsValueOf(d, v.t)
                 [] d.is = "class" -> LegalClass(in, p, d, v)
                 [] d.is = "union" -> LegalUnion(in, p, d, v)

\* Values that are as deep as the calls for them may be.
NoneIsLegal ==
    [left     |-> 0,
     storable |-> [p \in Platforms |-> [v \in ValueSet |-> FALSE]],
     legal    |-> [p \in Platforms |-> [T \in FieldTypes |-> [v \in ValueSet |-> FALSE]]]]

LegalBeside(in, storable) ==
    [left     |-> in.left + 1,
     storable |-> storable,
     legal    |-> [p \in Platforms |-> [T \in FieldTypes |-> [v \in ValueSet |->
                      LegalOf(in, storable, p, T, v)]]]]

LegalAround(in) ==
    LegalBeside(in, [p \in Platforms |-> [v \in ValueSet |-> Storable(in, p, v)]])

lawful[d \in Nat] == IF d = 0 THEN NoneIsLegal ELSE LegalAround(lawful[d - 1])

Legal(p, T, v) == lawful[MaxNesting].legal[p][T][v]

LegalAtFirst == Legal(origin.on, origin.type, origin.value)

----------------------------------------------------------------------------
\* A value of its type is never refused, whether a caller made it or another
\* call has read it: the conversions, annotations and size passes of both
\* libraries let it through.
LegalIsAccepted ==
    phase = "refused" => ~Legal(holder, origin.type, held)

\* A message made of a value of its type is read by both libraries.
SentIsRead ==
    phase = "failed" => ~LegalAtFirst

\* Through any chain of Python and Kotlin callers a value keeps its meaning
\* (its numbers, the defaults that were filled in, the class of its union),
\* and each reader takes the whole message.
MeaningSurvives ==
    phase = "held" /\ hops > 0 /\ LegalAtFirst =>
        MeaningNow = MeaningAtFirst /\ rest = <<>>

\* The size pass foresees the bytes of the serialize pass, for every value
\* that is accepted: Kotlin allocates that much and returns all of it.
SizeIsExact ==
    phase = "sent" => Len(Put(holder, origin.type, held)) = sized

\* A class as if it had no annotations.
Unruled(d) ==
    [d EXCEPT !.fields = [k \in 1..Len(d.fields) |-> [d.fields[k] EXCEPT !.rules = {}]]]

\* What no conversion on the way changes: a text, and how large a number is.
\* A byte is left out, for Kotlin reads 200 as -56, and so is the text of a
\* number, for a float 3 is read as 3.0.
Measured(T, r) ==
    LET D == IF T.is = "option" THEN T.of[1] ELSE T
    IN D.is = "string" \/ (D.is \in NumberKinds \ {"byte"} /\ r.name \in OrderNames)

\* An annotation looks at a value, and at its bound, alike in both libraries.
\* Not where their floats or their lengths differ: 3.00000001 is greater than
\* 3 in Python but not in Kotlin, and a letter beyond 2^16 counts once or twice.
Alike(r, v) ==
    /\ Measure("python", r, v) = Measure("kotlin", r, v)
    /\ Bound("python", r) = Bound("kotlin", r)

\* What the annotations of a class demand of the fields of an accepted value
\* holds of the value each later caller has, after all conversions on the way,
\* where the two libraries mean the same by it.
RulesHold ==
    phase = "held" /\ hops > 0 /\ origin.type.is = "ref" =>
        LET d == Resolve(origin.type.name)
        IN d.is = "class" /\ LegalClass(lawful[MaxNesting - 1], origin.on, Unruled(d), origin.value) =>
              \A k \in 1..Len(d.fields) :
                  LET f == d.fields[k]
                      v == FieldValue(f, origin.value)
                  IN v.is # "null" =>
                        \A r \in f.rules :
                            Measured(f.type, r) /\ Alike(r, v) => Admits(holder, r, At(held, f.name))

============================================================================
