----------------------------- MODULE TypedMaps -----------------------------
(***************************************************************************)
(* The map that deserialize returns.  It has the schema and checks each    *)
(* access against the class of the message: map[key], the typed getters,   *)
(* the plain get of a dict or a HashMap, and get_value.  A reader walks    *)
(* from the map of a message into the maps of its references.              *)
(***************************************************************************)
EXTENDS Content

CONSTANTS
    Messages,  \* [on, root, implicit, ns, value]: what was sent, and is read on
    Asked,     \* the keys readers ask for
    MaxDepth   \* how far a reader walks

ASSUME MessagesAssumption ==
    /\ \A m \in Messages : m.on \in Platforms /\ {m.implicit, m.ns} \subseteq BOOLEAN
    /\ MaxDepth \in Nat

VARIABLES
    message,   \* the message that was deserialized
    at,        \* the map the reader has come to
    truth,     \* history: the class and the value the sender had there
    access,    \* the last access: its operation and its key
    answer,    \* what it returned
    depth

vars == <<message, at, truth, access, answer, depth>>

---------------------------------------------------------------------------
(***************************************************************************)
(* A typed map is its class and what it was made of: the plain map of the  *)
(* message or, in Python, another typed map.  An answer is a plain value,  *)
(* a typed map, or an exception.                                           *)
(***************************************************************************)
Plain(v) == [ok |-> TRUE, v |-> v, map |-> <<>>]
Typed(o) == [ok |-> TRUE, v |-> Null, map |-> <<o>>]
Raises == [ok |-> FALSE, v |-> Null, map |-> <<>>]
MapOf(class, source) == [class |-> class, under |-> source.map, raw |-> source.v]
IsMapping(x) == x.map # <<>> \/ x.v.is = "map"
IsNull(x) == x.map = <<>> /\ x.v.is = "null"

FieldsNamed(class, key) == SelectSeq(Resolve(class).fields, LAMBDA f : f.name = key)
Declares(class, key) == FieldsNamed(class, key) # <<>>
TypeOf(class, key) == FieldsNamed(class, key)[1].type

IsDefined(p, class, key) ==
    \/ key = ":type"
    \/ p = "kotlin" /\ key = ":namespace"
    \/ Declares(class, key)
IsOptional(class, key) == Declares(class, key) /\ TypeOf(class, key).is = "option"
IsRefType(class, key) == Declares(class, key) /\ TypeOf(class, key).is = "ref"

\* Mutant: the first class of a union, whatever the message says.
FirstClass(u, hint) == Plain(Text(u.values[1]))

\* Mutant: the union itself.
UnionItself(u, hint) == Plain(Text(u.name))

\* The class of a union, by the position or the name under ':type'.
HintedClass(u, hint) ==
    IF ~hint.ok THEN Raises
    ELSE IF IsNull(hint) THEN Plain(Text(u.values[1]))
    ELSE IF hint.v.is = "text" THEN hint
    ELSE IF hint.v.n \in 0..(Len(u.values) - 1) THEN Plain(Text(u.values[hint.v.n + 1]))
    ELSE Raises

\* None and null are answers for an optional field only.
NullOf(class, key, null) == IF IsOptional(class, key) THEN null ELSE Raises

RECURSIVE Item(_, _, _)

\* raw_map[key], which asks the typed map below where there is one.
RawItem(p, o, key) ==
    IF o.under # <<>> THEN Item(p, o.under[1], key)
    ELSE IF Has(o.raw, key) THEN Plain(At(o.raw, key))
    ELSE IF p = "python" THEN Raises ELSE Plain(Null)

\* The map of a reference: Python takes an enum's text for a map and fails.
Wrap(p, d, source) ==
    CASE d.is = "enum" -> IF p = "python" THEN Raises ELSE source
      [] d.is # "enum" /\ ~IsMapping(source) -> Raises
      [] d.is = "class" /\ IsMapping(source) -> Typed(MapOf(d.name, source))
      [] d.is = "union" /\ IsMapping(source) ->
           LET hint == RawItem(p, MapOf(d.name, source), ":type")
               class == HintedClass(d, hint)
           IN  IF class.ok THEN Typed(MapOf(class.v.t, source)) ELSE Raises

\* __getitem__ and get.
Item(p, o, key) ==
    IF ~IsDefined(p, o.class, key) THEN Raises
    ELSE LET got == RawItem(p, o, key)
         IN  IF ~got.ok THEN Raises
             ELSE IF IsNull(got) THEN NullOf(o.class, key, got)
             ELSE IF IsRefType(o.class, key)
             THEN Wrap(p, Resolve(TypeOf(o.class, key).name), got)
             ELSE got

---------------------------------------------------------------------------
\* The getters.

NumberGetters == WholeKinds \cup {"float"}
Getters == NumberGetters \cup {"ref", "string", "map", "bytearray"}

PyFitsGetter(want, x) ==
    CASE want \in {"ref", "map"} -> IsMapping(x)
      [] want = "string" -> x.map = <<>> /\ x.v.is = "text"
      [] want = "bytearray" -> x.map = <<>> /\ x.v.is = "array"
      [] want = "float" -> x.map = <<>> /\ x.v.is = "float"
      [] want \in WholeKinds -> x.map = <<>> /\ x.v.is \in {"int", "bool"}

KtFitsGetter(want, x) ==
    CASE want = "ref" -> x.map # <<>>
      [] want = "map" -> IsMapping(x)
      [] want = "string" -> x.map = <<>> /\ x.v.is = "text"
      [] want = "bytearray" -> x.map = <<>> /\ x.v.is = "array" /\ x.v.t = "byte"
      [] want \in NumberGetters -> x.map = <<>> /\ x.v.is \in NumberKinds

FitsGetter(p, want, x) ==
    IF p = "python" THEN PyFitsGetter(want, x) ELSE KtFitsGetter(want, x)

\* Mutant: the last byte counts as the number's sign.
WrappedShort(n, w) == n % Weight[w]

\* Kotlin's Number.toX(): what is too wide wraps, but a float, whose fraction
\* is cut off, is made the closest int or long before.
Wrapped(n, w) == ((n + Weight[w] \div 2) % Weight[w]) - Weight[w] \div 2
Cut(v) == IF v.is # "float" THEN v.n ELSE IF v.n < 0 THEN -((-v.n) \div 2) ELSE v.n \div 2
ToWhole(want, v) ==
    IF v.is = "float" THEN Clipped(Cut(v), IF want = "long" THEN LongWidth ELSE IntWidth) ELSE v.n
ToKind(want, v) ==
    IF want = "float" THEN Number("float", CHOOSE h \in Halves("kotlin", v) : TRUE)
    ELSE Number(want, Wrapped(ToWhole(want, v), WidthOf(want)))

\* Python's get_ref gives the map of the reference the class of this map.
Getter(p, o, want, key) ==
    LET got == Item(p, o, key)
    IN  IF ~got.ok \/ ~FitsGetter(p, want, got) THEN Raises
        ELSE IF want = "ref" /\ p = "python" THEN Typed(MapOf(o.class, got))
        ELSE IF want \in NumberGetters /\ p = "kotlin" THEN Plain(ToKind(want, got.v))
        ELSE got

RECURSIVE Flat(_)
\* The plain map below, which is what a dict was filled with.
Flat(o) == IF o.under = <<>> THEN o.raw ELSE Flat(o.under[1])

\* dict.get(key), which __getitem__ does not see, and getOrDefault(key, null).
Fetch(p, o, key) ==
    IF p = "kotlin" /\ ~IsDefined(p, o.class, key) THEN Raises
    ELSE Plain(IF Has(Flat(o), key) THEN At(Flat(o), key) ELSE Null)

GetValue(p, o) == IF p = "python" THEN Fetch(p, o, "value") ELSE Item(p, o, "value")

---------------------------------------------------------------------------
\* What the sender had: the class of a union is the one with its keys.
ClassSent(name, v) ==
    LET d == Resolve(name)
    IN  CASE d.is = "class" -> name
          [] d.is = "union" ->
               (CHOOSE n \in ToSet(d.values) : NamesOf(Resolve(n)) = KeysOf(v))
          [] OTHER -> ""

Sent(T, v) ==
    CASE v.is = "null" -> [class |-> "", v |-> v]
      [] T.is = "ref" /\ v.is # "null" -> [class |-> ClassSent(T.name, v), v |-> v]
      [] T.is = "option" /\ v.is # "null" ->
           [class |-> IF T.of[1].is = "ref" THEN ClassSent(T.of[1].name, v) ELSE "", v |-> v]
      [] OTHER -> [class |-> "", v |-> v]

SentUnder(there, key) == Sent(TypeOf(there.class, key), At(there.v, key))

\* The message as its reader has it, with the name of a namespace.
RootMap(m) ==
    LET T == RefTo(m.root)
        got == Get(m.on, T, Put(m.on, T, m.value)).v
        named == IF m.ns THEN Map(Append(got.items, Entry(":namespace", Text("N")))) ELSE got
    IN  Wrap(m.on, Resolve(m.root), Plain(named)).map[1]

NoAccess == [op |-> "none", key |-> ""]

Init ==
    /\ message \in Messages
    /\ at = RootMap(message)
    /\ truth = Sent(RefTo(message.root), message.value)
    /\ access = NoAccess /\ answer = Raises
    /\ depth = 0

\* A typed map keeps nothing of an access, so one at each place is enough.
Accesses(op, key, result) ==
    /\ access = NoAccess
    /\ access' = [op |-> op, key |-> key]
    /\ answer' = result
    /\ UNCHANGED <<message, at, truth, depth>>

Index(key) == Accesses("item", key, Item(message.on, at, key))
GetTyped(want, key) == Accesses(want, key, Getter(message.on, at, want, key))
GetPlainly(key) == Accesses("get", key, Fetch(message.on, at, key))

\* In Python every map of a message has get_value, in Kotlin that of an
\* implicit class.
GetTheValue ==
    /\ depth = 0 /\ (message.on = "kotlin" => message.implicit)
    /\ Accesses("value", "value", GetValue(message.on, at))

\* The reader goes on with the map that was returned.
Enter ==
    /\ answer.map # <<>> /\ depth < MaxDepth
    /\ at' = answer.map[1]
    /\ truth' = IF truth.class # "" THEN SentUnder(truth, access.key)
                ELSE [class |-> "", v |-> At(truth.v, access.key)]
    /\ depth' = depth + 1
    /\ access' = NoAccess /\ answer' = Raises
    /\ UNCHANGED message

Next ==
    \/ \E key \in Asked :
           \/ Index(key)
           \/ \E want \in Getters : GetTyped(want, key)
           \/ GetPlainly(key)
    \/ GetTheValue
    \/ Enter

Spec == Init /\ [][Next]_vars

---------------------------------------------------------------------------
\* Properties.

Specials == {":type", ":namespace"}
ClassNames == {Declarations[i].name : i \in {j \in DOMAIN Declarations : Declarations[j].is = "class"}}

\* A typed map is of a class, never of a union or an enum, and what it is
\* made of is a map.
TypeOK ==
    /\ message \in Messages /\ depth \in 0..MaxDepth
    /\ \A o \in {at} \cup {answer.map[i] : i \in DOMAIN answer.map} :
           o.class \in ClassNames /\ Flat(o).is = "map"
    /\ answer.ok \in BOOLEAN /\ (answer.map # <<>> => answer.ok)

IsOfSendersClass == truth.class # "" /\ at.class = truth.class

RECURSIVE Bare(_)
\* A value without the names the libraries add.
Bare(v) ==
    LET own == SelectSeq(v.items, LAMBDA e : e.is # "entry" \/ e.t \notin Specials)
    IN  [v EXCEPT !.items = [i \in DOMAIN own |-> Bare(own[i])]]

\* Kotlin asks for a number as one of any kind, that may be too narrow for it
\* or, if it is a float, have too few digits.
IsSameNumber(v, w) ==
    IF v.is = "float" THEN v.n = Single(IF w.is = "float" THEN w.n ELSE 2 * w.n)
    ELSE InWidth(Cut(w), WidthOf(v.is)) => v.n = Cut(w)

\* Whatever the access and however the reader came there, what is answered is
\* the value that the sender put at that place of the message: also through a
\* map of Python's get_ref, which has the class of another map in front of it,
\* and which answers under a key that only both classes declare.
AnswersAreTheMessages ==
    answer.ok /\ truth.class # "" /\ Declares(truth.class, access.key)
        /\ ~(access.op \in {"get", "value"} /\ ~Has(truth.v, access.key)) =>
            LET sent == At(truth.v, access.key)
                got == IF answer.map = <<>> THEN answer.v ELSE Flat(answer.map[1])
            IN  IF access.op \in NumberGetters /\ message.on = "kotlin"
                THEN IsSameNumber(got, sent) ELSE Bare(got) = Bare(sent)

\* A checked access to a declared field answers: with nothing only where the
\* field is optional, and with a map of the class that the sender meant, that
\* of a union being told from its number alone.  Python cannot answer enums.
DeclaredIsAnswered ==
    access.op = "item" /\ IsOfSendersClass /\ Declares(truth.class, access.key) =>
        LET T == TypeOf(truth.class, access.key)
            isEnum == T.is = "ref" /\ Resolve(T.name).is = "enum"
        IN  \/ message.on = "python" /\ isEnum
            \/ /\ answer.ok
               /\ IsNull(answer) <=> At(truth.v, access.key).is = "null"
               /\ T.is = "ref" /\ ~isEnum =>
                    answer.map[1].class = SentUnder(truth, access.key).class

\* The map that get_ref returns validates each access on it against the class
\* of the reference.
RefIsOfItsClass ==
    answer.ok /\ access.op = "ref" /\ IsOfSendersClass /\ SentUnder(truth, access.key).class # ""
        => answer.map[1].class = SentUnder(truth, access.key).class
===========================================================================
