------------------------------- MODULE Values -------------------------------
(***************************************************************************)
(* The values callers hand to the Python and the Kotlin library and get    *)
(* back, how the libraries convert them, and the bytes of numbers.  A      *)
(* value is a record of one shape for all kinds: its kind, its number, its *)
(* text and its items.  Python has one kind of whole numbers, "int";       *)
(* Kotlin has four, and arrays of a primitive kind beside its lists.       *)
(***************************************************************************)
EXTENDS Integers, Sequences

CONSTANTS
    ShortWidth, IntWidth, LongWidth,   \* 2, 4 and 8 bytes in the code
    SingleDigits, DoubleDigits,        \* 24 and 53 binary digits of a float
    Texts,                             \* the texts in use, as both libraries see them
    Spells,                            \* the texts that spell a number, each with it
    MaxNesting                         \* how deep values are nested, and calls

Byte == 0..255
TextNames == {x.t : x \in Texts}

ASSUME WidthAssumption ==
    /\ {ShortWidth, IntWidth, LongWidth} \subseteq 1..8
    /\ ShortWidth < IntWidth /\ IntWidth < LongWidth

ASSUME DigitsAssumption ==
    /\ SingleDigits \in Nat /\ DoubleDigits \in Nat
    /\ SingleDigits <= DoubleDigits

Platforms == {"python", "kotlin"}

\* A text is its UTF-8, so many letters for Python and so many units of UTF-16
\* for Kotlin; white space to one of them need not be to the other.
ASSUME TextAssumption ==
    /\ Texts \subseteq [t : STRING, bytes : Seq(Byte), letters : Nat, units : Nat,
                        blank : SUBSET Platforms]
    /\ {"", "null", "true", "false", "None", "True", "False", "garbled", ":type"} \subseteq TextNames
    /\ \A x, y \in Texts : x.t = y.t \/ x.bytes = y.bytes => x = y

ASSUME NestingAssumption == MaxNesting \in Nat \ {0}

WholeKinds == {"byte", "short", "int", "long"}
NumberKinds == WholeKinds \cup {"float"}

\* A float is kept as the number of its halves.
Value(is, n, t, items) == [is |-> is, n |-> n, t |-> t, items |-> items]
Null == Value("null", 0, "", <<>>)
Bool(b) == Value("bool", IF b THEN 1 ELSE 0, "", <<>>)
Number(kind, n) == Value(kind, n, "", <<>>)
Text(t) == Value("text", 0, t, <<>>)
List(items) == Value("list", 0, "", items)
Array(kind, items) == Value("array", 0, kind, items)   \* Python: bytes, of kind "byte"
Entry(key, v) == Value("entry", 0, key, <<v>>)
Map(entries) == Value("map", 0, "", entries)

NoKey == "<null>"       \* the key None or null
EntryAt(v, key) == {i \in 1..Len(v.items) : v.items[i].t = key}
Has(v, key) == EntryAt(v, key) # {}
At(v, key) == v.items[CHOOSE i \in EntryAt(v, key) : TRUE].items[1]
KeysOf(v) == {v.items[i].t : i \in 1..Len(v.items)}

----------------------------------------------------------------------------
\* All values that are nested no deeper than MaxNesting.
Booleans == {Bool(FALSE), Bool(TRUE)}
Numbers == [is : NumberKinds, n : Int, t : {""}, items : {<<>>}]
TextValues == [is : {"text"}, n : {0}, t : TextNames, items : {<<>>}]
Arrays == [is : {"array"}, n : {0}, t : NumberKinds \cup {"boolean"}, items : Seq(Numbers \cup Booleans)]
Lists(S) == [is : {"list"}, n : {0}, t : {""}, items : Seq(S)]
Entries(S) == [is : {"entry"}, n : {0}, t : TextNames \cup {NoKey}, items : [{1} -> S]]
Maps(S) == [is : {"map"}, n : {0}, t : {""}, items : Seq(Entries(S))]

Unnested == {Null} \cup Booleans \cup Numbers \cup TextValues \cup Arrays
Around(S) == S \cup Lists(S) \cup Maps(S)
Nested[d \in Nat] == IF d = 0 THEN Unnested ELSE Around(Nested[d - 1])
ValueSet == Nested[MaxNesting]

ASSUME SpellsAssumption ==
    /\ DOMAIN Spells \subseteq TextNames
    /\ \A t \in DOMAIN Spells : Spells[t] \in Numbers /\ Spells[t].is \in {"int", "float"}

----------------------------------------------------------------------------
\* What a sequence of functions makes of x, one after the other.
Through(x, fs) ==
    LET upTo[i \in 0..Len(fs)] == IF i = 0 THEN x ELSE fs[i][upTo[i - 1]]
    IN upTo[Len(fs)]

\* 256^k
Weight[k \in Nat] == IF k = 0 THEN 1 ELSE 256 * Weight[k - 1]

\* What fits into w bytes with a sign.
InWidth(n, w) == n \div Weight[w - 1] \in -128..127

\* The last w bytes of a number, the highest first.
NumberBytes(n, w) == [i \in 1..w |-> (n \div Weight[w - i]) % 256]

\* The number that bytes stand for, and what their first one says of its sign.
NumberOf(bytes) ==
    Through(IF bytes[1] > 127 THEN -1 ELSE 0,
            [i \in 1..Len(bytes) |-> [n \in Int |-> n * 256 + bytes[i]]])

TextNamed(t) == CHOOSE x \in Texts : x.t = t
TextBytes(t) == TextNamed(t).bytes

\* Bytes that are none of them decode to some other text.
TextOf(bytes) ==
    IF \E x \in Texts : x.bytes = bytes
    THEN (CHOOSE x \in Texts : x.bytes = bytes).t ELSE "garbled"

----------------------------------------------------------------------------
(***************************************************************************)
(* Floats.  Python's have DoubleDigits, Kotlin's and those in a message    *)
(* SingleDigits.  A number that needs more digits becomes the nearest one  *)
(* that does not, of two the one whose last digit is even.                 *)
(***************************************************************************)
Pow2[k \in Nat] == IF k = 0 THEN 1 ELSE 2 * Pow2[k - 1]

Magnitude(n) == IF n < 0 THEN -n ELSE n

\* How many of its last digits a magnitude loses to have d of them.
Lost(m, d) ==
    CHOOSE k \in 0..m : m <= Pow2[d + k] /\ (k = 0 \/ Pow2[d + k - 1] < m)

RoundsUp(m, u) ==
    \/ 2 * (m % u) > u
    \/ 2 * (m % u) = u /\ (m \div u) % 2 = 1

\* m in units of u.
InUnits(m, u) == IF RoundsUp(m, u) THEN m \div u + 1 ELSE m \div u

Rounded(m, u) == u * InUnits(m, u)

Nearest(n, d) ==
    LET m == Rounded(Magnitude(n), Pow2[Lost(Magnitude(n), d)])
    IN IF n < 0 THEN -m ELSE m

Single(n) == Nearest(n, SingleDigits)
Held(p, n) == Nearest(n, IF p = "python" THEN DoubleDigits ELSE SingleDigits)

\* The number that fits into w bytes and comes closest.
Clipped(n, w) ==
    IF InWidth(n, w) THEN n ELSE IF n < 0 THEN -128 * Weight[w - 1] ELSE 128 * Weight[w - 1] - 1

----------------------------------------------------------------------------
\* str(value) and value.toString(), of scalars.
ToText(p, v) ==
    IF v.is = "text" THEN v.t
    ELSE IF v.is = "null" THEN IF p = "python" THEN "None" ELSE "null"
    ELSE IF v.is = "bool"
         THEN IF p = "python" THEN IF v.n = 1 THEN "True" ELSE "False"
                              ELSE IF v.n = 1 THEN "true" ELSE "false"
    ELSE LET texts == {t \in DOMAIN Spells :
                          /\ v.is \in NumberKinds /\ Spells[t].n = v.n
                          /\ v.is = "float" <=> Spells[t].is = "float"}
         IN IF texts = {} THEN "garbled" ELSE CHOOSE t \in texts : TRUE

\* What a value is as a whole number, if it is one: int(value) in Python,
\* which cuts the fraction off and counts the Booleans as 0 and 1 ...
PyWhole(v) ==
    IF v.is = "float" THEN {IF v.n < 0 THEN -((-v.n) \div 2) ELSE v.n \div 2}
    ELSE IF v.is \in WholeKinds \cup {"bool"} THEN {v.n}
    ELSE {Spells[t].n : t \in {u \in {v.t} \cap DOMAIN Spells :
                                   v.is = "text" /\ Spells[u].is = "int"}}

\* ... and obj.toString().toInt() in Kotlin, whose text must be one.
KtWhole(v) ==
    IF v.is \in WholeKinds THEN {v.n}
    ELSE {Spells[t].n : t \in {u \in {v.t} \cap DOMAIN Spells :
                                   v.is = "text" /\ Spells[u].is = "int"}}

Whole(p, v) == IF p = "python" THEN PyWhole(v) ELSE KtWhole(v)

\* How much a value is, if it is a number, before it is made a float ...
Amount(p, v) ==
    IF v.is = "float" THEN {v.n}
    ELSE IF v.is = "text" /\ v.t \in DOMAIN Spells /\ Spells[v.t].is = "float" THEN {Spells[v.t].n}
    ELSE IF v.is = "bool" /\ p = "kotlin" THEN {}
    ELSE {2 * n : n \in Whole(p, v)}

\* ... and as a float: float(value), obj.toString().toFloat().
Halves(p, v) == {Held(p, n) : n \in Amount(p, v)}

\* Python: value in [True, "true"], where 1 and 1.0 are equal to True.
PyTrue(v) == \/ v.is \in WholeKinds \cup {"bool"} /\ v.n = 1
             \/ v.is = "float" /\ v.n = 2
             \/ v.is = "text" /\ v.t = "true"

\* Kotlin: the text, whatever its case.
KtTrue(v) == ToText("kotlin", v) \in {"true", "True"}

IsTrue(p, v) == IF p = "python" THEN PyTrue(v) ELSE KtTrue(v)

----------------------------------------------------------------------------
\* The annotations.  Their arguments are kept in halves, one that is no number
\* as a negative one.
OrderNames == {"GreaterThan", "GreaterEquals", "LowerThan", "LowerEquals"}
LengthNames == {"MaxLength", "MinLength"}

\* What the constructors let through: a bound has nothing but digits, so that
\* it has no sign and no fraction.
WellFormed(rule) ==
    \/ rule.name = "NotBlank" /\ rule.values = <<>>
    \/ /\ rule.name \in OrderNames \cup LengthNames
       /\ Len(rule.values) = 1 /\ rule.values[1] >= 0 /\ rule.values[1] % 2 = 0

\* float(bound), asFloat()
Bound(p, rule) == IF rule.name = "NotBlank" THEN 0 ELSE Held(p, rule.values[1])

\* What the bound is compared with: the number a value converts to, or the
\* length of its text, which Kotlin has to make a float.
LengthOf(p, x) == IF p = "python" THEN 2 * x.letters ELSE Held(p, 2 * x.units)

Measure(p, rule, v) ==
    CASE rule.name = "NotBlank" -> {IF p \in TextNamed(ToText(p, v)).blank THEN 0 ELSE 1}
      [] rule.name \in LengthNames -> {LengthOf(p, TextNamed(ToText(p, v)))}
      [] rule.name \in OrderNames -> Halves(p, v)

Compares(name, h, bound) ==
    CASE name \in {"GreaterThan", "NotBlank"} -> h > bound
      [] name \in {"GreaterEquals", "MinLength"} -> h >= bound
      [] name = "LowerThan" -> h < bound
      [] name \in {"LowerEquals", "MaxLength"} -> h <= bound

\* resolveAnnotation(...).validate(value)
Admits(p, rule, v) ==
    /\ WellFormed(rule)
    /\ \E h \in Measure(p, rule, v) : Compares(rule.name, h, Bound(p, rule))

============================================================================
