# Dynabuffers in TLA+

Dynabuffers serializes dictionaries against a schema that is parsed at run
time, without generated code.  A message is a header, which selects a namespace
of the schema, and the content of that namespace's root class, field after
field, with no names or tags in it: whoever reads it must arrive at the same
declarations, in the same order, as whoever wrote it.  There are a Python and a
Kotlin library that exchange messages, and a JavaScript stub.

This directory models the libraries in TLA+, checks the models with TLC and
proves what matters most with TLAPS.  `PROJECT.json` holds the lists: runs,
mutants (a change to the model, of the kind a bug in the code would be, that
each checked property must notice), the source lines each definition stands
for, findings, hazards and theorems.

Paths below are relative to `src/dynabuffers-python/dynabuffers` (PY) and
`src/dynabuffers-java/src/main/kotlin/dynabuffers` (KT).

## Inventory

| Component | State | Operations | What makes it correct |
|---|---|---|---|
| Namespace resolution (`NamespaceResolver`) | none; reads the parsed tree | by dotted names, by inference, by positions read from a header | what is written as positions is read as the namespace that was named; the default is the innermost of the only chain |
| Header (`header/Header`, `Subbyte`) | none | size, serialize, deserialize | depth and positions survive 3 and 4 bits; both libraries write and read the same bytes |
| Root element (`header/RootElement`) | none; resolves the namespace anew in each pass | size, serialize, deserialize | header and content speak of one namespace; version and schema are checked before content is read |
| Engine (`DynabuffersEngine`) | the listeners | serialize, deserialize, add_listener | a message says what the caller's dict meant; calls do not see each other |
| Byte buffer (PY `api/ISerializable`) | `buffer`: the default argument, a private copy, or the caller's own array | put, get, getInt .. | a call never writes into bytes it shares |
| Classes and fields (`ast/ClassType`, `ast/FieldType`) | none; PY writes `None` into the caller's dict | size, serialize, deserialize | the two passes agree on which fields take part and how long they are; a missing field is found first |
| Registry (`Registry`) | the schema in scope, the listeners | resolve, addNotification, resolveAnnotation | listeners hear of what is deprecated |
| Datatypes, unions, enums (`ast/datatype`, `ast/UnionType`, `ast/EnumType`) | none | size, serialize, deserialize | what is written is read back, on either platform |
| Annotations (`ast/annotation`) | none | validate | a refused value is never sent |
| Typed maps (`api/map`) | the map, the class it belongs to | getters | a getter returns the value under its type or raises |
| Schema front end (`DynabuffersVisitor`, `TypeValidator`, `Dynabuffers`) | the text of the resource, the types used and available so far | append, parse, one visit per declaration | the tree is the schema its author wrote; every used type is declared |
| Generated parser (`antlr/DynabuffersParser`) | the place in the token stream | one method per rule | every token lands in the rule it belongs to |
| Lexer, generated listener, JavaScript stub, Kotlin exception listener, build scripts | - | - | not modelled |

How they interact: a caller's thread calls the engine; the engine builds a root
element and a registry for the call, lets the root element *size* the value,
makes a buffer, and lets it *serialize* the value.  Both passes walk the same
declarations over the same dict, which belongs to the caller, and resolve the
namespace from that dict four times over.  The listeners are called back in the
middle of the second pass.  `deserialize` wraps the caller's bytearray, reads
the header byte by byte off its front, looks the namespace up and lets the root
class read its fields.  The caller gets a map that has the schema, and asks it for
keys.  Before all this stands the schema: a text, or pieces of text collected in a
resource, is parsed, validated and turned into the tree the engine is built on.

What is hard about it, and hardly reached by a test, is listed line by line
under `hazards` in `PROJECT.json`.  In short:

* *Borrowed state.*  Python writes `':namespace'` and `None` into the dict of
  the caller, pops bytes off the bytearray of the caller, and starts every
  buffer from one default argument.  The library takes no lock and makes no
  copy.
* *Two passes.*  Whatever the second pass finds must be what the first found,
  on a dict the first pass has changed.
* *Partial failure.*  A call may fail after it changed the dict, told the
  listeners, consumed a part of the array.
* *Bit widths.*  3 bits of depth, 4 bits per position, signed bytes on the JVM.
* *Two views of a schema.*  The validator decides on texts of the parse tree
  what the registry resolves in lists of types; the visitor finds the parts of a
  declaration by their place among its children.
* *No tags.*  A byte too many or too few shifts everything behind it.

Messages, files, timers and retries there are none; a crash leaves nothing
behind, as nothing is stored.

## Modules

| Module | Models |
|---|---|
| `Namespaces` | the schema's namespaces as a forest of paths, and `NamespaceResolver` of both platforms: by names, by inference, by positions |
| `Header` | the header as bytes: widths, packing, unpacking, and the two conversions in which Kotlin differs |
| `HeaderExchange` | one header from a writer to a reader, each Python or Kotlin |
| `Engine` | the Python engine under concurrent calls: `DynabuffersEngine`, `RootElement`, `ByteBuffer`, `ClassType`, `FieldType`, `Registry.addNotification`, with byte, string and option types |
| `Transport` | what an engine promises its clients, without bytes, passes or buffers |
| `EngineTransport` | the refinement mapping: `Engine` as an instance of `Transport` |
| `Values` | values of both platforms, their conversions, the bytes of numbers, the annotations |
| `Content` | the content codec of both platforms: size, refusal, bytes and reading of every type, with classes, enums and unions |
| `ContentExchange` | a value that is serialized, read by either library, and serialized again |
| `SchemaParser` | the grammar as `DynabuffersParser` walks it: from tokens to a parse tree |
| `SchemaFront` | from a schema text to the tree of an engine: resource, parse, visitor, type validator, root type, references |
| `TypedMaps` | `DynabuffersMap` and `ImplicitDynabuffersMap` of both platforms: index access, typed getters, `get_ref`, `get_value`, and walks through references |
| `MCHeaderExchange`, `MCEngine`, `MCContentExchange`, `MCSchemaFront`, `MCTypedMaps` | schemas, dicts, values and callers for TLC |
| `HeaderLemmas`, `FlattenLemmas`, `Recursion` | facts about the operators, and about recursive functions, proved |
| `HeaderProofs`, `EngineProofs`, `EngineDeliveryProofs`, `ContentProofs`, `ReadBackProofs` | the theorems |

### Namespaces and Header

A namespace is the path of positions that leads to it, as in
`NamespaceDescription.path`; `<<>>` is the root of the schema and stands for
`None` / `AbsentNamespace`.  The walks that the code does recursively are stated
by what they arrive at (`ArrivesAt`, `EndsChain`): the first namespace of a name
at each level, the end of the only chain.  Both libraries walk alike.

Bytes are 0..255.  `Packable` is what the `Subbyte` constructor lets through;
`Compress`, `PathBytes`, `Waypoints` are the packing and unpacking.  Kotlin keeps
a position in a signed byte before its width is checked (`KtPositions`) and
shifts a signed byte to read the depth (`KtDepth`).

### HeaderExchange

`Write` resolves, checks and puts; `ReadPrefix`, `ReadPath` and `Lookup` are the
reader's steps in the order of `Header.deserialize` and
`RootElement.deserialize`, the version compared last.  A Kotlin array of a
negative size raises, so a negative depth is a failure.

### Engine

State: the dicts and bytearrays of the callers (`dicts`, `heap`), the default
argument of `ByteBuffer.__init__` (`defaultBuffer`), the listeners and what they
were told, and per client the frame of the call it is in (`call`): the label of
the statement it has come to, and its local variables.  `given`, `meaning` and
`reads` are history: what serialize returned, what the dict meant when it was
called, how often an array was deserialized.

A step is one access to something borrowed, and ends before the next one, so
that every order in which the accesses of two threads can meet is a behaviour.

| Actions | Code |
|---|---|
| `StartSerialize`, `StartScalar` | `serialize` 22-29: the wrapped scalar, `':namespace'` written into the dict |
| `SizeRoot`, `SizeHeader` | `RootElement.size`: two resolutions, the root class |
| `Fill`, `WriteNone`, `Filled`, `Measure` | `ClassType.size`: the loop that looks for missing fields and writes `None`, the loop that adds up |
| `NewBuffer`, `PutHeader`, `FindSchema` | the buffer, the header, the third and fourth resolution, the notice of a deprecated class |
| `Check`, `Checked`, `OmitField`, `PutField` | `ClassType.serialize`: the second search for missing fields, the list of fields to put, and each field: notice, validation, put |
| `ReturnMessage` | the buffer itself becomes the caller's |
| `StartDeserialize`, `ReadHeaderByte`, `LookUp` | the caller's array, popped byte by byte; path, version, root class |
| `ReadFlag`, `ReadByte`, `ReadLength`, `ReadText`, `ReturnMap` | `ClassType.deserialize` over option, byte and string types |

`MayShare` says whether callers keep to one call at a time on a dict or an
array.  Nothing in the library enforces that, and nothing in its documentation
says that callers need not: what a message says is checked for callers that do,
what the library never destroys for callers that do not.  A caller does not
write into a dict itself while a call is using it.

### Transport and the refinement

`Transport` has clients that ask to send a content, which arrives in an array of
its own if it can be sent and is refused if it cannot; who opens an array for
the first time gets what was sent in it, and an array opened again promises no
more than that the call comes back.  A serialize or deserialize call is one
request and one answer there.

`EngineTransport` maps the engine onto it: a content is the `Meaning` of a dict
(the namespace and, for every field, the value or the default) at the time of the
call; `request` is read off the label of the frame, `message` off `given` and
`meaning`, `answer` off `result`.  `CanBeSent` says of a dict, without any of the
passes, that it names a namespace with a root class all of whose fields take what
they get.  `ImplementsTransport` is the whole of it, with fairness;
`SendsAsPromised` is the half that serialize keeps, stated as an action property
so that it can be proved.

### Values, Content and ContentExchange

A value is one record for all kinds, so that values of different kinds can be
compared: `is`, a number, a text, items.  Texts are names, each with its bytes
(`Texts`) and, for some, the number they spell (`Spells`); the conversions of the
two libraries (`str`, `toString`, `int`, `toInt`, ..) are stated over these.  A text
has a length on each platform, its code points in Python and its units of UTF-16 in
Kotlin, and says which platform takes it for blank.

Floats are kept as numbers of halves.  `Nearest` rounds such a number to so many binary
digits, half-way cases to the even neighbour: `Single` is what `struct.pack('>f')` and
`putFloat` put and what a Kotlin `Float` is, `Held` what `float(value)` makes in Python and
`toFloat()` in Kotlin.  So `Halves`, what a value is as a float, is rounded once, and what
Python puts of it (`PutFloat`) a second time.  The bytes of a single are those of a whole
number of an int's width, which stands for the range of a single as well: beyond it
Python's `pack` raises and Kotlin puts the infinite one (`Clipped`).

An annotation is a name and its arguments.  `WellFormed` is what the constructors ask for
each time a field is serialized: a known name, one argument that has nothing but digits
(PY `annotation/GreaterThan.py:11`, KT `structural/Value.kt:7`), so neither a sign nor a
fraction, and none for `NotBlank`.  `Measure` is what the bound is compared with.

`Size`, `Accepts`, `Put` and `Get` are the size pass, the exceptions of the
serialize pass, its bytes, and `deserialize`, each by the type and with one
operator for each datatype of the code.  Where the platforms differ, an
operator exists twice (`PyFits`/`KtFits`, `PyKind`/`KtKind`, ..) or has the
platform as an argument.

A datatype calls the datatypes inside it.  `codec[d]` is what all these calls do as
far as they nest to depth `d`: four functions, over platforms, types and values or
bytes.  `codec[0]` refuses everything and fails to read anything, and `codec[d + 1]`
is `CodecAround(codec[d])`, the code of every datatype with the calls inside it taken from
`codec[d]`.  `Size`, `Accepts`, `Put` and `Get` are those of `codec[MaxNesting]`.
`MaxNesting` stands for the stack: a call that would need more of it raises, as Python's
`RecursionError` and Kotlin's `StackOverflowError` do.  `Nested[d]` are the values that
are nested `d` deep, and the values of the model, `ValueSet`, are those of
`Nested[MaxNesting]`; the type a library derives for a value in a map (`valType`) is
defined by depth in the same way, and so are what a value means (`meaning`) and what is
legal (`lawful`).  These are recursive functions, not `RECURSIVE` operators, so that
theorems can be proved of them.

In `ContentExchange` a caller of one library has a value; `Serialize` is a call with
both passes, which ends in a message or an exception (a Kotlin buffer that is
too small overflows), `Deserialize(p)` one of either library.  What was read is
serialized again, `MaxHops` times.  The reader's schema is the writer's, the map
that was read is passed on as the plain map inside the `DynabuffersMap`, and
Kotlin's maps keep the order of their entries, which no property depends on.

`Legal` says which values are of a type, for a caller of a platform, and leaves
out the values on which the libraries part (below): the properties are about
legal values, and the others are offered as well, to be refused or at least not
to break the size pass.  The limits of the code are part of it: a legal value is no
deeper than the calls for it may be; its texts and lists have a length an int can tell
(`Counted`), its maps a count and entries that fit their fields (`StorableMap`), also when
Python passes on as an int what Kotlin wrote as a byte (`Fits`); a default converts to
its field's type (`DefaultFits`); a union's class is one of the first 128 and an enum's
text has at most 127 bytes, as both are read back from one signed byte by Kotlin
(`LegalUnion`, `IsValueOf`).

`MeaningSurvives` takes a float, and any number in a field that is declared as one, for the
single that is nearest to what the caller has: the message has no room for more.  What it
asks is that every later hop keeps that number, that the other numbers are not rounded, and
that the second rounding of Python does not lead to another single than was meant.

`RulesHold` speaks of values that are of their type but for the annotations
(`Unruled`), of what no other conversion changes (`Measured`: a text, its length, and
how large a number other than a byte is), and of values that both libraries measure
alike (`Alike`).  Where they do not, what the writer has checked is not what the reader
finds: 3.00000001 is greater than 3 in Python and arrives as 3, and a letter beyond
2^16 counts once in Python and twice in Kotlin.

### SchemaParser and SchemaFront

`SchemaParser` keeps each rule method of `DynabuffersParser.py` as the sequence of
parts it matches, and `ParseParts` walks it over the tokens with the one look-ahead
the generated code uses: an optional part or another turn of a loop is taken when the
next token can start it (`FirstOf`), and an optional type is told by looking past
the type.  The result is the parse tree, with its tokens.

In `SchemaFront` an author collects definitions in a `DynabuffersResource`
(`AppendPiece`) and then parses (`ParseSchema`).  Python's `append` takes a text
and raises all the same, so an author may append a piece again.  The visitor is
modelled method by method (`visitClassType`, `visitFieldType`, ..) over the parse
tree, with children found by their place as in the code, and not from the
definition the author had; `Spell` writes a definition down after the grammar, so
that the tree an engine gets can be compared with what was meant.  The type
validator (`Available`, `Used`) is the code's comparison of texts with a prefix,
which is the whole text of the namespace in Python and its name in Kotlin;
`Resolve` and `RootType` are what the engine asks of the tree later.

### TypedMaps

A typed map is its class and what it was made of: a plain map or, in Python, another
typed map.  A reader is at a map, asks it for a key by one access (`Index`,
`GetTyped`, `GetPlainly`, `GetTheValue`) and may enter the map it got (`Enter`).
`truth` is history: the class and the value the sender had at that place.  The
message is put and read by `Content` first, so that the maps are those that
arrive (a union's `':type'` is a position, say).

## Runs

| Run | Question | Bounds |
|---|---|---|
| `HeaderExchangeDeep` | does a header select what was asked for, on every pair of platforms? | a chain of 8, 18 siblings of which two share a name, absent names, versions 1 and 2: both sides of each width (7/8, 15/16), odd and even depths |
| `EngineAlone` | do messages say what was meant, do the passes agree, what does deserialize consume, is the engine a transport? | one client, two classes in nested namespaces, two keys, six cells (nothing, None, in and out of range, refused by an annotation, a text), two edits, two messages, each read twice |
| `EnginePair` | do concurrent calls show in each other's messages and results? | two clients with a dict, wrapped scalars and two arrays of their own, a chain of namespaces, two edits: serialize against serialize, and against deserialize |
| `EngineShared` | what is left of a dict and of bytearrays that two calls share? | two calls on one dict under different namespaces, two arrays read twice |
| `ContentExchange` | is a legal value accepted, read by both libraries and the same two hops later? | every type, over a schema of classes, enums, unions, annotations and defaults; for each, values at the edges of its width, converted, refused and nested; 126 to 129 entries in a map, entries of 254 to 257 bytes; annotations on bytes that Kotlin reads with a sign, on floats given as whole numbers or with more digits than a single has, and with bounds of every malformed kind; texts whose length or blankness differs between the platforms; widths 1, 2 and 3, singles of 4 and doubles of 6 digits |
| `SchemaFront` | does an engine get the schema its author wrote, and is a schema refused exactly when a reference cannot be resolved? | up to three of nine definitions in any order, among them two namespaces of one name, nested and empty namespaces, a union of undeclared members, annotated fields, arrays of references, optional references; one retry; both platforms; every kind of source |
| `TypedMaps` | is what a map answers what the sender put there? | messages of a class with every kind of field, unions whose class is not the first, references three deep, every key by every getter, both platforms |
| `HeaderKotlinDepth`, `HeaderKotlinSiblings`, `EngineFieldNotices`, `SchemaPrimaryUnion`, `TypedMapsRef` | findings, below | as the runs above; 257 siblings for `HeaderKotlinSiblings` |

The bounds are small because the behaviour is: fields are independent of each
other but for their order, so two of different kinds (one with a default, one
optional, one annotated) meet every branch; a position or a depth matters at
the edges of its width; and two calls are enough to interfere, as no state
outlives a call but the dict and the array, which the second edit, message and
read cover.  `MaxEdits` and `MaxReads` bound how often callers act, `Arrays`
how many messages there are; callers that have used them up stop, which is why
deadlock is not checked there; that no *call* stops is the liveness of
`ImplementsTransport`.

The validator and the visitor look at one declaration, its siblings and the
namespaces around it; three definitions, one of them with two levels of
namespaces, are enough for a definition to have a neighbour on each side, for a
name to be declared twice, before, after, and in another namespace than its use.
A getter looks at one map and the map under it; three references deep a reader has
gone through a typed map of a typed map of a typed map.

Short, int and long have 2, 4 and 8 bytes in the code.  TLC computes with 32 bits,
so the widths are constants, kept in their order.  With 1, 2 and 3 bytes the count
of a map ends at 127 entries and the length of an entry at 255 bytes, as they end
at 32767 and 16777215 in the code, and both sides of every width can be tried.
Nothing but these comparisons depends on a width.  A single has 24 binary digits in the
code and a double 53; with 4 and 6, a number of a few digits more or less is rounded up,
down, half-way to an even or an odd neighbour, twice, over the next power of two, and out
of the range.  Two hops are enough for what a
reader adds (a union's `':type'`, filled defaults, other kinds of numbers) to be
written and read once more.  An exchange is over when the last reader has the
value or a call has failed: deadlock is not checked there, nor for an author who
has a tree or a reader who stops asking.

### Fairness

Only the steps *inside* a call are fair (`WF_vars(Step(c))`): a thread that
entered `serialize` or `deserialize` keeps running, since there is no lock, queue
or I/O in either that it could wait for.  Callers need never call, edit or
listen.  From that `ImplementsTransport` derives the fairness of `Transport`: every
request is answered (`WF_vars(Finish(c))`), also when the length read from a
message is wrong.  `Enter` takes an unused array at the start of a call, so that there
is room for the answer.  The other modules have no liveness property and state no
fairness.

### Findings

* `HeaderKotlinDepth`: KT `header/Header.kt:44` shifts a signed number, so a
  header of depth 4 to 7 is refused by a Kotlin reader; the format allows
  0-7 (`src/docs/dynabuffers_format.md:44`).
* `HeaderKotlinSiblings`: KT `NamespaceResolver.kt:106` narrows an index to a byte
  before its width is checked; the 257th namespace of a level is sent as the
  first (`src/README.md:193-195`, `src/docs/dynabuffers_format.md:87`).
* `EngineFieldNotices`: PY `ast/FieldType.py:23` tests the options object, so
  listeners are told of every field as deprecated (`src/README.md:67`).
* `SchemaPrimaryUnion`: PY `DynabuffersVisitor.py:63` looks for the options of a
  union among the texts of its members, so a union is never primary, deprecated
  or implicit in Python (`src/README.md:178`).
* `TypedMapsRef`: PY `api/map/DynabuffersMap.py:36` gives the map that `get_ref`
  returns the class of the map around it, so a declared field of the referenced
  class is refused (`src/README.md:101-102`).

### Where the libraries part

The models offer these values too and do what the code does with them; but they
lie outside `Legal`, or the property names them, so that the properties do not speak
of them.  The repository promises nothing about most of them in particular; who
uses the libraries should know.

* PY `header/RootElement.py:61` tests a method in place of its result: every message
  is read into an `ImplicitDynabuffersMap`, of whatever class it is.
* PY `ast/datatype/MapType.py:41` and KT `MapType.kt:41` count the entries whose key
  is null and then do not write them; such a map cannot be read.
* PY `MapType.py:94`, KT `MapType.kt:91-92` take the type of a list in a map from its
  first item; `[true, 5]` arrives as `[true, false]`.
* A byte of -56 in a map from Kotlin is 200 in Python (KT `MapType.kt:105`, PY
  `ByteType.py:13`).
* PY `MapType.py:166`, KT `MapType.kt:140` cut the length of an entry of 16 MiB and more
  to 24 bits; it is sent and cannot be read.
* A byte or a short in a map from Kotlin is an int once Python passes it on (PY
  `MapType.py:90`): an entry that filled its length field no longer fits it.
* The annotations of a byte are asked of a number without a sign in Python and with one
  in Kotlin: a Kotlin caller that has read a byte Python let through may not be able to
  send it on.
* KT `ClassType.kt:52` passes null on for a field with a default; a text field is
  sent as `"null"`.
* PY `ByteType.py:10` does not convert the text of a default: a byte field with a
  default cannot be left out.
* KT `UnionType.kt:41` takes `{a}` for the first class of a union that has `a`, whatever
  else that class needs, and refuses it.
* PY `FieldType.py:28` validates 3.5 against `GreaterThan(3)`, and the datatype sends 3.
* A float is sent as a single (PY `api/ISerializable.py:44`, KT `FloatType.kt:13`): 0.6 is read
  as 0.60000002 in Python, 16777217 as 16777216 by both, and 3.00000001, which passes
  `GreaterThan(3)` in Python, arrives as 3, which a later caller cannot send on.
  `src/dynabuffers-python/tests/DynabuffersTest.py:344-354` rounds what it reads.
* PY `annotation/MaxLength.py:15` counts code points, KT `MaxLength.kt:15` units of UTF-16; PY
  `NotBlank.py:13` and KT `NotBlank.kt:14` do not agree on what is white space (U+0085): a
  Kotlin caller may not be able to send on what Python let through, and the other way round.
* The grammar lets the bound of an annotation have a sign or a fraction; both libraries
  refuse every value of such a field, when it is serialized.
* Kotlin reads `[boolean]` and the lists of a map as primitive arrays that it does
  not serialize again.
* An enum's text is checked by Kotlin only, in both directions.
* PY `api/map/DynabuffersMap.py:28` takes the text of an enum for a map: index access
  to an enum field, and with it `get_string`, raises; Kotlin answers.
* Python's `map.get("unknown")` is that of `dict` and returns `None`, where
  `map["unknown"]` raises; `map[":namespace"]` raises in Python and is answered in
  Kotlin.
* PY `get_int` and its like accept a boolean; KT `DynabuffersMap.kt:59` lets
  `getShort`, `getByte` and `getInt` wrap what is too wide.
* An optional reference is read as a plain map, without a class (both libraries).

## Proofs

TLAPS proves, for every schema, every set of clients, dicts, arrays and cells, every
text, every width and every depth of nesting:

| Theorem | States | By |
|---|---|---|
| `HeaderProofs!TypeCorrect` | `TypeOK` | `TypeInv` |
| `HeaderProofs!Delivery` | `SelectsWhatWasAsked` | `HeaderInv` |
| `HeaderProofs!Readability` | `FailuresHaveAReason` | `HeaderInv` |
| `HeaderProofs!Agreement` | `WritersAgree` | a fact of the operators, for each request |
| `EngineProofs!TypeCorrect` | `TypeOK` | `TypeInv` |
| `EngineProofs!ValuesStay` | `CallersValuesStay` | `DictInv` |
| `EngineProofs!BytesKept` | `BorrowedBytesAreKept` | `BytesInv` |
| `EngineProofs!MissingFoundBySize` | `MissingIsFoundBySize` | `PrivateInv` |
| `EngineProofs!MeaningStays` | `MeaningIsStable` | `PrivateInv` |
| `EngineProofs!SerializeImplementsTransport` | `SendsAsPromised` | `PrivateInv`, one lemma for each action |
| `EngineProofs!MessagesAreMeant` | `MessageSaysWhatWasMeant` | `MessageInv` |
| `EngineProofs!SizesAreExact` | `SizePassIsExact` | `MessageInv` |
| `EngineDeliveryProofs!FirstReadsReturn` | `FirstReadReturnsTheMeaning` | `DeliveryInv` |
| `EngineDeliveryProofs!FirstReadsTake` | `FirstReadTakesTheHead` | `TakenInv` |
| `EngineDeliveryProofs!EngineImplementsTransport` | `Promise!Init` and `[][Promise!Next]`, the safety half of `ImplementsTransport` | `TransportInv`, one lemma for each action |
| `ContentProofs!ExchangeTyped` | `ContentExchange`'s `TypeOK` | `ExchangeInv`, `Reads` at every depth |
| `ContentProofs!SizesAreExact` | `SizeIsExact` | `ExchangeInv`, `Sound` at every depth |
| `ContentProofs!LegalsAreAccepted` | `LegalIsAccepted` | `ExchangeInv`, `Sound` and `Allows` at every depth |
| `ReadBackProofs!SentsAreRead` | `SentIsRead` | `ReadBackInv`, `Returns` and `StoredBack` at every depth |
| `ReadBackProofs!MeaningsSurvive` | `MeaningSurvives` | `ReadBackInv`, `Returns` and `StoredBack` at every depth |
| `ReadBackProofs!RulesAreKept` | `RulesHold` | `RuleInv`, `Kept` at every depth |

*Assumptions.*  `NestedAssumption` (the schema is a forest), `ExchangeAssumption`
and `EngineAssumption` (types of the constants, one scratch dict per client).
`Delivery`, `Readability` and `Agreement` also assume `NarrowSchema`: at most
256 namespaces on a level.  Without it they are false, as
`HeaderKotlinSiblings` shows.  `Delivery` covers requests without a namespace over a
single chain, the innermost of which is the default.  The theorems of
`EngineProofs` on what is sent, from `MissingFoundBySize` on, and those of
`EngineDeliveryProofs` assume `~MayShare`, that no two calls use one
dict or array at a time; all but `MissingFoundBySize` and `SizesAreExact` assume `NamedOnce` as well, that a root
class names each of its fields once (with a name twice, `None` is written for the
optional one of the two and the other has lost its default).  Those about reading
assume `ShortTexts`, that the length of a text fits into its four bytes, and
`EngineImplementsTransport` also `PlainTexts`, that no text has a byte over 127: in the
engine's model such a byte stands for part of a text that `decode` may refuse.
`SerializeImplementsTransport` and `EngineImplementsTransport` rest on `SendableAssumption`: a class has a field, as
the grammar demands (`fieldType+`), so that a content is never `NoMeaning`.

The theorems of `ContentProofs` and `ReadBackProofs` have no hypothesis of their own.  Their constants are as
the code has them: the widths of short, int and long are different and at most 8
(`WidthAssumption`); a double has no fewer digits than a single (`DigitsAssumption`); a text is known by its bytes and the other way round, and the texts
the libraries make themselves are among them (`TextAssumption`); a text spells an int or
a float (`SpellsAssumption`); something may be called (`NestingAssumption`); the
declarations are what the front end lets through, the members of a union classes
(`DeclarationsAssumption`); callers start with values for fields (`CasesAssumption`).

*Header.*  `HeaderInv` says, for each phase, what is on the wire in terms of what
was asked for: after `Write` it is the encoded header; after `ReadPrefix` the
version and the depth are those of the request, but for a Kotlin reader at
depth 4 and more, and the path bytes are left; after `ReadPath` the positions
are those of the namespace.  The lemmas carry the arithmetic: a byte put
together from two halves opens into them (`HeaderLemmas`), and a path of halves
opens into the path.  `HeaderLemmas` also shows that a walk by names arrives at
one path only, and that its names are the ones asked for.

*Types of the engine.*  `TypeOK` is not inductive: that a frame's `schema` is a
path with a root class, and its `todo` a sequence of that schema's fields,
depends on the label.  `TypeInv` adds that.

*ValuesStay.*  `NoneIsDue` says that whenever a call is about to write `None`, no
value is there to be overwritten: what `Fill` found at the key was nothing or
`None`, and since, only other calls could write there, which write `None` too.
This is where it matters that a caller does not edit a dict in use.

*BytesKept.*  `BytesInv` says that the default buffer is empty and every array a
tail of the message it was; a message a call has not returned yet has no array
another call could pop from.

*MissingFoundBySize, MeaningStays.*  Calls that do not share must first be shown not
to: `OwnDicts`, `Apart` and `Rooms` say that a call works on a dict and into an array
that no other serialize has.  Then `OnPath` ties the frame to the namespace its dict
names, each time it was resolved, and `Passed` says how far the loops have come: a
field the first loop is through with is `Ready`, it has a value or may do without, and
stays so when `None` is written for another one; with the search of the second
pass over, every field that was put or is still to be put is one that can be
(`Takes`).  `Meant` closes the circle: what the dict means now is what it meant at
the call, because the `None` of `WriteNone` replaces nothing, or a `None`.

*SerializeImplementsTransport.*  With `PrivateInv` each action of serialize is shown
to be a step of `Transport` or none: the first one asks, `ReturnMessage` delivers,
every way out in between refuses, and only with a dict that cannot be sent
(each failing branch contradicts a conjunct of `CanBeSent`, and `Passed` gives
`CanBeSent` at the end).

*MessagesAreMeant, SizesAreExact.*  `Builds` says what a call has counted and what it
has put by then: the header and the fields it is done with, `Joined` to the k-th.
`FlattenLemmas` gets around induction on data: `FlattenSeq` is a recursive function,
its existence for every length and that it adds the k-th element at the end follow
from a least number for which it would fail.  `FieldSize` shows that a field puts as
many bytes as it is counted for, `Passed` that none is left out, and `EncodedMeans`
that the bytes of the dict at the end are those of the meaning at the call.

*FirstReadsReturn, EngineImplementsTransport.*  A message says what was meant
(`MessageInv`); it remains to follow the reader.  `AtHeader` says that the part of the
header a reader holds, put in front of what it has not read, is the whole message, and
`AtField` the same of the fields: those it is done with, the flag it may have read, and
the rest of the array are the encoded fields.  Each read then takes one encoded piece off
the front (`NextField`, `TextRead`), and what it puts under the field's name is the
meaning's (`FieldIsRead`).  `ReadsOwn` keeps this while other calls step, because an
array that is read has one reader.  With plain texts no `decode` fails (`PlainIsRead`),
so that every step of a reader is one of `Transport` (`PromisedStep`).

*FirstReadsTake.*  `TakenInv` adds to the reader of `AtField` what is left in the caller's
own array: as long as it has popped single bytes, the array is what the reader has
still to read; from the first slice on it stays as it was, for the reader goes on with
a copy (`self.buffer = self.buffer[length:]`).

*Recursion and depth.*  `codec`, `Nested`, `valType`, `lawful`, `Weight` are recursive functions.
`Recursion!Unfolds` proves that such a function exists and satisfies its equation, from a
first value, a step and the fact that any set of depths has a least element; each
module instance of `Recursion` gives the equation for one of them (`CodecAt`,
`NestedAt`, ..).  A property of every depth is then proved in two parts: it holds at
depth 0, and if it holds of a codec `in` then it holds of `CodecAround(in)`.  If it
failed somewhere, it would fail at a least depth, which is a codec around one
where it does not fail.  No induction theorem with an operator parameter is needed.
Loops (`Through`, `Total`, `FlattenSeq`) are treated alike, by the least turn.

*ExchangeTyped.*  `ExchangeInv` says what a phase knows of the call before: what was sent was
let through and is as long as foreseen, what was refused was not let through.  That it is
inductive needs `Reads(c, d)`: from any bytes whatever, a codec of depth `d` either
raises or returns a value that is nested no deeper than `d`, with a tail of bytes.  The
reader of a class, map or array makes values one deeper than those it reads
(`GetClassFacts`, `GetMapFacts`, `GetArrayFacts`), so the invariant follows the depth.

*SizesAreExact.*  `Sound(c)`: whatever `c` lets through, the bytes it puts are bytes, and
their number is related to the size it foresees.  In Python they are equal.  In Kotlin
the size pass counts a byte array by its bytes, whatever the items are declared as, so
it may foresee *less* than is put: the buffer overflows then, and `Serialize` refuses;
it never foresees more, for types of fields and for all types it derives for values in
maps (`Sized`), which is why the message, padded to the size, has no padding.  `Foreseen`
is this relation, closed under putting bytes together (`ForeseenTogether`), and each
datatype is shown sound around a sound codec (`SoundArray`, `SoundMap`, `SoundClass`,
`UnionSound`, ..).

*LegalsAreAccepted.*  `Allows(c, l)`: what `l` calls legal is let through by `c` and puts
exactly the bytes it foresees, so that no Kotlin buffer overflows either; defaults are,
where two more calls are left; and what is `storable` is let through under the type
derived for it.  `LegalsAllowed` shows `Allows(codec[d], lawful[d])` for all depths.  The
work is in floats, unions and maps: what is in the range once it was rounded is put as it is
(`FloatAccepted`), the class a legal value names is the one either library
chooses (`UnionChosen`), and the items of a list are all let through under the type
of its first (`StorableMapCalled`).  The attempt showed that the theorem was false as
long as `Legal` had no bound on a union's classes and on the bytes of an enum's text.

*SentsAreRead, MeaningsSurvive.*  `Returns(c, l, m)`: of every legal value and every
default there are bytes, and either library reads some value from them and leaves
whatever follows (`Brings`); that value means the same and, if the reader's library lets
it through, is legal for it.  The last point is what makes any number of hops possible:
reading must not lead out of the legal values.  It needs the condition "if it is let
through", as Kotlin reads an array of Booleans it does not serialize, or a -56 that an
annotation on the byte refuses.  `StoredBack` is the same of untyped maps, where a value
is written under the type that is derived for it: the ordinal is read back as that type
(`Told`), and what was a short is an int from then on, so the sizes that decide whether
the entries around it fit must be compared as well (`SameSize`, `From`).  Both hold at
depth 0, where nothing is legal, and each datatype returns around calls that return
(`WholeBack`, `ArrayBack`, `MapBack`, `ClassBack`, `UnionBack`, ..), which `ReturnsStep` and
`StoredStep` put together.  Below them lies the arithmetic: the bytes of a number that
fits its width are read as that number (`NumberReadBack`), and the ordinal and the length
in an entry's header come apart again (`HeaderReadBack`).  Floats rest on `RoundedFloats`: a number that
was rounded to so many digits is not changed by rounding it to as many or more
(`NearestStays`), so the single that is read is what both libraries hold and put again
(`FloatGoes`, `SingleIs`).

`SentIsRead` and `MeaningSurvives` are not inductive: they forget what the value at hand is.
`ReadBackInv` adds that what is held is of its type as soon as it is accepted, and that
what is on the wire are its bytes and no padding (`LegalIsSentWhole`, from `SizesAreExact`'s
`Sound`).  The attempt showed that `Legal` did not bound the lengths of texts and lists, nor
entries that grow when Python passes them on; without the bounds both theorems are false.

*RulesAreKept.*  `Kept`: a value that is no null is read as none, and what its annotations
measure is as before, if it was alike in both libraries, and alike again (`AdmittedAlike`).
`NumberKept` and `TextKept` follow a number and a text through their bytes: a number that is
the same float in Python and in Kotlin is a single already.  `OptionKept` adds the option
around them.  `RuleInv` says that the first call that
let the value through has checked the annotations (`AcceptedIsLegal`), and that they hold of
whatever was read since, in which no field is absent (`Demands`).  The attempt showed that the property
was too wide: it did not hold of bytes, nor of the text of a float given as a whole number.

*Only model-checked.*  The liveness of `ImplementsTransport`, since fairness and ENABLED
are beyond the prover.  All of the schema front end and the typed maps: their recursion
(over parse trees, over maps within maps) is written with `RECURSIVE` operators, of which
nothing can be proved.

## Not modelled

* The lexer, and what ANTLR does with a text that is no schema (error recovery,
  messages, the Kotlin exception listener): generated or third-party code; the
  models take token streams that follow the grammar.  The generated listener is
  used by nothing.
* Listeners that raise or call the engine again in the middle of a call, and
  Kotlin's notifications: nothing in the repository registers such a listener; a
  listener that raises ends the call like a field that is refused.
* Floats that are no multiple of one half, that need an exponent beyond an int's width, or that
  are infinite or no number.  A number beyond the range is modelled where it is refused or
  clipped, and not what it is read as.  A Kotlin `Double` in a float field is converted by its
  text, as texts are, and is not a kind of number of its own.
* What is wrong with the argument of an annotation beyond a sign, a fraction or its count: one
  that is no number is kept as a negative one, for both are refused alike.
* The JavaScript stub: it has an API and a generated parser, and no serializer
  yet.
* Build and release scripts, performance, and the wording of messages.
