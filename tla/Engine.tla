------------------------------ MODULE Engine ------------------------------
(***************************************************************************)
(* The Python engine: serialize and deserialize as the clients of one      *)
(* engine call them, from several threads, on dicts and bytearrays that    *)
(* belong to the callers.                                                  *)
(*                                                                         *)
(* The engine keeps nothing between calls but its listeners; what makes it *)
(* hard is what it borrows.  serialize writes ':namespace' and None into   *)
(* the caller's dict and reads that dict again in every pass; deserialize  *)
(* pops bytes off the caller's bytearray until a slice gives it a copy of  *)
(* its own; every buffer starts as the one default argument of ByteBuffer. *)
(* A step is one access to something borrowed.                             *)
(***************************************************************************)
EXTENDS Namespaces, Header, FiniteSetsExt

CONSTANTS
    Classes,    \* Classes[p]: the class types declared in p, in their order
    Keys,       \* the field names
    Cells,      \* what callers put under a key
    Scalars,    \* those of them that callers serialize without a dict
    NameArgs,   \* the namespace_names arguments, <<>> for None
    Clients,    \* the threads that call the engine
    Dicts,      \* the dicts the callers keep
    Scratch,    \* Scratch[c]: the dict a call of c wraps around a scalar
    Arrays,     \* the bytearrays there is room for
    MayListen,  \* whether a listener is ever registered
    MayShare,   \* whether two calls may use one dict or one array at a time
    MaxEdits,   \* how often callers change their dicts between calls
    MaxReads    \* how often callers deserialize the same array

\* What is under a key: nothing, None, a number or a text (its UTF-8 bytes).
Absent == [is |-> "absent", data |-> <<>>]
None == [is |-> "none", data |-> <<>>]
Number(n) == [is |-> "number", data |-> <<n>>]
Text(bytes) == [is |-> "text", data |-> bytes]
Missing == {Absent, None}
Cell == Missing \cup [is : {"number"}, data : [{1} -> Int]]
                \cup [is : {"text"}, data : Seq(Byte)]

\* refuses: the values an annotation of the field raises on.
FieldDecl ==
    [name : Keys, kind : {"byte", "string"}, option : BOOLEAN, default : Cell,
     deprecated : BOOLEAN, refuses : SUBSET Cell]
ClassDecl ==
    [name : STRING, primary : BOOLEAN, deprecated : BOOLEAN,
     implicit : BOOLEAN, fields : Seq(FieldDecl)]

AllDicts == Dicts \cup {Scratch[c] : c \in Clients}
NoNames == <<>>

ASSUME EngineAssumption ==
    /\ Cells \subseteq Cell /\ Missing \subseteq Cells
    /\ Scalars \subseteq Cells \ {Absent}
    /\ "value" \in Keys
    /\ DOMAIN Classes = Paths
    /\ \A p \in Paths : Classes[p] \in Seq(ClassDecl)
    /\ \A names \in NameArgs : names \in Seq(STRING)
    /\ \A c \in Clients : Scratch[c] \notin Dicts
    /\ \A c, o \in Clients : Scratch[c] = Scratch[o] => c = o
    /\ Arrays # {}
    /\ {MayListen, MayShare} \subseteq BOOLEAN /\ MaxEdits \in Nat /\ MaxReads \in Nat

VARIABLES
    dicts,         \* the callers' dicts: [ns, cells]
    heap,          \* the callers' bytearrays as they are now
    edits,         \* how often callers changed a dict
    defaultBuffer, \* the default argument of ByteBuffer.__init__
    listening,     \* whether a listener is registered
    notified,      \* the subjects of the notifications listeners got
    call,          \* the stack frame of the call a client is in
    result,        \* what the last deserialize of a client returned
    given,         \* history: the bytes serialize returned, <<>> for none yet
    meaning,       \* history: what the dict of a message meant at the call
    reads          \* history: how many deserialize calls an array has seen

callers == <<dicts, heap, edits>>
listeners == <<listening, notified>>
history == <<given, meaning, reads>>
vars == <<callers, defaultBuffer, listeners, call, result, history>>

----------------------------------------------------------------------------
HasRoot(p) == Classes[p] # <<>>

\* The first primary class, else the first class.
RootClass(p) ==
    LET primary == {i \in DOMAIN Classes[p] : Classes[p][i].primary}
    IN Classes[p][IF primary # {} THEN Min(primary) ELSE 1]

Fields(p) == RootClass(p).fields

\* value[name] if name in value else defaultVal
ValueFor(f, cells) == IF cells[f.name] # Absent THEN cells[f.name] ELSE f.default

\* A default that is not there is None as well.
Sent(f, cells) ==
    IF ValueFor(f, cells) = Absent THEN None ELSE ValueFor(f, cells)

\* What serialize is asked to send: the namespace, and of every field of its
\* root class the value or the default, where nothing and None are the same.
Meaning(d) ==
    LET ns == NamespaceOf(d.ns)
        known == ns.ok /\ HasRoot(ns.path)
        sends(k) == {f \in ToSet(Fields(ns.path)) : f.name = k}
    IN [path |-> ns.path,
        values |-> [k \in Keys |->
            IF known /\ sends(k) # {}
            THEN Sent(CHOOSE f \in sends(k) : TRUE, d.cells)
            ELSE Absent]]

\* Four bytes, most significant first, and the signed number they are.
IntBytes(n) ==
    <<(n \div 16777216) % 256, (n \div 65536) % 256, (n \div 256) % 256, n % 256>>
IntOf(b) ==
    (IF b[1] < 128 THEN b[1] ELSE b[1] - 256) * 16777216
        + b[2] * 65536 + b[3] * 256 + b[4]

\* Mutant: any number is let into a byte.
EncodableUnchecked(f, cell) ==
    \/ f.option /\ cell = None
    \/ f.kind = "byte" /\ cell.is = "number"
    \/ f.kind = "string" /\ cell.is = "text"

\* A byte field takes a number of 0..255, a string field takes a text.
Encodable(f, cell) ==
    \/ f.option /\ cell = None
    \/ f.kind = "byte" /\ cell.is = "number" /\ cell.data[1] \in Byte
    \/ f.kind = "string" /\ cell.is = "text"

EncodeValue(f, cell) ==
    IF f.kind = "byte" THEN <<cell.data[1]>> ELSE IntBytes(Len(cell.data)) \o cell.data

\* Mutant: the flag of a value is that of none.
EncodeFieldFlagless(f, cell) ==
    IF ~f.option THEN EncodeValue(f, cell)
    ELSE IF cell = None THEN <<0>>
    ELSE <<0>> \o EncodeValue(f, cell)

EncodeField(f, cell) ==
    IF ~f.option THEN EncodeValue(f, cell)
    ELSE IF cell = None THEN <<0>>
    ELSE <<1>> \o EncodeValue(f, cell)

\* Mutant: the flag of an optional field is not counted.
SizeWithoutFlag(f, cell) ==
    IF f.option /\ cell = None THEN 0
    ELSE IF f.kind = "byte" THEN 1 ELSE 4 + Len(cell.data)

\* size() of a field: of a value the field cannot encode it is the length of
\* str(value), which nothing but the failing serialize pass comes to use.
SizeOf(f, cell) ==
    (IF f.option THEN 1 ELSE 0) +
    (IF f.option /\ cell = None THEN 0
     ELSE IF f.kind = "byte" THEN 1 ELSE 4 + Len(cell.data))

\* Python's s[:n] and s[n:], n negative or past the end included.
Cut(s, n) == IF n < 0 THEN Max({0, Len(s) + n}) ELSE Min({n, Len(s)})
UpTo(s, n) == SubSeq(s, 1, Cut(s, n))
From(s, n) == SubSeq(s, Cut(s, n) + 1, Len(s))

----------------------------------------------------------------------------
Serializing == {"sizeRoot", "sizeHeader", "fill", "writeNone", "measure",
                "putHeader", "findSchema", "check", "put"}
Deserializing == {"header", "read", "text"}

Nothing == [k \in Keys |-> Absent]
NoMeaning == [path |-> <<>>, values |-> Nothing]
NoArray == CHOOSE a \in Arrays : TRUE
NoResult == [path |-> <<>>, values |-> Nothing, wrapper |-> "none",
             array |-> NoArray, first |-> FALSE]

\* The frame of a call:
\*   at       where it is, "idle" when the client is in no call
\*   dict     the dict it works on           array    the array it works on
\*   schema   the path whose declarations it works with
\*   todo     the fields the current pass has not come to
\*   omits    the fields with nothing to put
\*   size     the length computed so far, or the length of the string at hand
\*   buffer   ByteBuffer.buffer, unless that is the caller's own array
\*   inPlace  whether it is                  head     the header bytes read
\*   flagged  whether the flag of the optional field at hand was read
\*   got      the fields read
\*   meant    history: what the dict meant at the call
NoCall(c) ==
    [at |-> "idle", dict |-> Scratch[c], array |-> NoArray, schema |-> <<>>,
     todo |-> <<>>, omits |-> {}, size |-> 0, buffer |-> <<>>, inPlace |-> FALSE, head |-> <<>>,
     flagged |-> FALSE, got |-> Nothing, meant |-> NoMeaning]

Init ==
    /\ dicts = [d \in AllDicts |-> [ns |-> NoNames, cells |-> Nothing]]
    /\ heap = [a \in Arrays |-> <<>>]
    /\ edits = 0
    /\ defaultBuffer = <<>> /\ listening = FALSE /\ notified = {}
    /\ call = [c \in Clients |-> NoCall(c)]
    /\ result = [c \in Clients |-> NoResult]
    /\ given = [a \in Arrays |-> <<>>]
    /\ meaning = [a \in Arrays |-> NoMeaning]
    /\ reads = [a \in Arrays |-> 0]

----------------------------------------------------------------------------
At(c, label) == call[c].at = label
Continue(c, frame) == call' = [call EXCEPT ![c] = frame]

\* The call is over: it returned, or an exception left it.
Leave(c) == Continue(c, NoCall(c))

Uses(c, d) == call[c].at \in Serializing /\ call[c].dict = d
Reads(c, a) == call[c].at \in Deserializing /\ call[c].array = a

\* Callers that do not share keep to one call at a time on a dict or an array.
DictFree(d) == MayShare \/ \A c \in Clients : ~Uses(c, d)
ArrayFree(a) == MayShare \/ \A c \in Clients : ~Reads(c, a)

\* Room for the message of one more call.
Unused(a) ==
    /\ given[a] = <<>>
    /\ \A c \in Clients : call[c].at \in Serializing => call[c].array # a

----------------------------------------------------------------------------
(* What callers do to what is theirs, a dict only while no call is using it. *)

Edit(d, k, cell) ==
    /\ edits < MaxEdits
    /\ \A c \in Clients : ~Uses(c, d)
    /\ dicts[d].cells[k] # cell
    /\ dicts' = [dicts EXCEPT ![d].cells[k] = cell]
    /\ edits' = edits + 1
    /\ UNCHANGED <<heap, defaultBuffer, listeners, call, result, history>>

AddListener ==
    /\ MayListen /\ ~listening
    /\ listening' = TRUE
    /\ UNCHANGED <<callers, defaultBuffer, notified, call, result, history>>

----------------------------------------------------------------------------
(* serialize                                                               *)

\* Both ways in: the dict the call works on, with what is in it by now.
Enter(c, d, contents) ==
    /\ \E a \in Arrays : Unused(a)
    /\ dicts' = [dicts EXCEPT ![d] = contents]
    /\ Continue(c, [NoCall(c) EXCEPT !.at = "sizeRoot", !.dict = d,
                                     !.array = CHOOSE a \in Arrays : Unused(a),
                                     !.meant = Meaning(contents)])
    /\ result' = [result EXCEPT ![c] = NoResult]
    /\ UNCHANGED <<heap, edits, defaultBuffer, listeners, history>>

\* A names argument is written into the caller's dict.
StartSerialize(c, d, names) ==
    /\ At(c, "idle") /\ DictFree(d)
    /\ Enter(c, d, [dicts[d] EXCEPT !.ns = IF names = NoNames THEN @ ELSE names])

\* Anything but a dict is wrapped; a names argument is not passed on.
StartScalar(c, cell) ==
    /\ At(c, "idle")
    /\ Enter(c, Scratch[c],
             [ns |-> NoNames, cells |-> [Nothing EXCEPT !["value"] = cell]])

\* The namespace as the dict names it now: every pass asks again.
Resolved(c) == NamespaceOf(dicts[call[c].dict].ns)

SizeRoot(c) ==
    /\ At(c, "sizeRoot")
    /\ \/ /\ Resolved(c).ok
          /\ Continue(c, [call[c] EXCEPT !.at = "sizeHeader", !.schema = Resolved(c).path])
       \/ ~Resolved(c).ok /\ Leave(c)
    /\ UNCHANGED <<callers, defaultBuffer, listeners, result, history>>

\* The header's namespace is resolved before the root class is looked for.
SizeHeader(c) ==
    /\ At(c, "sizeHeader")
    /\ \/ /\ Resolved(c).ok /\ HasRoot(call[c].schema)
          /\ Continue(c, [call[c] EXCEPT !.at = "fill",
                                         !.size = HeaderSize(Resolved(c).path),
                                         !.todo = Fields(call[c].schema)])
       \/ ~(Resolved(c).ok /\ HasRoot(call[c].schema)) /\ Leave(c)
    /\ UNCHANGED <<callers, defaultBuffer, listeners, result, history>>

\* The field a pass has come to, and what its dict has for it.
Coming(c, label) == At(c, label) /\ call[c].todo # <<>>
Through(c, label) == At(c, label) /\ call[c].todo = <<>>
Field(c) == Head(call[c].todo)
CellsOf(c) == dicts[call[c].dict].cells

\* Mutant: an optional field is lacking whatever is there.
IsLackingIfOptional(f, cells) ==
    f.default = Absent /\ (f.option \/ cells[f.name] \in Missing)

\* There is neither a default nor a value.
IsLacking(f, cells) == f.default = Absent /\ cells[f.name] \in Missing

\* Mutant: None is written in front of a default, too.
FillOverDefault(c) ==
    /\ Coming(c, "fill")
    /\ LET lacking == CellsOf(c)[Field(c).name] \in Missing
       IN \/ lacking /\ Continue(c, [call[c] EXCEPT !.at = "writeNone"])
          \/ ~lacking /\ Continue(c, [call[c] EXCEPT !.todo = Tail(@)])
    /\ UNCHANGED <<callers, defaultBuffer, listeners, result, history>>

\* Mutant: a None that is there is not looked for.
FillAbsentOnly(c) ==
    /\ Coming(c, "fill")
    /\ LET lacking == Field(c).default = Absent /\ CellsOf(c)[Field(c).name] = Absent
       IN \/ lacking /\ ~Field(c).option /\ Leave(c)
          \/ lacking /\ Field(c).option /\ Continue(c, [call[c] EXCEPT !.at = "writeNone"])
          \/ ~lacking /\ Continue(c, [call[c] EXCEPT !.todo = Tail(@)])
    /\ UNCHANGED <<callers, defaultBuffer, listeners, result, history>>

\* First loop of size: a field that is not there is missing, or to be None.
Fill(c) ==
    /\ Coming(c, "fill")
    /\ LET lacking == IsLacking(Field(c), CellsOf(c))
       IN \/ lacking /\ ~Field(c).option /\ Leave(c)
          \/ lacking /\ Field(c).option /\ Continue(c, [call[c] EXCEPT !.at = "writeNone"])
          \/ ~lacking /\ Continue(c, [call[c] EXCEPT !.todo = Tail(@)])
    /\ UNCHANGED <<callers, defaultBuffer, listeners, result, history>>

\* The None is written a moment after the key was looked for.
WriteNone(c) ==
    /\ At(c, "writeNone")
    /\ dicts' = [dicts EXCEPT ![call[c].dict].cells[Field(c).name] = None]
    /\ Continue(c, [call[c] EXCEPT !.at = "fill", !.todo = Tail(@)])
    /\ UNCHANGED <<heap, edits, defaultBuffer, listeners, result, history>>

Filled(c) ==
    /\ Through(c, "fill")
    /\ Continue(c, [call[c] EXCEPT !.at = "measure", !.todo = Fields(call[c].schema)])
    /\ UNCHANGED <<callers, defaultBuffer, listeners, result, history>>

\* Second loop of size: what is there counts, else the default, else nothing.
Measure(c) ==
    /\ Coming(c, "measure")
    /\ LET cell == ValueFor(Field(c), CellsOf(c))
       IN Continue(c, [call[c] EXCEPT
                          !.todo = Tail(@),
                          !.size = @ + IF cell = Absent THEN 0
                                       ELSE SizeOf(Field(c), cell)])
    /\ UNCHANGED <<callers, defaultBuffer, listeners, result, history>>

\* A buffer made without bytes starts as the default argument.
NewBuffer(c) ==
    /\ Through(c, "measure")
    /\ Continue(c, [call[c] EXCEPT !.at = "putHeader", !.buffer = defaultBuffer])
    /\ UNCHANGED <<callers, defaultBuffer, listeners, result, history>>

\* Mutant: self.buffer += obj, which grows the default argument.
PutInPlace(c, frame, bytes) ==
    /\ Continue(c, [frame EXCEPT !.buffer = defaultBuffer \o bytes])
    /\ defaultBuffer' = defaultBuffer \o bytes

\* self.buffer = self.buffer + obj: a new bytearray, the old one left alone.
Put(c, frame, bytes) ==
    /\ Continue(c, [frame EXCEPT !.buffer = @ \o bytes])
    /\ UNCHANGED defaultBuffer

\* addNotification calls every listener there is.
Notify(subjects) ==
    /\ notified' = IF listening THEN notified \cup subjects ELSE notified
    /\ UNCHANGED listening

PutHeader(c) ==
    /\ At(c, "putHeader")
    /\ \/ /\ Resolved(c).ok /\ Packable(Resolved(c).path)
          /\ Put(c, [call[c] EXCEPT !.at = "findSchema"],
                 EncodeHeader(Version, Resolved(c).path))
       \/ /\ ~(Resolved(c).ok /\ Packable(Resolved(c).path))
          /\ Leave(c)
          /\ UNCHANGED defaultBuffer
    /\ UNCHANGED <<callers, listeners, result, history>>

\* The schema is looked up again, and its root class begins to serialize.
FindSchema(c) ==
    /\ At(c, "findSchema")
    /\ LET path == Resolved(c).path
       IN \/ /\ Resolved(c).ok /\ HasRoot(path)
             /\ Continue(c, [call[c] EXCEPT !.at = "check", !.schema = path,
                                            !.todo = Fields(path)])
             /\ Notify(IF RootClass(path).deprecated
                       THEN {<<"class", RootClass(path).name>>} ELSE {})
          \/ /\ ~(Resolved(c).ok /\ HasRoot(path))
             /\ Leave(c)
             /\ UNCHANGED listeners
    /\ UNCHANGED <<callers, defaultBuffer, result, history>>

\* The serialize pass looks for missing fields once more.
Check(c) ==
    /\ Coming(c, "check")
    /\ LET fails == IsLacking(Field(c), CellsOf(c)) /\ ~Field(c).option
       IN \/ fails /\ Leave(c)
          \/ ~fails /\ Continue(c, [call[c] EXCEPT !.todo = Tail(@)])
    /\ UNCHANGED <<callers, defaultBuffer, listeners, result, history>>

\* Mutant: what is None is not put.
OmittedIfNone(c) ==
    {f \in ToSet(Fields(call[c].schema)) : Sent(f, CellsOf(c)) = None}

\* Which fields are put is settled before the first of them is.
Omitted(c) ==
    {f \in ToSet(Fields(call[c].schema)) : ValueFor(f, CellsOf(c)) = Absent}

Checked(c) ==
    /\ Through(c, "check")
    /\ Continue(c, [call[c] EXCEPT !.at = "put", !.todo = Fields(call[c].schema),
                                   !.omits = Omitted(c)])
    /\ UNCHANGED <<callers, defaultBuffer, listeners, result, history>>

OmitField(c) ==
    /\ Coming(c, "put") /\ Field(c) \in call[c].omits
    /\ Continue(c, [call[c] EXCEPT !.todo = Tail(@)])
    /\ UNCHANGED <<callers, defaultBuffer, listeners, result, history>>

\* The options of a field are an object, so its notification is always sent.
FieldSubjects(f) == {<<"field", f.name>>}

\* The listeners hear of the field before its value is validated and put.
PutField(c) ==
    /\ Coming(c, "put") /\ Field(c) \notin call[c].omits
    /\ Notify(FieldSubjects(Field(c)))
    /\ LET cell == Sent(Field(c), CellsOf(c))
           fails == cell \in Field(c).refuses \/ ~Encodable(Field(c), cell)
       IN \/ /\ ~fails
             /\ Put(c, [call[c] EXCEPT !.todo = Tail(@)], EncodeField(Field(c), cell))
          \/ fails /\ Leave(c) /\ UNCHANGED defaultBuffer
    /\ UNCHANGED <<callers, result, history>>

\* The caller gets the buffer itself.
ReturnMessage(c) ==
    /\ Through(c, "put")
    /\ LET a == call[c].array
       IN /\ heap' = [heap EXCEPT ![a] = call[c].buffer]
          /\ given' = [given EXCEPT ![a] = call[c].buffer]
          /\ meaning' = [meaning EXCEPT ![a] = call[c].meant]
    /\ Leave(c)
    /\ UNCHANGED <<dicts, edits, defaultBuffer, listeners, result, reads>>

Serialize(c) ==
    \/ SizeRoot(c) \/ SizeHeader(c) \/ Fill(c) \/ WriteNone(c) \/ Filled(c)
    \/ Measure(c) \/ NewBuffer(c) \/ PutHeader(c) \/ FindSchema(c) \/ Check(c) \/ Checked(c)
    \/ OmitField(c) \/ PutField(c) \/ ReturnMessage(c)

----------------------------------------------------------------------------
(* deserialize                                                             *)

StartDeserialize(c, a) ==
    /\ At(c, "idle") /\ ArrayFree(a)
    /\ given[a] # <<>> /\ reads[a] < MaxReads
    /\ Continue(c, [NoCall(c) EXCEPT !.at = "header", !.array = a, !.inPlace = TRUE])
    /\ result' = [result EXCEPT ![c] =
                     [NoResult EXCEPT !.array = a, !.first = (reads[a] = 0)]]
    /\ reads' = [reads EXCEPT ![a] = @ + 1]
    /\ UNCHANGED <<callers, defaultBuffer, listeners, given, meaning>>

\* The bytes a call reads from: the caller's own until the first slice.
Source(c) == IF call[c].inPlace THEN heap[call[c].array] ELSE call[c].buffer

\* Mutant: buffer.pop(), the last byte.
PopLast(c, frame) ==
    IF frame.inPlace
    THEN /\ heap' = [heap EXCEPT ![frame.array] = Front(@)]
         /\ Continue(c, frame)
    ELSE /\ Continue(c, [frame EXCEPT !.buffer = Front(@)])
         /\ UNCHANGED heap

\* buffer.pop(0), in place, on the way to the next frame of the call.
Pop(c, frame) ==
    IF frame.inPlace
    THEN /\ heap' = [heap EXCEPT ![frame.array] = Tail(@)]
         /\ Continue(c, frame)
    ELSE /\ Continue(c, [frame EXCEPT !.buffer = Tail(@)])
         /\ UNCHANGED heap

\* Mutant: del self.buffer[:n].
SliceInPlace(c, frame, n) ==
    /\ heap' = [heap EXCEPT ![frame.array] = From(@, n)]
    /\ Continue(c, frame)

\* Mutant: one byte too few is dropped.
SliceShort(c, frame, n) ==
    /\ Continue(c, [frame EXCEPT !.buffer = From(Source(c), n - 1), !.inPlace = FALSE])
    /\ UNCHANGED heap

\* self.buffer = self.buffer[n:], a copy.
Slice(c, frame, n) ==
    /\ Continue(c, [frame EXCEPT !.buffer = From(Source(c), n), !.inPlace = FALSE])
    /\ UNCHANGED heap

\* Mutant: waits for more.
ExhaustedWaits(c) == Source(c) = <<>> /\ UNCHANGED <<call, heap>>

\* Nothing left to pop: IndexError.
Exhausted(c) == Source(c) = <<>> /\ Leave(c) /\ UNCHANGED heap

\* Version, depth and flags, and as many bytes of path as the depth says.
HeaderRead(c) ==
    /\ Len(call[c].head) >= 2
    /\ Len(call[c].head) = 2 + CeilHalf(PyDepth(call[c].head[2]))

ReadHeaderByte(c) ==
    /\ At(c, "header") /\ ~HeaderRead(c)
    /\ \/ /\ Source(c) # <<>>
          /\ Pop(c, [call[c] EXCEPT !.head = Append(@, Head(Source(c)))])
       \/ Exhausted(c)
    /\ UNCHANGED <<dicts, edits, defaultBuffer, listeners, result, history>>

\* The namespaces of the path come first, the version after them.
LookUp(c) ==
    /\ At(c, "header") /\ HeaderRead(c)
    /\ LET head == call[c].head
           path == Waypoints(SubSeq(head, 3, Len(head)), PyDepth(head[2]))
           found == PathExists(path) /\ head[1] = Version /\ HasRoot(path)
       IN \/ /\ found
             /\ Continue(c, [call[c] EXCEPT !.at = "read", !.schema = path,
                                            !.todo = Fields(path)])
          \/ ~found /\ Leave(c)
    /\ UNCHANGED <<callers, defaultBuffer, listeners, result, history>>

\* The frame of a call that has read the field it was at.
Having(c, cell) ==
    [call[c] EXCEPT !.got[Field(c).name] = cell, !.todo = Tail(@), !.flagged = FALSE]

FlagDue(c) == Field(c).option /\ ~call[c].flagged

\* The flag of an optional field: 0 is None, anything else a value.
ReadFlag(c) ==
    /\ Coming(c, "read") /\ FlagDue(c)
    /\ \/ /\ Source(c) # <<>>
          /\ Pop(c, IF Head(Source(c)) = 0 THEN Having(c, None)
                    ELSE [call[c] EXCEPT !.flagged = TRUE])
       \/ Exhausted(c)
    /\ UNCHANGED <<dicts, edits, defaultBuffer, listeners, result, history>>

ReadByte(c) ==
    /\ Coming(c, "read") /\ ~FlagDue(c) /\ Field(c).kind = "byte"
    /\ \/ /\ Source(c) # <<>>
          /\ Pop(c, Having(c, Number(Head(Source(c)))))
       \/ Exhausted(c)
    /\ UNCHANGED <<dicts, edits, defaultBuffer, listeners, result, history>>

\* getInt reads its four bytes in one slice ...
ReadLength(c) ==
    /\ Coming(c, "read") /\ ~FlagDue(c) /\ Field(c).kind = "string"
    /\ LET bytes == UpTo(Source(c), 4)
       IN \/ /\ Len(bytes) = 4
             /\ Continue(c, [call[c] EXCEPT !.at = "text", !.size = IntOf(bytes)])
          \/ Len(bytes) < 4 /\ Leave(c)
    /\ UNCHANGED <<callers, defaultBuffer, listeners, result, history>>

\* ... and drops four by another; get(length) takes what there is of the rest.
\* A byte over 127 on its own is not UTF-8.
ReadText(c) ==
    /\ At(c, "text")
    /\ LET rest == From(Source(c), 4)
           text == UpTo(rest, call[c].size)
           legible == \A i \in DOMAIN text : text[i] < 128
           frame == [Having(c, Text(text)) EXCEPT !.at = "read", !.size = 0]
       IN \/ legible /\ Slice(c, frame, 4 + Cut(rest, call[c].size))
          \/ ~legible /\ Leave(c) /\ UNCHANGED heap
    /\ UNCHANGED <<dicts, edits, defaultBuffer, listeners, result, history>>

\* root_type.options.options.is_implicit is a method, and so always true.
WrapperOf(class) == "ImplicitDynabuffersMap"

ReturnMap(c) ==
    /\ Through(c, "read")
    /\ result' = [result EXCEPT ![c] =
                     [@ EXCEPT !.path = call[c].schema, !.values = call[c].got,
                               !.wrapper = WrapperOf(RootClass(call[c].schema))]]
    /\ Leave(c)
    /\ UNCHANGED <<callers, defaultBuffer, listeners, history>>

Deserialize(c) ==
    \/ ReadHeaderByte(c) \/ LookUp(c) \/ ReadFlag(c) \/ ReadByte(c)
    \/ ReadLength(c) \/ ReadText(c) \/ ReturnMap(c)

----------------------------------------------------------------------------
Step(c) == Serialize(c) \/ Deserialize(c)

Call(c) ==
    \/ \E d \in Dicts, names \in NameArgs : StartSerialize(c, d, names)
    \/ \E cell \in Scalars : StartScalar(c, cell)
    \/ \E a \in Arrays : StartDeserialize(c, a)

Next ==
    \/ \E c \in Clients : Call(c) \/ Step(c)
    \/ \E d \in Dicts, k \in Keys, cell \in Cells : Edit(d, k, cell)
    \/ AddListener

\* A call blocks on nothing: its thread keeps running it.
Spec == Init /\ [][Next]_vars /\ \A c \in Clients : WF_vars(Step(c))

----------------------------------------------------------------------------
Labels == {"idle"} \cup Serializing \cup Deserializing
Values == [Keys -> Cell]
Meanings == [path : Seq(Nat), values : Values]
Wrappers == {"none", "DynabuffersMap", "ImplicitDynabuffersMap"}
Frames ==
    [at : Labels, dict : AllDicts, array : Arrays, schema : Paths,
     todo : Seq(FieldDecl), omits : SUBSET FieldDecl, size : Int, buffer : Seq(Byte), inPlace : BOOLEAN,
     head : Seq(Byte), flagged : BOOLEAN, got : Values, meant : Meanings]

TypeOK ==
    /\ dicts \in [AllDicts -> [ns : Seq(STRING), cells : [Keys -> Cells]]]
    /\ heap \in [Arrays -> Seq(Byte)]
    /\ edits \in 0..MaxEdits
    /\ defaultBuffer \in Seq(Byte)
    /\ listening \in BOOLEAN
    /\ notified \subseteq {"class", "field"} \X (STRING \cup Keys)
    /\ call \in [Clients -> Frames]
    /\ result \in [Clients -> [path : Paths, values : Values, wrapper : Wrappers,
                               array : Arrays, first : BOOLEAN]]
    /\ given \in [Arrays -> Seq(Byte)]
    /\ meaning \in [Arrays -> Meanings]
    /\ reads \in [Arrays -> 0..MaxReads]

----------------------------------------------------------------------------
(* What serialize promises, as one function of what it was asked to send.  *)

EncodedFields(m) ==
    [i \in DOMAIN Fields(m.path) |->
        EncodeField(Fields(m.path)[i], m.values[Fields(m.path)[i].name])]

EncodeMessage(m) == EncodeHeader(Version, m.path) \o FlattenSeq(EncodedFields(m))

\* Every message says what its dict meant when serialize was called, in the
\* namespace asked for then, whatever other calls did in the meantime: the
\* passes over the borrowed dict agree, and no call writes into the buffer
\* of another one.
MessageSaysWhatWasMeant ==
    \A a \in Arrays : given[a] # <<>> => given[a] = EncodeMessage(meaning[a])

\* While a call works on a dict, what the dict means stays what it meant at
\* the beginning: the None that size writes into it changes nothing that the
\* serialize pass will find.
MeaningIsStable ==
    \A c \in Clients :
        call[c].at \in Serializing =>
            Meaning(dicts[call[c].dict]) = call[c].meant

\* size is exact: what the size pass adds up is what the serialize pass puts.
SizePassIsExact ==
    \A c \in Clients :
        Through(c, "put") => Len(call[c].buffer) = call[c].size

\* A missing field is found by the size pass: the search in the serialize
\* pass, which comes when a header is written and listeners may have been
\* told of the class, has no field left to fail on.
MissingIsFoundBySize ==
    \A c \in Clients :
        Coming(c, "check") /\ IsLacking(Field(c), CellsOf(c)) => Field(c).option

\* The first deserialize of a message returns what serialize was given, and
\* its namespace.
FirstReadReturnsTheMeaning ==
    \A c \in Clients :
        result[c].wrapper # "none" /\ result[c].first =>
            /\ result[c].path = meaning[result[c].array].path
            /\ result[c].values = meaning[result[c].array].values

\* What a deserialize takes out of the caller's array: the header, and the
\* content up to the first string, which is read by slices.
TakenInPlace(m) ==
    LET fields == Fields(m.path)
        slices == {i \in DOMAIN fields :
                     fields[i].kind = "string" /\ m.values[fields[i].name] # None}
        popped == IF slices = {} THEN EncodedFields(m)
                  ELSE SubSeq(EncodedFields(m), 1, Min(slices) - 1)
        flag == IF slices # {} /\ fields[Min(slices)].option THEN 1 ELSE 0
    IN HeaderSize(m.path) + Len(FlattenSeq(popped)) + flag

\* After its first deserialize an array has lost exactly those bytes: the same
\* bytes again are not the message any more.
FirstReadTakesTheHead ==
    \A a \in Arrays :
        reads[a] = 1 /\ (\A c \in Clients : ~Reads(c, a)) =>
            heap[a] = From(given[a], TakenInPlace(meaning[a]))

\* However calls share dicts and arrays: the default argument all buffers
\* start from stays empty, and an array only ever loses bytes at its front.
BorrowedBytesAreKept ==
    /\ defaultBuffer = <<>>
    /\ \A a \in Arrays : \E taken \in 0..Len(given[a]) :
          heap[a] = SubSeq(given[a], taken + 1, Len(given[a]))

\* However calls share a dict: a value a caller put is only ever replaced by
\* callers; the engine turns a key that is not there into None, and nothing
\* else.
CallersValuesStay ==
    [][\A d \in Dicts, k \in Keys :
          dicts'[d].cells[k] # dicts[d].cells[k] =>
              \/ edits' # edits
              \/ dicts[d].cells[k] = Absent /\ dicts'[d].cells[k] = None]_vars

----------------------------------------------------------------------------
(* What the documentation and the tests say, and the code does not do.     *)

\* A notification about a field is about a field declared deprecated.
NoticesAreOfDeprecatedFields ==
    \A k \in Keys : <<"field", k>> \in notified =>
        \E p \in Paths : \E i \in DOMAIN Classes[p] :
            \E f \in ToSet(Classes[p][i].fields) : f.name = k /\ f.deprecated

============================================================================
