-------------------------- MODULE EngineTransport --------------------------
(***************************************************************************)
(* Engine implements Transport, for callers that do not share a dict or an *)
(* array between two calls at a time.                                      *)
(***************************************************************************)
EXTENDS Engine

\* Whatever a caller's dict can hold: a dict begins without a namespace.
Requests ==
    [ns : NameArgs \cup {NoNames}, cells : [Keys -> Cells]]

Contents == {Meaning(d) : d \in Requests}

Takes(f, cell) == Encodable(f, cell) /\ cell \notin f.refuses

\* A dict can be sent when it names a namespace with a class whose fields
\* take what is in the dict, or their default.
CanBeSent(d) ==
    LET ns == NamespaceOf(d.ns)
    IN /\ ns.ok /\ Packable(ns.path) /\ HasRoot(ns.path)
       /\ \A f \in ToSet(Fields(ns.path)) : Takes(f, Sent(f, d.cells))

Sendable == {Meaning(d) : d \in {r \in Requests : CanBeSent(r)}}

\* A class has a field, so that a message never says nothing.
ASSUME SendableAssumption == Sendable \subseteq Contents /\ NoMeaning \notin Sendable

\* Until a call comes back its client waits; a dict asks for what it meant
\* when the call began.
RequestOf(c) ==
    IF call[c].at \in Serializing THEN [op |-> "send", content |-> call[c].meant]
    ELSE IF call[c].at \in Deserializing
    THEN [op |-> "receive", array |-> call[c].array, first |-> result[c].first]
    ELSE [op |-> "none"]

MessageIn(a) == IF given[a] = <<>> THEN NoMeaning ELSE meaning[a]

AnswerTo(c) ==
    IF result[c].wrapper # "none" /\ result[c].first
    THEN [path |-> result[c].path, values |-> result[c].values]
    ELSE NoMeaning

Promise == INSTANCE Transport WITH
    NoContent <- NoMeaning,
    request <- [c \in Clients |-> RequestOf(c)],
    message <- [a \in Arrays |-> MessageIn(a)],
    opened <- {a \in Arrays : reads[a] > 0},
    answer <- [c \in Clients |-> AnswerTo(c)]

\* What a client is told is what a transport of contents would tell it: a
\* dict that can be sent is never refused and one that cannot is never sent,
\* the first deserialize of a message never fails and returns what its sender
\* meant when it called, and every call comes back; all this whatever other
\* calls run in between.
ImplementsTransport == Promise!Spec

\* The half of that promise that serialize keeps, step by step: of the steps
\* of a call one asks, the others change nothing a client can see, and the
\* last one delivers what can be sent and refuses what cannot.
SendsAsPromised ==
    [][\A c \in Clients :
          call'[c] # call[c] /\ {call[c].at, call'[c].at} \cap Serializing # {} =>
              \/ \E content \in Contents : Promise!Ask(c, content)
              \/ \E a \in Arrays : Promise!Deliver(c, a)
              \/ Promise!Refuse(c)
              \/ UNCHANGED Promise!vars]_vars

============================================================================
