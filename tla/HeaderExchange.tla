-------------------------- MODULE HeaderExchange --------------------------
(***************************************************************************)
(* One message header on its way from a writer to a reader, each of them   *)
(* the Python or the Kotlin library, over the same schema.  The writer     *)
(* resolves the namespace the caller names, checks it against the widths   *)
(* of the header and puts the bytes; the reader takes the bytes in order,  *)
(* looks the path up in its schema and compares the version last.          *)
(***************************************************************************)
EXTENDS Namespaces, Header

CONSTANTS
    NameLists,   \* the ':namespace' entries callers give, <<>> for none
    Versions     \* the major versions of the writers about

ASSUME ExchangeAssumption ==
    /\ \A names \in NameLists : names \in Seq(STRING)
    /\ Versions \subseteq Byte

Platforms == {"python", "kotlin"}

VARIABLES
    phase,     \* where the exchange is
    asked,     \* the names the caller gave
    writer,    \* the platform that wrote
    reader,    \* the platform that reads
    wire,      \* the bytes not read yet
    version,   \* the version byte, once read
    depth,     \* the depth, as the reader computes it
    selected   \* the path the reader arrives at

vars == <<phase, asked, writer, reader, wire, version, depth, selected>>
reading == <<version, depth, selected>>

Phases == {"start", "sent", "refused", "prefix", "path", "delivered", "failed"}

TypeOK ==
    /\ phase \in Phases
    /\ asked \in NameLists
    /\ writer \in Platforms /\ reader \in Platforms
    /\ wire \in Seq(Byte)
    /\ version \in Byte
    /\ depth \in -128..127
    /\ selected \in Seq(Nat)

Init ==
    /\ phase = "start"
    /\ asked \in NameLists
    /\ writer \in Platforms /\ reader \in Platforms
    /\ wire = <<>>
    /\ version = 0 /\ depth = 0 /\ selected = <<>>

----------------------------------------------------------------------------
\* The waypoint positions a platform puts into the header.
Positions(platform, path) ==
    IF platform = "kotlin" THEN KtPositions(path) ELSE path

Accepts(platform, names) ==
    LET ns == NamespaceOf(names)
    IN ns.ok /\ Packable(Positions(platform, ns.path))

Written(platform, v, names) ==
    EncodeHeader(v, Positions(platform, NamespaceOf(names).path))

Write(v) ==
    /\ phase = "start"
    /\ IF Accepts(writer, asked)
       THEN phase' = "sent" /\ wire' = Written(writer, v, asked)
       ELSE phase' = "refused" /\ UNCHANGED wire
    /\ UNCHANGED <<asked, writer, reader, reading>>

DepthRead(platform, byte) ==
    IF platform = "kotlin" THEN KtDepth(byte) ELSE PyDepth(byte)

ReadPrefix ==
    /\ phase = "sent"
    /\ phase' = "prefix"
    /\ version' = wire[1]
    /\ depth' = DepthRead(reader, wire[2])
    /\ wire' = Tail(Tail(wire))
    /\ UNCHANGED <<asked, writer, reader, selected>>

\* An array of a negative size, and take() of a negative count, both raise.
ReadPath ==
    /\ phase = "prefix"
    /\ IF depth < 0
       THEN phase' = "failed" /\ UNCHANGED <<wire, selected>>
       ELSE /\ phase' = "path"
            /\ selected' = Waypoints(wire, depth)
            /\ wire' = SubSeq(wire, CeilHalf(depth) + 1, Len(wire))
    /\ UNCHANGED <<asked, writer, reader, version, depth>>

\* The namespaces are looked up first, the version is compared afterwards.
Lookup ==
    /\ phase = "path"
    /\ phase' = IF PathExists(selected) /\ version = Version
                THEN "delivered" ELSE "failed"
    /\ UNCHANGED <<asked, writer, reader, wire, reading>>

Read == ReadPrefix \/ ReadPath \/ Lookup

Next == (\E v \in Versions : Write(v)) \/ Read

Spec == Init /\ [][Next]_vars

----------------------------------------------------------------------------
\* A header that gets through selects the namespace the caller named, or the
\* innermost of the only chain there is, on either platform and whichever
\* platform wrote it: a platform may fail to read a header, it never reads
\* another namespace out of it.
SelectsWhatWasAsked ==
    phase = "delivered" =>
        /\ asked # <<>> => NamesAlong(selected) = asked
        /\ asked = <<>> =>
              /\ Nested[selected] = <<>>
              /\ \A i \in 1..Len(selected) : Len(Nested[SubSeq(selected, 1, i - 1)]) = 1

\* The two libraries write the same bytes for the same request, and refuse
\* the same requests: a message does not show which of them wrote it.
WritersAgree ==
    /\ Accepts("python", asked) <=> Accepts("kotlin", asked)
    /\ Accepts("python", asked) =>
          \A v \in Versions : Written("python", v, asked) = Written("kotlin", v, asked)

\* A header of this version that a writer let out is read: by Python always,
\* by Kotlin down to a depth of 3.
FailuresHaveAReason ==
    phase = "failed" =>
        \/ version # Version
        \/ reader = "kotlin" /\ Len(NamespaceOf(asked).path) > 3

\* What the format says: the depth may be 0 to 7, so a header of this
\* version is never refused by a reader.
EveryDepthIsRead ==
    phase = "failed" => version # Version

============================================================================
