---------------------------- MODULE Namespaces ----------------------------
(***************************************************************************)
(* The namespaces of a parsed schema and the two ways the library finds    *)
(* one: by the dotted names a caller gives and, when the caller gives      *)
(* none, by following the only chain of namespaces there is.               *)
(*                                                                         *)
(* A namespace is identified by its path: the positions, from 0, that lead *)
(* to it from the root of the schema, which itself has the path <<>>.  The *)
(* path is what NamespaceDescription.path holds (one Waypoint per element, *)
(* whose name is the label found on the way).                              *)
(***************************************************************************)
EXTENDS Integers, Sequences, SequencesExt

CONSTANTS
    Nested   \* Nested[p]: the names of the namespaces nested directly in p

Paths == DOMAIN Nested

\* The schema is a forest: what Nested[p] lists is there, and every namespace
\* but the root is listed by the one around it.
ASSUME NestedAssumption ==
    /\ <<>> \in Paths
    /\ \A p \in Paths : p \in Seq(Nat) /\ Nested[p] \in Seq(STRING)
    /\ \A p \in Paths : \A i \in 1..Len(Nested[p]) : Append(p, i - 1) \in Paths
    /\ \A p \in Paths : \A i \in 1..Len(p) :
          /\ SubSeq(p, 1, i - 1) \in Paths
          /\ p[i] \in 0..(Len(Nested[SubSeq(p, 1, i - 1)]) - 1)

----------------------------------------------------------------------------
\* The outcome of a resolution: the path found, or the exception raised.
Found(p) == [ok |-> TRUE,  path |-> p]
NotFound == [ok |-> FALSE, path |-> <<>>]

\* The n-th namespace nested in p is the first one there with that name.
IsFirstNamed(p, n, name) ==
    /\ Nested[p][n] = name
    /\ \A m \in 1..(n - 1) : Nested[p][m] # name

\* The walk by names arrives at p: at every level it takes the first
\* namespace that has the name.  At most one path is arrived at.
ArrivesAt(names, p) ==
    /\ Len(p) = Len(names)
    /\ \A i \in 1..Len(p) : IsFirstNamed(SubSeq(p, 1, i - 1), p[i] + 1, names[i])

NamespaceOfNames(names) ==
    IF \E p \in Paths : ArrivesAt(names, p)
    THEN Found(CHOOSE p \in Paths : ArrivesAt(names, p))
    ELSE NotFound

\* The default is the end of the chain: nothing is nested in it, and exactly
\* one namespace is nested at every level above it.  <<>> stands for "no
\* namespace" (None, AbsentNamespace): the end of the chain of a schema
\* without namespaces.
EndsChain(p) ==
    /\ Nested[p] = <<>>
    /\ \A i \in 1..Len(p) : Len(Nested[SubSeq(p, 1, i - 1)]) = 1

InferDefault ==
    IF \E p \in Paths : EndsChain(p)
    THEN Found(CHOOSE p \in Paths : EndsChain(p))
    ELSE NotFound

\* The names asked for, <<>> when the value has no ':namespace' entry.
NamespaceOf(names) ==
    IF names = <<>> THEN InferDefault ELSE NamespaceOfNames(names)

\* Reading a path back: every position must be one of the current level.
PathExists(positions) == positions \in Paths

\* The names met along a path (joined_path without the dots).
NamesAlong(p) == [i \in 1..Len(p) |-> Nested[SubSeq(p, 1, i - 1)][p[i] + 1]]

============================================================================
