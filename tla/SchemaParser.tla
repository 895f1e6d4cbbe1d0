--------------------------- MODULE SchemaParser ---------------------------
(***************************************************************************)
(* The parser of schema texts: DynabuffersParser.py, and the same grammar  *)
(* in Kotlin.  A rule method is the sequence of parts it matches; what its *)
(* loops and ifs ask of the next token is here asked of the symbols that   *)
(* may start a part.  The input is the token stream of the lexer, of a     *)
(* text that follows the grammar: ANTLR's error recovery is not modelled.  *)
(***************************************************************************)
EXTENDS Integers, Sequences, SequencesExt

\* A part of a rule: one of the symbols, at most once, or repeated.
One(symbols) == [of |-> symbols, how |-> "1"]
Maybe(symbols) == [of |-> symbols, how |-> "?"]
OneOrMore(symbols) == [of |-> symbols, how |-> "+"]
ZeroOrMore(symbols) == [of |-> symbols, how |-> "*"]

Definitions == {"enumType", "classType", "unionType", "namespaceType"}
Builtin == {"string", "short", "boolean", "byte", "float", "long", "int", "map"}
Words == {"primary", "deprecated", "implicit"}

compilation == <<ZeroOrMore(Definitions), One({"EOF"})>>
enumType ==
    <<One({"enum"}), One({"IDENTIFIER"}), One({"{"}), OneOrMore({"IDENTIFIER"}), One({"}"})>>
classType ==
    <<One({"class"}), One({"IDENTIFIER"}), Maybe({"classOptions"}),
      One({"{"}), OneOrMore({"fieldType"}), One({"}"})>>
unionType ==
    <<One({"union"}), One({"IDENTIFIER"}), Maybe({"unionOptions"}),
      One({"{"}), OneOrMore({"IDENTIFIER"}), One({"}"})>>
fieldType ==
    <<ZeroOrMore({"annotation"}), One({"IDENTIFIER"}), One({":"}),
      One({"dataType", "arrayType", "optionType"}),
      Maybe({"fieldOptions"}), Maybe({"default"})>>
default == <<One({"="}), One({"value"})>>
dataType == <<One(Builtin \cup {"IDENTIFIER"})>>
arrayType == <<One({"["}), One({"dataType"}), One({"]"})>>
optionType == <<One({"dataType", "arrayType"}), One({"?"})>>
namespaceType ==
    <<One({"namespace"}), One({"IDENTIFIER", "IDENTIFIER_LITERAL"}),
      One({"{"}), ZeroOrMore(Definitions), One({"}"})>>
classOptions == <<One({"("}), OneOrMore(Words), One({")"})>>
unionOptions == <<One({"("}), OneOrMore(Words), One({")"})>>
fieldOptions == <<One({"("}), One({"deprecated"}), One({")"})>>
annotation == <<One({"@"}), One({"IDENTIFIER"}), Maybe({"argument"})>>
argument == <<One({"("}), One({"value"}), One({")"})>>
value == <<One({"STRING", "NUMBER", "BOOLEAN", "IDENTIFIER", "[]", "[:]"})>>

Grammar ==
    [compilation |-> compilation, enumType |-> enumType, classType |-> classType,
     unionType |-> unionType, fieldType |-> fieldType, default |-> default,
     dataType |-> dataType, arrayType |-> arrayType, optionType |-> optionType,
     namespaceType |-> namespaceType, classOptions |-> classOptions,
     unionOptions |-> unionOptions, fieldOptions |-> fieldOptions,
     annotation |-> annotation, argument |-> argument, value |-> value]

\* The groups in brackets are no rules of the grammar: their children are
\* those of the rule around them.
Inline == {"default", "argument"}

---------------------------------------------------------------------------

(***************************************************************************)
(* A token is [kind, text].  A node of the tree is [rule, text, kids], a   *)
(* token being a node without kids whose rule is its kind.                 *)
(***************************************************************************)
RECURSIVE Starts(_), StartsOf(_)
Starts(s) == IF s \in DOMAIN Grammar THEN StartsOf(Grammar[s]) ELSE {s}
StartsOf(parts) ==
    UNION {Starts(s) : s \in Head(parts).of}
        \cup IF Head(parts).how \in {"?", "*"} THEN StartsOf(Tail(parts)) ELSE {}

\* Evaluated once: the tokens that start each rule.
FirstOf == [s \in DOMAIN Grammar |-> Starts(s)]
MayStart(s, tok) == tok.kind \in (IF s \in DOMAIN Grammar THEN FirstOf[s] ELSE {s})

\* Looks past the type: adaptivePredict between T, [T] and either with "?".
IsOptional(toks, at) == toks[at + (IF toks[at].kind = "[" THEN 3 ELSE 1)].kind = "?"

Alternative(symbols, toks, at) ==
    CHOOSE s \in symbols :
        /\ MayStart(s, toks[at])
        /\ "optionType" \in symbols => (s = "optionType") = IsOptional(toks, at)

Leaf(tok) == [rule |-> tok.kind, text |-> tok.text, kids |-> <<>>]
Node(rule, kids) == [rule |-> rule, text |-> "", kids |-> kids]

RECURSIVE ParseSymbol(_, _, _), ParseParts(_, _, _, _)
\* What follows a symbol, or the parts of a rule, from position at on.
ParseSymbol(s, toks, at) ==
    IF s \notin DOMAIN Grammar THEN [kids |-> <<Leaf(toks[at])>>, at |-> at + 1]
    ELSE LET got == ParseParts(Grammar[s], toks, at, <<>>)
         IN  IF s \in Inline THEN got
             ELSE [kids |-> <<Node(s, got.kids)>>, at |-> got.at]

ParseParts(parts, toks, at, kids) ==
    IF parts = <<>> THEN [kids |-> kids, at |-> at]
    ELSE LET part == Head(parts)
             matches == \E s \in part.of : MayStart(s, toks[at])
             again == IF part.how \in {"+", "*"} THEN <<ZeroOrMore(part.of)>> ELSE <<>>
         IN  CASE matches ->
                    LET got == ParseSymbol(Alternative(part.of, toks, at), toks, at)
                    IN  ParseParts(again \o Tail(parts), toks, got.at, kids \o got.kids)
               [] ~matches /\ part.how \in {"?", "*"} ->
                    ParseParts(Tail(parts), toks, at, kids)

EOF == [kind |-> "EOF", text |-> "<EOF>"]
Parse(toks) == ParseSymbol("compilation", Append(toks, EOF), 1).kids[1]

\* ctx.getText(): the texts of the tokens under a node.
RECURSIVE Texts(_)
Texts(node) ==
    IF node.kids = <<>> THEN <<node.text>>
    ELSE FlattenSeq([i \in DOMAIN node.kids |-> Texts(node.kids[i])])
TextOf(node) == Head(Texts(node))
===========================================================================
