---------------------------- MODULE SchemaFront ----------------------------
(***************************************************************************)
(* From a schema text to the tree an engine is built on: the resource the  *)
(* author collects the text in, the parse, the visitor that makes the      *)
(* types of the parse tree, the type validator, and what the tree answers  *)
(* to the engine: the root type and the references.  Python and Kotlin.    *)
(***************************************************************************)
EXTENDS SchemaParser

CONSTANTS
    Platforms,  \* of "python" and "kotlin", those looked at
    Kinds,      \* the token kind of each literal that is a default or an argument
    Pieces,     \* the definitions the author may add to the text
    Sources,    \* the types of the objects the text may come in
    MaxPieces,  \* how many definitions a schema has
    MaxRetries  \* how often the author appends a piece again

Texted == {"str", "bytes", "bytearray"}

ASSUME SchemaFrontAssumption ==
    /\ Platforms \subseteq {"python", "kotlin"}
    /\ "DynabuffersResource" \in Sources
    /\ MaxPieces \in Nat /\ MaxRetries \in Nat

VARIABLES
    platform,  \* the library the schema is for
    builder,   \* the text of the resource, as tokens
    appended,  \* history: the pieces appended, and how often each was
    failed,    \* the piece that the last append raised for, <<>> for none
    tree,      \* the tree of the engine, <<>> for none yet
    outcome    \* what parse did: "none" yet, "tree", "rejected", "refused"

vars == <<platform, builder, appended, failed, tree, outcome>>

---------------------------------------------------------------------------
\* The types the visitor makes.  The options are the words that were given.

ClassOptions(words) == [node |-> "ClassOptions", words |-> words]
UnionOptions(words) == [node |-> "UnionOptions", words |-> words]
FieldOptions(words) == [node |-> "FieldOptions", words |-> words]
Value(is, text) == [node |-> "Value", is |-> is, text |-> text]
NoDefault == Value("none", "")
Annotation(name, values) == [node |-> "Annotation", name |-> name, values |-> values]
Datatype(name) == [node |-> "Datatype", name |-> name]
RefType(name) == [node |-> "RefType", name |-> name]
ArrayType(type) == [node |-> "ArrayType", of |-> type]
OptionType(type) == [node |-> "OptionType", of |-> type]
FieldType(name, type, options, annotations, defaultValue) ==
    [node |-> "FieldType", name |-> name, datatype |-> type, options |-> options,
     annotations |-> annotations, default |-> defaultValue]
EnumType(name, values) == [node |-> "EnumType", name |-> name, values |-> values]
ClassType(name, fields, options) ==
    [node |-> "ClassType", name |-> name, fields |-> fields, options |-> options]
UnionType(name, values, options) ==
    [node |-> "UnionType", name |-> name, values |-> values, options |-> options]
NamespaceType(name, list, nested) ==
    [node |-> "NamespaceType", name |-> name, list |-> list, nested |-> nested]

Only(seq, name) == SelectSeq(seq, LAMBDA x : x.node = name)
Others(seq, name) == SelectSeq(seq, LAMBDA x : x.node # name)
FirstOr(seq, otherwise) == IF seq = <<>> THEN otherwise ELSE Head(seq)

---------------------------------------------------------------------------
\* The visitor.

WordsIn(node) == {w \in Words : Contains(Texts(node), w)}
\* The texts from child 3 to the last but one, counted from 0.
Listing(node) ==
    [i \in 1..(Len(node.kids) - 4) |-> TextOf(node.kids[i + 3])]

visitDataType(node) ==
    IF TextOf(node) \in Builtin THEN Datatype(TextOf(node)) ELSE RefType(TextOf(node))
visitValue(node) ==
    CASE TextOf(node) = "[]" -> Value("list", "")
      [] TextOf(node) = "[:]" -> Value("map", "")
      [] OTHER -> Value("text", TextOf(node))
visitEnumType(node) == EnumType(TextOf(node.kids[2]), Listing(node))

\* Mutant: the brace after the options counts as a member.
visitUnionTypeBraced(node, visited, p) ==
    UnionType(TextOf(node.kids[2]), Listing(node), UnionOptions({}))

\* Python looks for the options among the texts of the members.
visitUnionType(node, visited, p) ==
    LET options == IF p = "python" THEN <<>> ELSE Only(visited, "UnionOptions")
    IN  UnionType(TextOf(node.kids[2]),
                  SelectSeq(Listing(node), LAMBDA t : t # "{"),
                  FirstOr(options, UnionOptions({})))
visitClassType(node, visited) ==
    ClassType(TextOf(node.kids[2]), Only(visited, "FieldType"),
              FirstOr(Only(visited, "ClassOptions"), ClassOptions({})))
visitFieldType(node, visited) ==
    LET annotations == Only(visited, "Annotation")
        n == Len(annotations)
    IN  FieldType(TextOf(node.kids[n + 1]), visited[n + 1],
                  FirstOr(Only(visited, "FieldOptions"), FieldOptions({})),
                  annotations, FirstOr(Only(visited, "Value"), NoDefault))
visitNamespaceType(node, visited) ==
    NamespaceType(TextOf(node.kids[2]), Others(visited, "NamespaceType"),
                  Only(visited, "NamespaceType"))

RECURSIVE VisitChildren(_, _)
\* visitChildren, with aggregateResult: the results of the children in their
\* order, tokens having none.
VisitChildren(node, p) ==
    FlattenSeq([i \in DOMAIN node.kids |->
        LET kid == node.kids[i]
            visited == VisitChildren(kid, p)
        IN  CASE kid.rule = "enumType" -> <<visitEnumType(kid)>>
              [] kid.rule = "classType" -> <<visitClassType(kid, visited)>>
              [] kid.rule = "unionType" -> <<visitUnionType(kid, visited, p)>>
              [] kid.rule = "namespaceType" -> <<visitNamespaceType(kid, visited)>>
              [] kid.rule = "fieldType" -> <<visitFieldType(kid, visited)>>
              [] kid.rule = "dataType" -> <<visitDataType(kid)>>
              [] kid.rule = "arrayType" -> <<ArrayType(visited[1])>>
              [] kid.rule = "optionType" -> <<OptionType(visited[1])>>
              [] kid.rule = "classOptions" -> <<ClassOptions(WordsIn(kid))>>
              [] kid.rule = "unionOptions" -> <<UnionOptions(WordsIn(kid))>>
              [] kid.rule = "fieldOptions" -> <<FieldOptions(WordsIn(kid))>>
              [] kid.rule = "annotation" -> <<Annotation(TextOf(kid.kids[2]), visited)>>
              [] kid.rule = "value" -> <<visitValue(kid)>>
              [] OTHER -> <<>>])

---------------------------------------------------------------------------
\* The type validator: what is used must be available under the same prefix.

\* Mutant: every platform goes by the name of the namespace.
PrefixByName(node, p) == <<TextOf(node.kids[2])>>

\* The whole text of a namespace in Python, its name in Kotlin.
PrefixPart(node, p) == IF p = "python" THEN Texts(node) ELSE <<TextOf(node.kids[2])>>
Extend(prefix, node, p) ==
    IF node.rule = "namespaceType" THEN Append(prefix, PrefixPart(node, p)) ELSE prefix

RECURSIVE Available(_, _, _), Used(_, _, _)
Available(node, prefix, p) ==
    (IF node.rule \in Definitions \ {"namespaceType"}
     THEN {<<prefix, TextOf(node.kids[2])>>} ELSE {})
    \cup UNION {Available(node.kids[i], Extend(prefix, node, p), p) : i \in DOMAIN node.kids}

\* The visitor comes to no children of an enum, and a union's are names.
Used(node, prefix, p) ==
    (IF node.rule = "dataType" /\ TextOf(node) \notin Builtin
     THEN {<<prefix, TextOf(node)>>} ELSE {})
    \cup UNION {Used(node.kids[i], Extend(prefix, node, p), p) : i \in DOMAIN node.kids}

Validate(root, p) == Used(root, <<>>, p) \subseteq Available(root, <<>>, p)

---------------------------------------------------------------------------
\* What an engine asks of its tree.

Unresolved == [node |-> "unresolved"]
Named(list, names) == SelectSeq(list, LAMBDA x : x.node \in names)
\* Mutant: a name that is defined twice is refused.
ResolveUnique(list, name) ==
    LET found == SelectSeq(Named(list, {"ClassType", "EnumType", "UnionType"}),
                           LAMBDA x : x.name = name)
    IN  IF Len(found) = 1 THEN found[1] ELSE Unresolved

Resolve(list, name) ==
    FirstOr(SelectSeq(Named(list, {"ClassType", "EnumType", "UnionType"}),
                      LAMBDA x : x.name = name), Unresolved)
RootType(list) ==
    LET classes == Named(list, {"ClassType", "UnionType"})
    IN  FirstOr(SelectSeq(classes, LAMBDA x : "primary" \in x.options.words),
                FirstOr(classes, Unresolved))

---------------------------------------------------------------------------
\* How an author writes a definition down, after the grammar.

Literal(text) == [kind |-> text, text |-> text]
Identifier(text) == [kind |-> "IDENTIFIER", text |-> text]
Braced(tokens) == <<Literal("{")>> \o tokens \o <<Literal("}")>>
Bracketed(tokens) == <<Literal("(")>> \o tokens \o <<Literal(")")>>
Each(seq, Op(_)) == FlattenSeq([i \in DOMAIN seq |-> Op(seq[i])])

SpellOptions(options) ==
    IF options.words = {} THEN <<>>
    ELSE Bracketed([i \in DOMAIN SetToSeq(options.words) |->
                        Literal(SetToSeq(options.words)[i])])
SpellValue(v) ==
    <<CASE v.is = "list" -> Literal("[]")
        [] v.is = "map" -> Literal("[:]")
        [] OTHER -> [kind |-> Kinds[v.text], text |-> v.text]>>
SpellAnnotation(a) ==
    <<Literal("@"), Identifier(a.name)>>
        \o IF a.values = <<>> THEN <<>> ELSE Bracketed(SpellValue(a.values[1]))

RECURSIVE SpellType(_)
SpellType(t) ==
    CASE t.node = "Datatype" -> <<Literal(t.name)>>
      [] t.node = "RefType" -> <<Identifier(t.name)>>
      [] t.node = "ArrayType" -> <<Literal("[")>> \o SpellType(t.of) \o <<Literal("]")>>
      [] t.node = "OptionType" -> SpellType(t.of) \o <<Literal("?")>>

SpellField(f) ==
    Each(f.annotations, SpellAnnotation) \o <<Identifier(f.name), Literal(":")>>
        \o SpellType(f.datatype) \o SpellOptions(f.options)
        \o IF f.default = NoDefault THEN <<>> ELSE <<Literal("=")>> \o SpellValue(f.default)
SpellNames(names) == [i \in DOMAIN names |-> Identifier(names[i])]

RECURSIVE Spell(_)
Spell(d) ==
    CASE d.node = "EnumType" ->
           <<Literal("enum"), Identifier(d.name)>> \o Braced(SpellNames(d.values))
      [] d.node = "ClassType" ->
           <<Literal("class"), Identifier(d.name)>> \o SpellOptions(d.options)
               \o Braced(Each(d.fields, SpellField))
      [] d.node = "UnionType" ->
           <<Literal("union"), Identifier(d.name)>> \o SpellOptions(d.options)
               \o Braced(SpellNames(d.values))
      [] d.node = "NamespaceType" ->
           <<Literal("namespace"), Identifier(d.name)>>
               \o Braced(Each(d.list, Spell) \o Each(d.nested, Spell))

---------------------------------------------------------------------------
\* The pieces of a text, with those that were appended again or once each.

PiecesOf(log) == Each(log, LAMBDA e : [i \in 1..e.times |-> e.piece])
Once(log) == [i \in DOMAIN log |-> log[i].piece]
Retries == Len(PiecesOf(appended)) - Len(appended)

\* DynabuffersResource.append raises whatever it was given, after it took a
\* text.  In Kotlin it takes texts, streams and readers.
Takes(source) == platform = "kotlin" \/ source \in Texted
Raises == platform = "python"

\* The schema text of an argument of Dynabuffers.parse.
Readable == Texted \cup {"InputStream", "DynabuffersResource"}
TextIn(source) ==
    IF source = "DynabuffersResource" THEN builder ELSE Each(Once(appended), Spell)

---------------------------------------------------------------------------
Init ==
    /\ platform \in Platforms
    /\ builder = <<>> /\ appended = <<>> /\ failed = <<>>
    /\ tree = <<>> /\ outcome = "none"

\* The author appends a definition, after a failure perhaps the same again.
AppendPiece(piece, source) ==
    LET isAgain == failed = <<piece>> /\ appended # <<>> /\ Last(appended).piece = piece
        n == Len(appended)
    IN  /\ outcome = "none"
        /\ IF isAgain THEN Retries < MaxRetries ELSE n < MaxPieces
        /\ failed' = IF Raises THEN <<piece>> ELSE <<>>
        /\ IF Takes(source)
           THEN /\ builder' = builder \o Spell(piece)
                /\ appended' =
                     IF isAgain THEN [appended EXCEPT ![n].times = @ + 1]
                     ELSE Append(appended, [piece |-> piece, times |-> 1])
           ELSE UNCHANGED <<builder, appended>>
        /\ UNCHANGED <<platform, tree, outcome>>

\* Mutant: the engine is there before the validator has spoken.
ParseThenValidate(source) ==
    /\ outcome = "none" /\ appended # <<>>
    /\ LET root == Parse(TextIn(source))
       IN  /\ tree' = VisitChildren(root, platform)
           /\ outcome' = IF Validate(root, platform) THEN "tree" ELSE "rejected"
    /\ UNCHANGED <<platform, builder, appended, failed>>

\* Dynabuffers.parse.
ParseSchema(source) ==
    /\ outcome = "none" /\ appended # <<>>
    /\ LET root == Parse(TextIn(source))
       IN  IF source \notin Readable
           THEN outcome' = "refused" /\ UNCHANGED tree
           ELSE IF Validate(root, platform)
           THEN outcome' = "tree" /\ tree' = VisitChildren(root, platform)
           ELSE outcome' = "rejected" /\ UNCHANGED tree
    /\ UNCHANGED <<platform, builder, appended, failed>>

Next ==
    \/ \E piece \in Pieces, source \in Sources \ {"DynabuffersResource"} :
           AppendPiece(piece, source)
    \/ \E source \in Sources : ParseSchema(source)

Spec == Init /\ [][Next]_vars

---------------------------------------------------------------------------
\* Properties.

Outcomes == {"none", "tree", "rejected", "refused"}
Token == [kind : STRING, text : STRING]

\* The text is made of tokens and of as many pieces as were appended, and an
\* engine gets nothing but definitions.
TypeOK ==
    /\ platform \in Platforms /\ outcome \in Outcomes
    /\ builder \in Seq(Token)
    /\ \A i \in DOMAIN appended : appended[i].piece \in Pieces
    /\ failed = <<>> \/ failed[1] \in Pieces
    /\ Retries <= MaxRetries /\ Len(appended) <= MaxPieces
    /\ outcome # "tree" => tree = <<>>
    /\ \A i \in DOMAIN tree :
           tree[i].node \in {"EnumType", "ClassType", "UnionType", "NamespaceType"}

RECURSIVE Kept(_, _)
\* A definition as a platform keeps it: Python loses the options of unions.
Kept(d, p) ==
    CASE d.node = "UnionType" /\ p = "python" ->
           [d EXCEPT !.options = UnionOptions({})]
      [] d.node = "NamespaceType" ->
           NamespaceType(d.name, [i \in DOMAIN d.list |-> Kept(d.list[i], p)],
                         [i \in DOMAIN d.nested |-> Kept(d.nested[i], p)])
      [] OTHER -> d
KeptAll(pieces) == [i \in DOMAIN pieces |-> Kept(pieces[i], platform)]

\* The tree an engine is built on is the schema its author wrote, definition
\* for definition, field for field, in the order of the text: nothing is
\* swallowed by a neighbour, no option, default or annotation moves to another
\* field.  The text of a resource holds what was appended again twice.
TreeIsWhatWasWritten ==
    outcome = "tree" =>
        \/ tree = KeptAll(Once(appended))
        \/ tree = KeptAll(PiecesOf(appended))

RECURSIVE Schemas(_, _)
\* Every list of definitions that an engine may resolve names in, with the
\* names of the namespaces around it.
Schemas(list, path) ==
    LET inner(ns) ==
            {[path |-> Append(path, ns.name), list |-> ns.list]}
                \cup Schemas(ns.nested, Append(path, ns.name))
    IN  UNION {inner(list[i]) : i \in {j \in DOMAIN list : list[j].node = "NamespaceType"}}
AllSchemas(list) == {[path |-> <<>>, list |-> list]} \cup Schemas(list, <<>>)

RECURSIVE RefIn(_)
RefIn(type) ==
    CASE type.node = "RefType" -> {type.name}
      [] type.node = "Datatype" -> {}
      [] OTHER -> RefIn(type.of)
References(list) ==
    LET classes == Named(list, {"ClassType"})
    IN  UNION {UNION {RefIn(classes[i].fields[j].datatype) : j \in DOMAIN classes[i].fields} :
                   i \in DOMAIN classes}

\* Python resolves in the list of the class, Kotlin validates against every
\* namespace of the same name.
IsResolvable(name, schema, all) ==
    \E other \in all :
        /\ other.path = schema.path
        /\ platform = "python" => other.list = schema.list
        /\ Resolve(other.list, name) # Unresolved
AllResolve(list) ==
    \A schema \in AllSchemas(list) : \A name \in References(schema.list) :
        IsResolvable(name, schema, AllSchemas(list))

\* A schema is accepted exactly when every reference of a field finds its type
\* where the engine will look for it: what the validator computes on the parse
\* tree from texts agrees with what the registry computes on the types.
AcceptedIffResolvable ==
    /\ outcome = "tree" => AllResolve(tree)
    /\ outcome = "rejected" => ~AllResolve(KeptAll(PiecesOf(appended)))

NamespaceNamed(list, name) ==
    FirstOr(SelectSeq(Only(list, "NamespaceType"), LAMBDA x : x.name = name), Unresolved)
TopNames(list) == {list[i].name : i \in DOMAIN list}

\* An append of Python always raises, and has taken the text: an author who
\* appends the piece again doubles it.  The engine of the doubled schema has
\* the same root type and the same type behind every name and namespace.
RetryChangesNothing ==
    outcome = "tree" =>
        LET once == KeptAll(Once(appended))
        IN  /\ RootType(tree) = RootType(once)
            /\ \A name \in TopNames(once) :
                   /\ Resolve(tree, name) = Resolve(once, name)
                   /\ NamespaceNamed(tree, name) = NamespaceNamed(once, name)

\* The first class or union that is declared primary is the root type.
PrimaryIsRoot ==
    outcome = "tree" =>
        LET primary == SelectSeq(Named(Once(appended), {"ClassType", "UnionType"}),
                                 LAMBDA d : "primary" \in d.options.words)
        IN  primary # <<>> => RootType(tree).name = Head(primary).name
===========================================================================
