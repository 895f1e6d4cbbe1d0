---------------------------- MODULE MCTypedMaps ----------------------------
(***************************************************************************)
(* A schema in which classes share field names and references nest, and    *)
(* messages of it as callers of each library make them.                    *)
(***************************************************************************)
EXTENDS TypedMaps

AText(t, bytes) ==
    [t |-> t, bytes |-> bytes, letters |-> Len(bytes), units |-> Len(bytes), blank |-> {}]
MCNames == <<"r", "u", "e", "o", "m", "l", "y", "value", "n", "short", "byte", "long", "f", "t",
             ":type", ":namespace">>
MCTexts ==
    {AText("a", <<97>>), AText("b", <<98>>), AText("k", <<107>>), AText("s", <<115>>), AText("N", <<78>>),
     AText("RED", <<82, 69, 68>>), AText("null", <<110, 117>>), AText("None", <<78, 111>>),
     AText("true", <<116>>), AText("True", <<84>>), AText("false", <<102>>),
     AText("False", <<70>>), AText("garbled", <<63>>), AText("", <<>>)}
        \cup {AText(MCNames[i], <<128, i>>) : i \in DOMAIN MCNames}
MCSpells == [t \in {} |-> Null]

Field(name, T) == [name |-> name, type |-> T, default |-> <<>>, rules |-> {}]
Declare(is, name, fields, values) ==
    [is |-> is, name |-> name, fields |-> fields, values |-> values]

\* union Y { B A }: the class is not the first one, and it is in U as well.
MCDeclarations == <<
    Declare("enum", "E", <<>>, <<"RED", "b">>),
    Declare("class", "A", <<Field("s", Scalar("string")), Field("r", Scalar("string")),
                            Field("u", RefTo("U"))>>, <<>>),
    Declare("class", "B", <<Field("s", OptionOf(Scalar("string"))), Field("value", Scalar("int"))>>, <<>>),
    Declare("class", "C", <<Field("s", Scalar("float"))>>, <<>>),
    Declare("union", "U", <<>>, <<"C", "B">>),
    Declare("union", "Y", <<>>, <<"B", "A">>),
    Declare("class", "Numbers",
        <<Field("n", Scalar("int")), Field("short", Scalar("short")), Field("byte", Scalar("byte")),
          Field("long", Scalar("long")), Field("f", Scalar("float")), Field("t", Scalar("boolean"))>>, <<>>),
    Declare("class", "All",
        <<Field("s", OptionOf(Scalar("string"))), Field("r", RefTo("A")), Field("e", RefTo("E")),
          Field("u", RefTo("U")), Field("o", OptionOf(RefTo("B"))), Field("m", Scalar("map")),
          Field("l", ArrayOf(RefTo("C"))), Field("y", ArrayOf(Scalar("byte")))>>, <<>>)>>

Num(p, kind, n) == Number(IF p = "python" /\ kind # "float" THEN "int" ELSE kind, n)
Bytes(p, ns) == Array("byte", [i \in DOMAIN ns |-> Num(p, "byte", ns[i])])

OfC(h) == Map(<<Entry("s", Number("float", h))>>)
OfB(p, s, n) == Map(<<Entry("s", s), Entry("value", Num(p, "int", n))>>)
OfA(s, u) == Map(<<Entry("s", Text(s)), Entry("r", Text("b")), Entry("u", u)>>)
OfNumbers(p, n, b) ==
    Map(<<Entry("n", Num(p, "int", n)), Entry("short", Num(p, "short", -7)),
          Entry("byte", Num(p, "byte", b)), Entry("long", Num(p, "long", n)),
          Entry("f", Number("float", -5)), Entry("t", Bool(TRUE))>>)
OfAll(p, s, u, o) ==
    Map(<<Entry("s", s), Entry("r", OfA("a", u)), Entry("e", Text("RED")), Entry("u", u),
          Entry("o", o), Entry("m", Map(<<Entry("s", Text("k")), Entry("k", Num(p, "int", 2))>>)),
          Entry("l", List(<<OfC(1)>>)), Entry("y", Bytes(p, <<1, 2>>))>>)

Message(p, root, implicit, ns, v) ==
    [on |-> p, root |-> root, implicit |-> implicit, ns |-> ns, value |-> v]

MCMessages == UNION {
    {Message(p, "All", FALSE, ns, OfAll(p, s, u, o)) :
        ns \in BOOLEAN, s \in {Null, Text("a")}, u \in {OfC(3), OfB(p, Null, 4)},
        o \in {Null, OfB(p, Text("b"), 5)}}
    \cup {Message(p, "Numbers", FALSE, FALSE, OfNumbers(p, n, b)) : n \in {3, 300, -300}, b \in {5, 127}}
    \cup {Message(p, "B", TRUE, FALSE, OfB(p, s, 4)) : s \in {Null, Text("a")}}
    \cup {Message(p, "Y", FALSE, TRUE, v) : v \in {OfB(p, Null, 4), OfA("a", OfC(1))}} :
        p \in Platforms}

MCAsked == {"s", "r", "u", "o", "m", "l", "y", "e", "k", "value", ":type", ":namespace"}
                \cup {"n", "short", "byte", "long", "f", "t", "unknown"}
===========================================================================
