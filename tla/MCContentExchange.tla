------------------------- MODULE MCContentExchange -------------------------
(***************************************************************************)
(* A schema, and the values callers of the two libraries start with.       *)
(***************************************************************************)
EXTENDS ContentExchange

Lettered(t, bytes, letters, units) ==
    [t |-> t, bytes |-> bytes, letters |-> letters, units |-> units, blank |-> {}]
AText(t, bytes) == Lettered(t, bytes, Len(bytes), Len(bytes))
Blank(x, platforms) == [x EXCEPT !.blank = platforms]

\* "u" is a letter of two bytes, "au" one of four and two units after another,
\* "nel" what only Python takes for white space.
SomeTexts ==
    {Blank(AText("", <<>>), Platforms), Blank(AText(" ", <<32>>), Platforms),
     Blank(Lettered("nel", <<194, 133>>, 1, 1), {"python"}),
     Lettered("au", <<97, 240, 159, 152, 128>>, 2, 3), AText("a", <<97>>), AText("b", <<98>>),
     Lettered("u", <<195, 188>>, 1, 1), AText("k", <<107>>), AText("l", <<108>>),
     AText("RED", <<82, 69, 68>>), AText("GREEN", <<71, 82, 69, 69, 78>>),
     AText("5", <<53>>), AText("2.0", <<50, 46, 48>>),
     AText("null", <<110, 117, 108, 108>>), AText("None", <<78, 111, 110, 101>>),
     AText("true", <<116, 114, 117, 101>>), AText("True", <<84, 114, 117, 101>>),
     AText("false", <<102, 97, 108, 115, 101>>), AText("False", <<70, 97, 108, 115, 101>>),
     AText("garbled", <<63>>), AText(":type", <<58>>), AText("n", <<110>>), AText("t", <<116>>),
     AText("o", <<111>>), AText("f", <<102>>), AText("m", <<109>>), AText("c", <<99>>),
     AText("us", <<117, 115>>), AText("cs", <<99, 115>>), AText("A", <<65>>), AText("B", <<66>>), AText("os", <<111, 115>>), AText("long", [i \in 1..256 |-> 97])}

SomeNumbers == [t \in {"5", "2.0"} |-> IF t = "5" THEN Number("int", 5) ELSE Number("float", 4)]

----------------------------------------------------------------------------
Rule(name, bound) == [name |-> name, values |-> <<2 * bound>>]
NotBlank == [name |-> "NotBlank", values |-> <<>>]
Field(name, T, default, rules) ==
    [name |-> name, type |-> T, default |-> default, rules |-> rules]
Plainly(name, T) == Field(name, T, <<>>, {})
Ruled(name, T, rules) == Field(name, T, <<>>, rules)
Declare(is, name, fields, values) ==
    [is |-> is, name |-> name, fields |-> fields, values |-> values]

\* A bound with a sign or a fraction, one too many or missing, no annotation.
Malformed == <<
    Rule("GreaterThan", -4), [name |-> "LowerThan", values |-> <<21>>],
    [name |-> "NotBlank", values |-> <<2>>], [name |-> "MaxLength", values |-> <<>>],
    Rule("Unheard", 4)>>

\* enum Color { RED GREEN }  class A { a:string }  class B { a:string b:string? }
\* union U { A B }  class C { a:string b:string }  union V { C A }
\* class Rules { ... }  class Defaults { ... }
SomeSchema == <<
    Declare("enum", "Color", <<>>, <<"RED", "GREEN">>),
    Declare("class", "A", <<Plainly("a", Scalar("string"))>>, <<>>),
    Declare("class", "B", <<Plainly("a", Scalar("string")),
                            Plainly("b", OptionOf(Scalar("string")))>>, <<>>),
    Declare("union", "U", <<>>, <<"A", "B">>),
    Declare("class", "C", <<Plainly("a", Scalar("string")), Plainly("b", Scalar("string"))>>, <<>>),
    Declare("union", "V", <<>>, <<"C", "A">>),
    Declare("class", "Rules",
        <<Ruled("n", Scalar("int"), {Rule("GreaterThan", 3), Rule("LowerEquals", 10)}),
          Field("t", Scalar("string"), <<Text("a")>>,
                {NotBlank, Rule("MinLength", 1), Rule("MaxLength", 2)}),
          Ruled("o", OptionOf(Scalar("string")), {Rule("MaxLength", 4)})>>, <<>>),
    Declare("class", "Defaults",
        <<Field("t", Scalar("string"), <<Text("5")>>, {}),
          Field("n", Scalar("int"), <<Text("5")>>, {}),
          Field("f", Scalar("float"), <<Text("2.0")>>, {}),
          Field("b", Scalar("boolean"), <<Text("true")>>, {}),
          Field("l", ArrayOf(Scalar("string")), <<List(<<>>)>>, {}),
          Field("m", Scalar("map"), <<Map(<<>>)>>, {}),
          Field("c", RefTo("Color"), <<Text("RED")>>, {})>>, <<>>),
    Declare("class", "ByteDefault", <<Field("n", Scalar("byte"), <<Text("5")>>, {})>>, <<>>),
    Declare("class", "Signed",
        <<Ruled("n", Scalar("byte"), {Rule("GreaterEquals", 128)}),
          Ruled("f", OptionOf(Scalar("float")), {Rule("LowerThan", 9), Rule("GreaterThan", 1)})>>, <<>>),
    Declare("class", "Fine",
        <<Ruled("n", Scalar("int"), {Rule("LowerEquals", 16)}),
          Ruled("f", Scalar("float"), {Rule("GreaterThan", 8)})>>, <<>>),
    Declare("class", "Nest",
        <<Plainly("us", ArrayOf(RefTo("U"))), Plainly("cs", ArrayOf(RefTo("Color"))),
          Plainly("o", OptionOf(RefTo("B"))), Plainly("os", OptionOf(ArrayOf(Scalar("int")))),
          Plainly("m", Scalar("map"))>>, <<>>)>>
    \o [i \in 1..Len(Malformed) |->
           Declare("class", "Malformed" \o ToString(i), <<Ruled("n", Scalar("int"), {Malformed[i]})>>, <<>>)]

----------------------------------------------------------------------------
Case(p, T, v) == [on |-> p, type |-> T, value |-> v]
On(p, T, vs) == {Case(p, T, v) : v \in vs}
Both(T, vs) == On("python", T, vs) \cup On("kotlin", T, vs)

N(n) == Number("int", n)
Ints(ns) == [i \in 1..Len(ns) |-> N(ns[i])]
Edges(w) == {-(256^w \div 2), -(256^w \div 2) - 1, -1, 0, (256^w \div 2) - 1, 256^w \div 2}

ScalarCases ==
    On("python", Scalar("byte"), {N(n) : n \in {0, 127, 128, 255, 256, -1}} \cup {Text("5"), Null})
    \cup On("kotlin", Scalar("byte"), {Number("byte", n) : n \in {0, 127, -128, -1}}
                                      \cup {N(128), Text("5"), Null})
    \cup Both(Scalar("short"), {N(n) : n \in Edges(ShortWidth)})
    \cup Both(Scalar("int"), {N(n) : n \in Edges(IntWidth)} \cup {Text("5"), Text("2.0"), Bool(TRUE)})
    \cup Both(Scalar("long"), {N(n) : n \in Edges(IntWidth)})
    \cup On("kotlin", Scalar("long"), {Number("long", 256^IntWidth)})
    \cup Both(Scalar("float"), {Number("float", 5), Number("float", -3), N(2), N(69), Text("2.0"), Text("a")})
    \cup On("python", Scalar("float"), {Number("float", n) : n \in {17, 33, 47, -33}}
                                        \cup {N(16383), N(16384), Number("float", 32256)})
    \cup On("kotlin", Scalar("float"), {N(16384), N(-16384), Number("float", 30720)})
    \cup Both(Scalar("boolean"), {Bool(TRUE), Bool(FALSE), Text("true"), Text("True"), Null})
    \cup Both(Scalar("string"), {Text(""), Text("u"), Text("RED"), N(5), Null})

ArrayCases ==
    Both(ArrayOf(Scalar("byte")), {Array("byte", Ints(<<>>)), List(Ints(<<1, 2>>))})
    \cup On("python", ArrayOf(Scalar("byte")), {Array("byte", Ints(<<200, 7>>))})
    \cup On("kotlin", ArrayOf(Scalar("byte")), {Array("byte", <<Number("byte", -56)>>)})
    \cup On("kotlin", ArrayOf(Scalar("boolean")), {Array("boolean", <<Bool(TRUE)>>)})
    \cup On("kotlin", ArrayOf(Scalar("int")), {Array("byte", <<Number("byte", 7)>>)})
    \cup Both(ArrayOf(Scalar("int")), {List(Ints(<<1, -2>>)), List(<<N(1), Null>>), Null})
    \cup Both(ArrayOf(Scalar("float")), {List(<<Number("float", 5)>>)})
    \cup Both(ArrayOf(Scalar("string")), {List(<<Text("u"), Text("")>>), List(<<Text("a"), Null>>)})
    \cup Both(ArrayOf(Scalar("map")), {List(<<Map(<<Entry("k", N(1))>>), Map(<<>>)>>)})
    \cup Both(OptionOf(ArrayOf(Scalar("int"))), {Null, List(Ints(<<3>>))})

InMap(v) == Map(<<Entry("k", v), Entry("l", Text("b"))>>)

MapCases ==
    Both(Scalar("map"), {Map(<<>>), InMap(Text("u")), InMap(Bool(FALSE)), InMap(Null),
                         InMap(N(5)), InMap(Number("float", 5)), InMap(InMap(N(-1))),
                         InMap(List(<<>>)), InMap(List(Ints(<<1, 2>>))),
                         InMap(List(<<Text("a"), Text("u")>>)), InMap(List(<<InMap(Text("a"))>>)),
                         InMap(List(<<List(Ints(<<1>>))>>)), InMap(List(<<Null>>)),
                         InMap(List(<<Bool(TRUE), Bool(FALSE)>>))})
    \cup On("python", Scalar("map"), {InMap(N(256^IntWidth)), InMap(Array("byte", Ints(<<7>>))),
                                      InMap(Number("float", 33)),
                                      InMap(List(<<Number("float", 17), Number("float", 5)>>))})
    \cup On("kotlin", Scalar("map"), {InMap(Number("byte", 7)), InMap(Number("short", -7)),
                                      InMap(Number("long", 7)), InMap(List(<<Number("short", 3)>>)),
                                      InMap(List(<<Number("long", 3)>>)), InMap(List(<<Number("byte", 3)>>)),
                                      InMap(Array("int", Ints(<<1>>)))})

ABMap(a, b) == Map(<<Entry("a", Text(a)), Entry("b", b)>>)
Hinted(v, hint) == Map(Append(v.items, Entry(":type", hint)))

ClassCases ==
    Both(RefTo("Color"), {Text("RED"), Text("GREEN"), Text("a"), Text("long")})
    \cup Both(RefTo("B"), {ABMap("a", Text("b")), ABMap("a", Null), Map(<<Entry("a", Text("u"))>>),
                           Map(<<Entry("a", Null)>>), Map(<<Entry("b", Text("b"))>>), Null})
    \cup Both(RefTo("U"), {Map(<<Entry("a", Text("a"))>>), ABMap("a", Text("b")), ABMap("a", Null), Map(<<>>),
                           Hinted(Map(<<Entry("a", Text("a"))>>), N(0)),
                           Hinted(Map(<<Entry("a", Text("a"))>>), Text("B")),
                           Hinted(Map(<<Entry("a", Text("a"))>>), N(1)),
                           Hinted(Map(<<Entry("a", Text("a"))>>), N(2)),
                           Hinted(ABMap("a", Text("b")), Text("A"))})
    \cup Both(RefTo("Defaults"), {Map(<<>>), Map(<<Entry("t", Text("u")), Entry("n", N(-3)), Entry("b", Bool(FALSE)),
                                                   Entry("l", List(<<Text("a")>>)), Entry("c", Text("GREEN"))>>)})
    \cup Both(RefTo("Nest"),
              {Map(<<Entry("us", List(<<Map(<<Entry("a", Text("a"))>>), ABMap("b", Null)>>)),
                     Entry("cs", List(<<Text("GREEN"), Text("RED")>>)),
                     Entry("o", Map(<<Entry("a", Text("u"))>>)),
                     Entry("m", Map(<<Entry("k", Bool(TRUE))>>))>>),
               Map(<<Entry("us", List(<<>>)), Entry("cs", List(<<>>)), Entry("m", Map(<<>>)),
                     Entry("os", List(Ints(<<5>>)))>>)})

RuleMap(n, t, o) == Map(<<Entry("n", n), Entry("t", t), Entry("o", o)>>)

RuleCases ==
    Both(RefTo("Rules"),
         {RuleMap(N(n), t, o) : n \in {3, 4, 10, 11}, t \in {Text("a"), Text(" "), Text("au"), Text("nel"), Text("RED")},
                                  o \in {Null, Text("GREEN"), Text("u")}}
         \cup {Map(<<Entry("n", Text("5"))>>)})
    \cup Both(RefTo("Signed"),
              {Map(<<Entry("n", N(n)), Entry("f", x)>>) :
                  n \in {127, 128, 200}, x \in {Null, Number("float", 2), N(3), N(9)}})
    \cup Both(RefTo("Fine"), {Map(<<Entry("n", N(n)), Entry("f", N(f))>>) : n \in {16, 17, 18}, f \in {8, 9}})
    \cup On("python", RefTo("Fine"), {Map(<<Entry("n", N(16)), Entry("f", Number("float", h))>>) : h \in {17, 24, 25}})
    \cup UNION {Both(RefTo("Malformed" \o ToString(i)), {Map(<<Entry("n", N(5))>>)}) :
                   i \in 1..Len(Malformed)}

----------------------------------------------------------------------------
\* Maps at the limits of a count of one byte and a length of one byte: keys
\* "#1", "#2", ... and texts of 249 bytes and more.
LongTexts == {"x" \o ToString(n) : n \in 249..252}

AllTexts ==
    SomeTexts
        \cup {AText("#" \o ToString(i), <<35, i>>) : i \in 1..129}
        \cup {AText("x" \o ToString(n), [i \in 1..n |-> 120]) : n \in 249..252}

ManyEntries(n, v) == Map([i \in 1..n |-> Entry("#" \o ToString(i), v)])

LimitCases ==
    Both(Scalar("map"),
         {ManyEntries(n, Null) : n \in 126..129}
         \cup {InMap(Text(t)) : t \in LongTexts}
         \cup {InMap(Map(<<Entry("k", Text(t))>>)) : t \in LongTexts}
         \cup {InMap(List([i \in 1..n |-> N(i)])) : n \in 124..126}
         \cup {InMap(N(n)) : n \in {127, 128, -129, 32767, -32768}})
    \cup On("python", Scalar("map"), {InMap(N(n)) : n \in {32768, -32769, 65536, 8388607, -8388608, 8388608}})
    \cup On("kotlin", Scalar("map"), {InMap(Number("long", n)) : n \in {32768, 8388607, -8388608}})
    \cup On("python", Scalar("map"), {InMap(List(Ints(ns))) : ns \in {<<32768, 7>>, <<7, 32768>>}})
    \cup On("kotlin", Scalar("map"),
            {InMap(List([i \in 1..2 |-> Number("long", ns[i])])) : ns \in {<<32768, 7>>, <<7, 32768>>}}
            \cup {InMap(ManyEntries(n, Number("byte", 7))) : n \in 31..32})

----------------------------------------------------------------------------
\* The key null beside another.
NullKeyCases == Both(Scalar("map"), {Map(<<Entry(NoKey, N(1)), Entry("k", N(5))>>)})

\* Values on which the code and its documentation, or the two libraries, part.
EdgeCases ==
    NullKeyCases
    \cup Both(Scalar("map"), {InMap(List(<<Bool(TRUE), N(5)>>)), InMap(Text("long"))})
    \cup On("kotlin", Scalar("map"), {InMap(Number("byte", -56))})
    \cup On("kotlin", RefTo("Defaults"), {Map(<<Entry("t", Null)>>)})
    \cup Both(RefTo("ByteDefault"), {Map(<<>>), Map(<<Entry("n", N(7))>>)})
    \cup Both(RefTo("V"), {Map(<<Entry("a", Text("a"))>>), ABMap("a", Text("b")),
                           Hinted(Map(<<Entry("a", Text("a"))>>), Text("A"))})
    \cup On("python", RefTo("Rules"), {RuleMap(Number("float", 7), Text("a"), Null)})

AllCases ==
    ScalarCases \cup ArrayCases \cup MapCases \cup ClassCases \cup RuleCases
        \cup LimitCases \cup EdgeCases

============================================================================
