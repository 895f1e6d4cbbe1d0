----------------------------- MODULE MCEngine -----------------------------
(***************************************************************************)
(* Schemas, dicts and callers for Engine.                                  *)
(***************************************************************************)
EXTENDS EngineTransport

CONSTANTS c1, c2, d1, s1, s2, a1, a2

Plain(name, kind) ==
    [name |-> name, kind |-> kind, option |-> FALSE, default |-> Absent,
     deprecated |-> FALSE, refuses |-> {}]
Optional(name, kind) == [Plain(name, kind) EXCEPT !.option = TRUE]
Defaulted(name, kind, cell) == [Plain(name, kind) EXCEPT !.default = cell]

Class(name, fields) ==
    [name |-> name, primary |-> FALSE, deprecated |-> FALSE, implicit |-> FALSE,
     fields |-> fields]

Red == Text(<<114>>)
Blue == Text(<<98, 108>>)

ScratchOf == c1 :> s1 @@ c2 :> s2

\* namespace a { class A(deprecated) { count:byte(annotated)  value:string? } }
\* namespace b { namespace c { class O {..}  class C(primary) { value:string = red
\*                                                              count:byte? } } }
TwoNested == <<>> :> <<"a", "b">> @@ <<0>> :> <<>> @@ <<1>> :> <<"c">> @@ <<1, 0>> :> <<>>
TwoClasses ==
    <<>> :> <<>> @@
    <<0>> :> <<[Class("A", <<[Plain("count", "byte") EXCEPT !.refuses = {Number(7)}],
                             Optional("value", "string")>>)
                EXCEPT !.deprecated = TRUE]>> @@
    <<1>> :> <<>> @@
    <<1, 0>> :> <<Class("O", <<Plain("count", "string")>>),
                  [Class("C", <<Defaulted("value", "string", Red),
                                Optional("count", "byte")>>)
                   EXCEPT !.primary = TRUE]>>
\* namespace a { class A { count:byte }
\*               namespace b { class Data(implicit) { value:string  count:byte? } } }
ChainNested == <<>> :> <<"a">> @@ <<0>> :> <<"b">> @@ <<0, 0>> :> <<>>
ChainClasses ==
    <<>> :> <<>> @@
    <<0>> :> <<Class("A", <<Plain("count", "byte")>>)>> @@
    <<0, 0>> :> <<[Class("Data", <<Plain("value", "string"),
                                   Optional("count", "byte")>>)
                   EXCEPT !.implicit = TRUE]>>
ChainNames == {NoNames, <<"a">>}
TwoNames == {NoNames, <<"a">>, <<"b", "c">>, <<"x">>}
AcrossNames == {<<"a">>, <<"b", "c">>}
NoScalars == {}
TwoKeys == {"count", "value"}
TwoCells == {Absent, None, Number(7), Number(9), Number(300), Red}
FewCells == {Absent, None, Number(9), Red}
RedOnly == {Red}

============================================================================
