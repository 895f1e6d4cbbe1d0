--------------------------- MODULE MCSchemaFront ---------------------------
(***************************************************************************)
(* Schemas of up to three definitions out of a dozen that use every rule   *)
(* of the grammar, for both platforms.                                     *)
(***************************************************************************)
EXTENDS SchemaFront

MCKinds ==
    ("5" :> "NUMBER") @@ ("'x'" :> "STRING") @@ ("true" :> "BOOLEAN") @@ ("No" :> "IDENTIFIER")

Plain(name, type) == FieldType(name, type, FieldOptions({}), <<>>, NoDefault)
Deprecated(name, type, default_) ==
    FieldType(name, type, FieldOptions({"deprecated"}), <<>>, default_)
Text(text) == Value("text", text)

\* @NotBlank @MaxLength(5) name:string = 'x'   list:[int]? = []
Annotated ==
    FieldType("name", Datatype("string"), FieldOptions({}),
              <<Annotation("NotBlank", <<>>), Annotation("MaxLength", <<Text("5")>>)>>,
              Text("'x'"))
Listed == FieldType("list", OptionType(ArrayType(Datatype("int"))), FieldOptions({}),
                    <<>>, Value("list", ""))
Colored == FieldType("color", OptionType(RefType("Color")), FieldOptions({}),
                     <<Annotation("NotBlank", <<>>)>>, Text("No"))

Color == EnumType("Color", <<"RED", "No">>)
A == ClassType("A", <<Annotated, Listed>>, ClassOptions({}))
B == ClassType("B", <<Plain("a", RefType("A")), Colored>>,
               ClassOptions({"primary", "deprecated"}))
C == ClassType("C", <<Deprecated("as", ArrayType(RefType("A")), NoDefault),
                      Deprecated("map", Datatype("map"), Value("map", "")),
                      Plain("u", RefType("U"))>>,
               ClassOptions({"implicit"}))
U == UnionType("U", <<"A", "Z">>, UnionOptions({}))
PrimaryU == UnionType("U", <<"A">>, UnionOptions({"primary", "implicit"}))
N == NamespaceType("N", <<A, Color>>, <<>>)
TwinN == NamespaceType("N", <<ClassType("D", <<Plain("a", RefType("A"))>>, ClassOptions({}))>>, <<>>)
DeepN == NamespaceType("M", <<U>>, <<N, NamespaceType("L", <<B, A, Color>>, <<NamespaceType("E", <<>>, <<>>)>>)>>)

MCPieces == {Color, A, B, C, U, PrimaryU, N, TwinN, DeepN}
FewPieces == {A, B, U, PrimaryU, N}
MCSources == {"bytes", "InputStream", "DynabuffersResource", "dict"}
===========================================================================
