\* Finding: what get_ref answers is not of the class the schema declares.
SPECIFICATION Spec
CONSTANTS
    ShortWidth = 1
    IntWidth = 2
    LongWidth = 3
    SingleDigits = 4
    DoubleDigits = 6
    Texts <- MCTexts
    Spells <- MCSpells
    Declarations <- MCDeclarations
    Messages <- MCMessages
    Asked <- MCAsked
    MaxNesting = 8
    MaxDepth = 1
INVARIANT RefIsOfItsClass
\* A reader of a map may stop asking.
CHECK_DEADLOCK FALSE
