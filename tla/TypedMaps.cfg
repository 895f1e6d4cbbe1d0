\* Every way to ask a map for a key, three references deep, in both libraries.
SPECIFICATION Spec
CONSTANTS
    ShortWidth = 1
    IntWidth = 2
    LongWidth = 3
    SingleDigits = 4
    DoubleDigits = 6
    Texts <- MCTexts
    Spells <- MCSpells
    Declarations <- MCDeclarations
    Messages <- MCMessages
    Asked <- MCAsked
    MaxNesting = 8
    MaxDepth = 3
INVARIANTS TypeOK AnswersAreTheMessages DeclaredIsAnswered
\* A reader of a map may stop asking.
CHECK_DEADLOCK FALSE
