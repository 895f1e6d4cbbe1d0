\* Values of every type, through two readers: every writer with every reader.
SPECIFICATION Spec
CONSTANTS
    ShortWidth = 1
    IntWidth = 2
    LongWidth = 3
    SingleDigits = 4
    DoubleDigits = 6
    Texts <- AllTexts
    Spells <- SomeNumbers
    Declarations <- SomeSchema
    Cases <- AllCases
    MaxNesting = 8
    MaxHops = 2
INVARIANTS
    TypeOK
    LegalIsAccepted
    SentIsRead
    MeaningSurvives
    SizeIsExact
    RulesHold
\* An exchange ends when the last reader has the value or a call has failed.
CHECK_DEADLOCK FALSE
