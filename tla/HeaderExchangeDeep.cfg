\* Depths 0 to 8 and positions 0 to 17, every writer with every reader.
SPECIFICATION Spec
CONSTANTS
    Nested <- DeepNested
    NameLists <- DeepNameLists
    Versions = {1, 2}
INVARIANTS
    TypeOK
    SelectsWhatWasAsked
    WritersAgree
    FailuresHaveAReason
\* An exchange ends when the header is delivered, refused or failed.
CHECK_DEADLOCK FALSE
