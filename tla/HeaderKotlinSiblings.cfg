\* Finding: a Kotlin writer and the 257th namespace of a level.
SPECIFICATION Spec
CONSTANTS
    Nested <- WideNested
    NameLists <- WideNameLists
    Versions = {1, 2}
INVARIANT
    SelectsWhatWasAsked
\* An exchange ends when the header is delivered, refused or failed.
CHECK_DEADLOCK FALSE
