\* Finding: a Kotlin reader and depths of 4 to 7.
SPECIFICATION Spec
CONSTANTS
    Nested <- DeepNested
    NameLists <- DeepNameLists
    Versions = {1, 2}
INVARIANT
    EveryDepthIsRead
\* An exchange ends when the header is delivered, refused or failed.
CHECK_DEADLOCK FALSE
