\* Schemas of up to three declarations, appended one by one, in both libraries,
\* with one parse again after a change.
SPECIFICATION Spec
CONSTANTS
    Platforms = {"python", "kotlin"}
    Kinds <- MCKinds
    Pieces <- MCPieces
    Sources <- MCSources
    MaxPieces = 3
    MaxRetries = 1
INVARIANTS TypeOK TreeIsWhatWasWritten AcceptedIffResolvable RetryChangesNothing
\* An author stops when the schema is accepted, refused or left.
CHECK_DEADLOCK FALSE
