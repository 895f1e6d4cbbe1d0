\* Finding: a union that is declared primary is not the root.
SPECIFICATION Spec
CONSTANTS
    Platforms = {"python"}
    Kinds <- MCKinds
    Pieces <- FewPieces
    Sources <- MCSources
    MaxPieces = 3
    MaxRetries = 0
INVARIANT PrimaryIsRoot
\* An author stops when the schema is accepted, refused or left.
CHECK_DEADLOCK FALSE
