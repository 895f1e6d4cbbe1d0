\* Two clients at once on the same dict, in different namespaces, and on the
\* same arrays.
SPECIFICATION Spec
CONSTANTS
    c1 = c1
    c2 = c2
    d1 = d1
    s1 = s1
    s2 = s2
    a1 = a1
    a2 = a2
    Nested <- TwoNested
    Classes <- TwoClasses
    Keys <- TwoKeys
    Cells <- FewCells
    NameArgs <- AcrossNames
    Clients = {c1, c2}
    Dicts = {d1}
    Scratch <- ScratchOf
    Arrays = {a1, a2}
    Scalars <- NoScalars
    MayListen = FALSE
    MayShare = TRUE
    MaxEdits = 1
    MaxReads = 2
INVARIANT
    BorrowedBytesAreKept
PROPERTY
    CallersValuesStay
\* Callers may stop calling: edits, arrays and reads are bounded.
CHECK_DEADLOCK FALSE
