\* Two clients that share the engine only: dicts against wrapped scalars,
\* readers against writers.
SPECIFICATION Spec
CONSTANTS
    c1 = c1
    c2 = c2
    d1 = d1
    s1 = s1
    s2 = s2
    a1 = a1
    a2 = a2
    Nested <- ChainNested
    Classes <- ChainClasses
    Keys <- TwoKeys
    Cells <- FewCells
    NameArgs <- ChainNames
    Clients = {c1, c2}
    Dicts = {d1}
    Scratch <- ScratchOf
    Arrays = {a1, a2}
    Scalars <- RedOnly
    MayListen = FALSE
    MayShare = FALSE
    MaxEdits = 2
    MaxReads = 1
INVARIANTS
    MessageSaysWhatWasMeant
PROPERTY
    ImplementsTransport
\* Callers may stop calling: edits, arrays and reads are bounded.
CHECK_DEADLOCK FALSE
