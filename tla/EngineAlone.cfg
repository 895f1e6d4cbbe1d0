\* One client: every dict of the cells below in every namespace, edited and
\* sent again, every message read twice.
SPECIFICATION Spec
CONSTANTS
    c1 = c1
    c2 = c2
    d1 = d1
    s1 = s1
    s2 = s2
    a1 = a1
    a2 = a2
    Nested <- TwoNested
    Classes <- TwoClasses
    Keys <- TwoKeys
    Cells <- TwoCells
    NameArgs <- TwoNames
    Clients = {c1}
    Dicts = {d1}
    Scratch <- ScratchOf
    Arrays = {a1, a2}
    Scalars <- NoScalars
    MayListen = TRUE
    MayShare = FALSE
    MaxEdits = 2
    MaxReads = 2
INVARIANTS
    TypeOK
    MessageSaysWhatWasMeant
    MeaningIsStable
    SizePassIsExact
    MissingIsFoundBySize
    FirstReadReturnsTheMeaning
    FirstReadTakesTheHead
PROPERTIES
    ImplementsTransport
    SendsAsPromised
\* Callers may stop calling: edits, arrays and reads are bounded.
CHECK_DEADLOCK FALSE
