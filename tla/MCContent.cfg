SPECIFICATION ContentSpec
CONSTANTS
    Senders = {"segments", "stream"}
    Forms <- SomeForms
    Preambles <- NoneOrOne
    Epilogues <- CrLf
    Kind <- LineKind
    SendBuffer = 8
    MaxParts = 2
    RangeHeaders <- SmallHeaders
    Handlers <- EveryHandler
    Lengths = {0, 1, 4}
    RangeMaxCount = 4
    Framings = {"length", "chunked", "close"}
    MaxBody = 4
    MaxPiece = 2
    Limits = {3, 9}
    Trailers = {"digest", "note", "age"}
    Declared = {"digest", "age"}
    Prohibited = {"age"}
    MaxTrailers = 1
    Compressors = {TRUE, FALSE}
    NMounts = 2
    Sizes = {0, 3}
    MaxTime = 2
    MaxVersions = 3
    MaxRequests = 2
INVARIANTS
    FormsArrive
    RangesServed
    BodiesArrive
    CopiesAreTrue
CHECK_DEADLOCK FALSE
