SPECIFICATION FairSpec
CONSTANTS
    Ends <- PlainEnds
    InFlight = 1
INVARIANTS
    ClosesOnce
    ReadsAreWhole
    EndsInOrder
PROPERTIES
    PongTimeoutNearlyReal
    EndReturns
CHECK_DEADLOCK FALSE
