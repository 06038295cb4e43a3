SPECIFICATION FairSpec
CONSTANTS
    Kinds <- MixedKinds
    MaxRequests = 2
    KeepAliveMax = 3
    PayloadMax = 2
    ExpectStatuses = {"100", "other"}
INVARIANTS
    InStep
    NoRequestLost
    OneFinalResponse
    LastIsAnnounced
PROPERTIES
    ConnectionEnds
