SPECIFICATION Spec
CONSTANTS
    Kinds <- PartialKinds
    MaxRequests = 2
    KeepAliveMax = 2
    PayloadMax = 2
    ExpectStatuses = {"100"}
INVARIANT DrainSparesNextRequest
