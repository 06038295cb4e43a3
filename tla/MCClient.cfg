SPECIFICATION FairSpec
CONSTANTS
    t1 = t1
    t2 = t2
    Callers = {t1, t2}
    Conns = {c1, c2}
    NoConn = NoConn
    Nobody = Nobody
    Calls = 1
    Redirects = 1
    AuthLimit = 1
    Settings <- AllSettings
    Statuses <- SomeStatuses
    Requests <- SomeRequests
    StreamsOverlap = FALSE
INVARIANTS
    UsersAreSafe
    IdleIsClean
    ResponsesMatch
PROPERTIES
    CallsReturn
CHECK_DEADLOCK FALSE
