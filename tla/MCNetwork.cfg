SPECIFICATION NetworkSpec
CONSTANTS
    Builds = {"inline", "cfhost", "gai", "thread"}
    MaxAddresses = 3
    Purposes = {"connect", "listen"}
    Interfaces = {TRUE, FALSE}
    t1 = t1
    t2 = t2
    c1 = c1
    c2 = c2
    n1 = n1
    Threads = {t1, t2}
    Conns = {c1, c2}
    Names = {n1}
    ServerBackends = {"openssl", "mbedtls"}
    Updates = 1
    ClientBackends = {"openssl", "mbedtls"}
    Attempts = 2
    Backends = {"openssl", "wolfssl", "mbedtls"}
    RecordEnds <- ThreeRecords
    BufferSize = 2
    Feed <- ThreeEvents
    Noise <- CommentAndRetry
    Statuses <- SomeStatuses
    Retries = 2
    Writes = 2
    Limits = {0, 2}
    Interval = 1
    MaxConnects = 4
    MaxStarts = 2
INVARIANTS
    CallLeavesNothing
    TlsSound
    EventsInOrder
PROPERTIES
    WaitsEnd
CHECK_DEADLOCK FALSE
