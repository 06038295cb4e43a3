SPECIFICATION FairSpec
CONSTANTS
    k1 = k1  k2 = k2
    s1 = s1  s2 = s2
    w1 = w1
    f1 = f1  f2 = f2
    Conns <- OneConn
    Stoppers <- OneStopper
    Waiters <- NoWaiters
    Fds <- OneFd
    INVALID_SOCKET = INVALID_SOCKET
    KeepAliveMax = 1
    BindMayFail = FALSE
    AcceptMayFail = FALSE
    ThreadsMayFail = FALSE
PROPERTY StopEndsListen
