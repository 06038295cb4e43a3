SPECIFICATION Spec
CONSTANTS
    k1 = k1  k2 = k2
    s1 = s1  s2 = s2
    w1 = w1
    f1 = f1  f2 = f2
    Conns <- TwoConns
    Stoppers <- TwoStoppers
    Waiters <- NoWaiters
    Fds <- TwoFds
    INVALID_SOCKET = INVALID_SOCKET
    KeepAliveMax = 2
    BindMayFail = TRUE
    AcceptMayFail = FALSE
    ThreadsMayFail = TRUE
SYMMETRY SafetySymmetry
INVARIANTS
    StopIsNotAnError
    ListenersAccounted
    NoConnectionOutlivesListen
