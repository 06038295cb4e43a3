--------------------------- MODULE ServerLifecycle ---------------------------
(***************************************************************************)
(* The life of a Server (httplib.h): one thread binds and listens, others  *)
(* call stop and wait_until_ready, and the task queue (module TaskQueue)   *)
(* serves the accepted connections.  The threads share three atomics,      *)
(* svr_sock_, is_running_ and is_decommissioned, and every load and store  *)
(* of them is a step of its own.                                           *)
(*                                                                         *)
(* Each socket that bind creates has an identity of its own (descriptor    *)
(* numbers are not reused), so a socket closed twice is visible.           *)
(***************************************************************************)
EXTENDS Naturals, Sequences, FiniteSets

CONSTANTS
    Conns,             \* client connections; each connects at most once
    Stoppers,          \* threads that call stop()
    Waiters,           \* threads that call wait_until_ready()
    Fds,               \* listening sockets: bounds the number of binds
    INVALID_SOCKET,
    KeepAliveMax,      \* keep_alive_max_count_
    BindMayFail,       \* whether create_server_socket or getsockname may fail
    AcceptMayFail,     \* whether accept may fail for good by itself
    ThreadsMayFail     \* whether the task queue may fail to create a thread

ASSUME ServerAssumption ==
    /\ INVALID_SOCKET \notin Fds
    /\ KeepAliveMax \in Nat \ {0}
    /\ BindMayFail \in BOOLEAN
    /\ AcceptMayFail \in BOOLEAN
    /\ ThreadsMayFail \in BOOLEAN

VARIABLES
    svr_sock_, is_running_, is_decommissioned,
    fd,        \* state of each listening socket in the kernel
    closes,    \* how often close() was called on it
    abandoned, \* sockets that bind or listen gave up without closing them
    lpc,       \* where the listening thread is
    lfd,       \* the socket it last loaded from svr_sock_
    sock,      \* the connection it accepted last
    ret,       \* its local of that name
    spc, sfd,  \* where each stopping thread is, the socket it took
    wpc,       \* where each waiting thread is
    conn,      \* state of each connection
    peer,      \* the listening socket a connection was made to
    count,     \* requests the connection may still send (keep-alive countdown)
    stopCalled,  \* stop() was entered during the current call of listen()
    stopSaw,     \* ... and found is_running_ set
    queue, active, done, phase   \* the task queue

TQ == INSTANCE TaskQueue WITH Jobs <- Conns

tq == <<queue, active, done, phase>>
shared == <<svr_sock_, is_running_, is_decommissioned>>
kernel == <<fd, closes, abandoned>>
listener == <<lpc, lfd, sock, ret>>
conns == <<conn, peer, count>>
ghosts == <<stopCalled, stopSaw>>
vars == <<shared, kernel, listener, spc, sfd, wpc, conns, ghosts, tq>>

MaybeFd == Fds \cup {INVALID_SOCKET}

\* listen() is a call in progress: bind succeeded, listen_internal not returned
Listening == lpc # "out"

\* The process: enqueue's exception destroys the queue, whose threads are
\* joinable, and that is std::terminate.
Alive == lpc # "aborted"

TypeOK ==
    /\ svr_sock_ \in MaybeFd
    /\ is_running_ \in BOOLEAN
    /\ is_decommissioned \in BOOLEAN
    /\ fd \in [Fds -> {"unused", "open", "shut", "closed"}]
    /\ closes \in [Fds -> Nat]
    /\ abandoned \subseteq Fds
    /\ lpc \in {"out", "bound", "checked", "queue", "throw", "loop", "load", "accept",
                "accept_err", "reload", "close", "enqueue", "shutdown", "join",
                "decommission", "return", "aborted"}
    /\ lfd \in MaybeFd
    /\ sock \in Conns \cup {INVALID_SOCKET}
    /\ ret \in BOOLEAN
    /\ spc \in [Stoppers -> {"out", "assert", "exchange", "shutdown", "close", "clear"}]
    /\ sfd \in [Stoppers -> MaybeFd]
    /\ wpc \in [Waiters -> {"out", "running", "decommissioned", "ready"}]
    /\ conn \in [Conns -> {"new", "backlog", "reset", "accepted", "queued",
                           "first", "loop", "serving", "closing", "closed"}]
    /\ peer \in [Conns -> MaybeFd]
    /\ count \in [Conns -> 0 .. KeepAliveMax]
    /\ stopCalled \in BOOLEAN
    /\ stopSaw \in BOOLEAN
    /\ TQ!TypeOK

Init ==
    /\ svr_sock_ = INVALID_SOCKET
    /\ is_running_ = FALSE
    /\ is_decommissioned = FALSE
    /\ fd = [f \in Fds |-> "unused"]
    /\ closes = [f \in Fds |-> 0]
    /\ abandoned = {}
    /\ lpc = "out"
    /\ lfd = INVALID_SOCKET
    /\ sock = INVALID_SOCKET
    /\ ret = TRUE
    /\ spc = [s \in Stoppers |-> "out"]
    /\ sfd = [s \in Stoppers |-> INVALID_SOCKET]
    /\ wpc = [w \in Waiters |-> "out"]
    /\ conn = [c \in Conns |-> "new"]
    /\ peer = [c \in Conns |-> INVALID_SOCKET]
    /\ count = [c \in Conns |-> 0]
    /\ stopCalled = FALSE
    /\ stopSaw = FALSE
    /\ TQ!Init

-----------------------------------------------------------------------------
(* The kernel *)

\* shutdown(2) and close(2); both do nothing for INVALID_SOCKET.
ShutdownSocket(f) ==
    fd' = [g \in Fds |-> IF g = f /\ fd[g] = "open" THEN "shut" ELSE fd[g]]

CloseSocket(f) ==
    /\ fd' = [g \in Fds |-> IF g = f THEN "closed" ELSE fd[g]]
    /\ closes' = [g \in Fds |-> IF g = f THEN closes[g] + 1 ELSE closes[g]]
    /\ conn' = [c \in Conns |-> IF conn[c] = "backlog" /\ peer[c] = f
                                  THEN "reset" ELSE conn[c]]

\* A client connects to whatever listens.
Connect(c) ==
    /\ Alive /\ conn[c] = "new"
    /\ \E f \in Fds :
         /\ fd[f] = "open"
         /\ peer' = [peer EXCEPT ![c] = f]
    /\ conn' = [conn EXCEPT ![c] = "backlog"]
    /\ UNCHANGED <<shared, kernel, listener, spc, sfd, wpc, count, ghosts, tq>>

-----------------------------------------------------------------------------
(* bind_to_port, bind_to_any_port: the listening thread, before listen_internal; *)
(* decommission: any thread, at any time                                         *)

Bind(f) ==
    /\ lpc = "out"
    /\ ~is_decommissioned
    /\ fd[f] = "unused"
    /\ fd' = [fd EXCEPT ![f] = "open"]
    /\ svr_sock_' = f
    /\ lpc' = "bound"
    /\ UNCHANGED <<is_running_, is_decommissioned, closes, abandoned, lfd, sock,
                   ret, spc, sfd, wpc, conns, ghosts, tq>>

BindFails ==
    /\ lpc = "out"
    /\ \/ /\ is_decommissioned
          /\ UNCHANGED <<svr_sock_, kernel>>
       \/ /\ BindMayFail
          /\ svr_sock_' = INVALID_SOCKET
          /\ UNCHANGED kernel
       \/ /\ BindMayFail      \* the socket exists, its port is not known
          /\ \E f \in Fds : /\ fd[f] = "unused"
                            /\ svr_sock_' = f
                            /\ fd' = [fd EXCEPT ![f] = "open"]
                            /\ abandoned' = abandoned \cup {f}
          /\ UNCHANGED closes
    /\ is_decommissioned' = TRUE
    /\ UNCHANGED <<is_running_, listener, spc, sfd, wpc, conns, ghosts, tq>>

Decommission ==
    /\ Alive
    /\ is_decommissioned' = TRUE
    /\ UNCHANGED <<svr_sock_, is_running_, kernel, listener, spc, sfd, wpc,
                   conns, ghosts, tq>>

-----------------------------------------------------------------------------
(* listen_internal *)

\* A server that was decommissioned after bind is not run; its socket stays open.
ListenChecks ==
    /\ lpc = "bound"
    /\ \/ /\ ~is_decommissioned
          /\ lpc' = "checked"
          /\ UNCHANGED <<abandoned, ghosts>>
       \/ /\ is_decommissioned
          /\ lpc' = "out"
          /\ abandoned' = abandoned \cup ({svr_sock_} \cap Fds)
          /\ stopCalled' = FALSE
          /\ stopSaw' = FALSE
    /\ UNCHANGED <<shared, fd, closes, lfd, sock, ret, spc, sfd, wpc, conns, tq>>

ListenRuns ==
    /\ lpc = "checked"
    /\ is_running_' = TRUE
    /\ ret' = TRUE
    /\ lpc' = "queue"
    /\ UNCHANGED <<svr_sock_, is_decommissioned, kernel, lfd, sock, spc, sfd, wpc,
                   conns, ghosts, tq>>

\* new_task_queue(): its constructor throws if it cannot start its threads.
NewTaskQueue ==
    /\ lpc = "queue"
    /\ \/ /\ queue' = <<>> /\ active' = {} /\ done' = {} /\ phase' = "open"
          /\ lpc' = "loop"
       \/ /\ ThreadsMayFail
          /\ lpc' = "throw"
          /\ UNCHANGED tq
    /\ UNCHANGED <<shared, kernel, lfd, sock, ret, spc, sfd, wpc, conns, ghosts>>

\* The exception leaves listen(): scope_exit clears is_running_, nobody closes the
\* socket, and is_decommissioned is as it was.
ListenThrows ==
    /\ lpc = "throw"
    /\ is_running_' = FALSE
    /\ abandoned' = abandoned \cup ({svr_sock_} \cap Fds)
    /\ lpc' = "out"
    /\ stopCalled' = FALSE
    /\ stopSaw' = FALSE
    /\ UNCHANGED <<svr_sock_, is_decommissioned, fd, closes, lfd, sock, ret, spc, sfd,
                   wpc, conns, tq>>

LoopTest ==
    /\ lpc = "loop"
    /\ lpc' = IF svr_sock_ # INVALID_SOCKET THEN "load" ELSE "shutdown"
    /\ UNCHANGED <<shared, kernel, lfd, sock, ret, spc, sfd, wpc, conns, ghosts, tq>>

LoadSocket ==
    /\ lpc = "load"
    /\ lfd' = svr_sock_
    /\ lpc' = "accept"
    /\ UNCHANGED <<shared, kernel, sock, ret, spc, sfd, wpc, conns, ghosts, tq>>

Accept(c) ==
    /\ lpc = "accept"
    /\ lfd \in Fds
    /\ fd[lfd] = "open"
    /\ conn[c] = "backlog"
    /\ peer[c] = lfd
    /\ conn' = [conn EXCEPT ![c] = "accepted"]
    /\ sock' = c
    /\ lpc' = "enqueue"
    /\ UNCHANGED <<shared, kernel, lfd, ret, spc, sfd, wpc, peer, count, ghosts, tq>>

\* The idle interval elapsed (on_idle), or EMFILE, EINTR, EAGAIN.
AcceptRetries ==
    /\ lpc = "accept"
    /\ lpc' = "loop"
    /\ UNCHANGED <<shared, kernel, lfd, sock, ret, spc, sfd, wpc, conns, ghosts, tq>>

AcceptFails ==
    /\ lpc = "accept"
    /\ \/ lfd = INVALID_SOCKET
       \/ lfd \in Fds /\ fd[lfd] # "open"
       \/ AcceptMayFail
    /\ lpc' = "accept_err"
    /\ UNCHANGED <<shared, kernel, lfd, sock, ret, spc, sfd, wpc, conns, ghosts, tq>>

\* A wrong test, for comparison: every failure of accept is an error.
AcceptErrorBlamed ==
    /\ lpc = "accept_err"
    /\ lpc' = "reload"
    /\ UNCHANGED <<shared, kernel, lfd, sock, ret, spc, sfd, wpc, conns, ghosts, tq>>

\* Who closed the socket?  The user, if svr_sock_ is invalid by now.
AcceptErrorTest ==
    /\ lpc = "accept_err"
    /\ lpc' = IF svr_sock_ # INVALID_SOCKET THEN "reload" ELSE "shutdown"
    /\ UNCHANGED <<shared, kernel, lfd, sock, ret, spc, sfd, wpc, conns, ghosts, tq>>

\* close_socket(svr_sock_): the second load, then the close
AcceptErrorLoad ==
    /\ lpc = "reload"
    /\ lfd' = svr_sock_
    /\ lpc' = "close"
    /\ UNCHANGED <<shared, kernel, sock, ret, spc, sfd, wpc, conns, ghosts, tq>>

AcceptErrorClose ==
    /\ lpc = "close"
    /\ CloseSocket(lfd)
    /\ ret' = FALSE
    /\ lpc' = "shutdown"
    /\ UNCHANGED <<shared, abandoned, lfd, sock, spc, sfd, wpc, peer, count, ghosts, tq>>

\* A wrong rejection: the connection is forgotten.
EnqueueConnForgets ==
    /\ lpc = "enqueue"
    /\ \/ /\ TQ!Accept(sock)
          /\ conn' = [conn EXCEPT ![sock] = "queued"]
       \/ UNCHANGED <<conn, tq>>
    /\ lpc' = "loop"
    /\ UNCHANGED <<shared, kernel, lfd, sock, ret, spc, sfd, wpc, peer, count, ghosts>>

\* task_queue->enqueue takes the connection, or it is shut down and closed.
EnqueueConn ==
    /\ lpc = "enqueue"
    /\ \/ /\ TQ!Accept(sock)
          /\ conn' = [conn EXCEPT ![sock] = "queued"]
       \/ /\ conn' = [conn EXCEPT ![sock] = "closed"]
          /\ UNCHANGED tq
    /\ lpc' = "loop"
    /\ UNCHANGED <<shared, kernel, lfd, sock, ret, spc, sfd, wpc, peer, count, ghosts>>

\* enqueue throws if it cannot start a thread (see Alive).
EnqueueThrows ==
    /\ lpc = "enqueue"
    /\ ThreadsMayFail
    /\ lpc' = "aborted"
    /\ UNCHANGED <<shared, kernel, lfd, sock, ret, spc, sfd, wpc, conns, ghosts, tq>>

ShutdownQueue ==
    /\ lpc = "shutdown"
    /\ TQ!Close
    /\ lpc' = "join"
    /\ UNCHANGED <<shared, kernel, lfd, sock, ret, spc, sfd, wpc, conns, ghosts>>

QueueDrained ==
    /\ lpc = "join"
    /\ TQ!Closed
    /\ lpc' = "decommission"
    /\ UNCHANGED <<shared, kernel, lfd, sock, ret, spc, sfd, wpc, conns, ghosts>>

ListenDecommissions ==
    /\ lpc = "decommission"
    /\ is_decommissioned' = ~ret
    /\ lpc' = "return"
    /\ UNCHANGED <<svr_sock_, is_running_, kernel, lfd, sock, ret, spc, sfd, wpc,
                   conns, ghosts, tq>>

\* scope_exit: is_running_ = false
ListenReturns ==
    /\ lpc = "return"
    /\ is_running_' = FALSE
    /\ lpc' = "out"
    /\ stopCalled' = FALSE
    /\ stopSaw' = FALSE
    /\ UNCHANGED <<svr_sock_, is_decommissioned, kernel, lfd, sock, ret, spc, sfd,
                   wpc, conns, tq>>

-----------------------------------------------------------------------------
(* stop *)

StopTests(s) ==
    /\ Alive /\ spc[s] = "out"
    /\ spc' = [spc EXCEPT ![s] = IF is_running_ THEN "assert" ELSE "clear"]
    /\ stopCalled' = (stopCalled \/ Listening)
    /\ stopSaw' = (stopSaw \/ is_running_)
    /\ UNCHANGED <<shared, kernel, listener, sfd, wpc, conns, tq>>

\* assert(svr_sock_ != INVALID_SOCKET): see StopAssertion
StopAsserts(s) ==
    /\ Alive /\ spc[s] = "assert"
    /\ spc' = [spc EXCEPT ![s] = "exchange"]
    /\ UNCHANGED <<shared, kernel, listener, sfd, wpc, conns, ghosts, tq>>

\* A wrong stop: a load in place of the exchange.
StopLoads(s) ==
    /\ Alive /\ spc[s] = "exchange"
    /\ sfd' = [sfd EXCEPT ![s] = svr_sock_]
    /\ spc' = [spc EXCEPT ![s] = "shutdown"]
    /\ UNCHANGED <<shared, kernel, listener, wpc, conns, ghosts, tq>>

StopExchanges(s) ==
    /\ Alive /\ spc[s] = "exchange"
    /\ sfd' = [sfd EXCEPT ![s] = svr_sock_]
    /\ svr_sock_' = INVALID_SOCKET
    /\ spc' = [spc EXCEPT ![s] = "shutdown"]
    /\ UNCHANGED <<is_running_, is_decommissioned, kernel, listener, wpc, conns,
                   ghosts, tq>>

StopShutsDown(s) ==
    /\ Alive /\ spc[s] = "shutdown"
    /\ ShutdownSocket(sfd[s])
    /\ spc' = [spc EXCEPT ![s] = "close"]
    /\ UNCHANGED <<shared, closes, abandoned, listener, sfd, wpc, conns, ghosts, tq>>

StopCloses(s) ==
    /\ Alive /\ spc[s] = "close"
    /\ CloseSocket(sfd[s])
    /\ spc' = [spc EXCEPT ![s] = "clear"]
    /\ UNCHANGED <<shared, abandoned, listener, sfd, wpc, peer, count, ghosts, tq>>

StopClears(s) ==
    /\ Alive /\ spc[s] = "clear"
    /\ is_decommissioned' = FALSE
    /\ spc' = [spc EXCEPT ![s] = "out"]
    /\ sfd' = [sfd EXCEPT ![s] = INVALID_SOCKET]
    /\ UNCHANGED <<svr_sock_, is_running_, kernel, listener, wpc, conns, ghosts, tq>>

-----------------------------------------------------------------------------
(* wait_until_ready *)

WaitBegins(w) ==
    /\ Alive /\ wpc[w] = "out"
    /\ wpc' = [wpc EXCEPT ![w] = "running"]
    /\ UNCHANGED <<shared, kernel, listener, spc, sfd, conns, ghosts, tq>>

WaitTestsRunning(w) ==
    /\ Alive /\ wpc[w] = "running"
    /\ wpc' = [wpc EXCEPT ![w] = IF is_running_ THEN "ready" ELSE "decommissioned"]
    /\ UNCHANGED <<shared, kernel, listener, spc, sfd, conns, ghosts, tq>>

\* A wrong wait_until_ready: it waits for is_running_ alone.
WaitIgnoresDecommissioned(w) ==
    /\ Alive /\ wpc[w] = "decommissioned"
    /\ wpc' = [wpc EXCEPT ![w] = "running"]
    /\ UNCHANGED <<shared, kernel, listener, spc, sfd, conns, ghosts, tq>>

WaitTestsDecommissioned(w) ==
    /\ Alive /\ wpc[w] = "decommissioned"
    /\ wpc' = [wpc EXCEPT ![w] = IF is_decommissioned THEN "ready" ELSE "running"]
    /\ UNCHANGED <<shared, kernel, listener, spc, sfd, conns, ghosts, tq>>

-----------------------------------------------------------------------------
(* A connection on a thread of the task queue: process_and_close_socket,    *)
(* process_server_socket_core and keep_alive (its requests: module          *)
(* ServerConnection)                                                         *)

TaskStarts(c) ==
    /\ Alive /\ TQ!Start
    /\ c = Head(queue)
    /\ conn' = [conn EXCEPT ![c] = "first"]
    /\ count' = [count EXCEPT ![c] = KeepAliveMax]
    /\ UNCHANGED <<shared, kernel, listener, spc, sfd, wpc, peer, ghosts>>

\* keep_alive's first select does not look at svr_sock_.
FirstSelect(c) ==
    /\ Alive /\ conn[c] = "first"
    /\ \E s \in {"serving", "loop"} : conn' = [conn EXCEPT ![c] = s]
    /\ UNCHANGED <<shared, kernel, listener, spc, sfd, wpc, peer, count, ghosts, tq>>

\* A wrong loop: it goes on exactly when the server socket is closed.
KeepAliveInverted(c) ==
    /\ Alive /\ conn[c] = "loop"
    /\ svr_sock_ # INVALID_SOCKET
    /\ conn' = [conn EXCEPT ![c] = "closing"]
    /\ UNCHANGED <<shared, kernel, listener, spc, sfd, wpc, peer, count, ghosts, tq>>

\* Its loop leaves if the server socket is closed, on an error or the timeout.
KeepAliveGivesUp(c) ==
    /\ Alive /\ conn[c] = "loop"
    /\ conn' = [conn EXCEPT ![c] = "closing"]
    /\ UNCHANGED <<shared, kernel, listener, spc, sfd, wpc, peer, count, ghosts, tq>>

KeepAliveReady(c) ==
    /\ Alive /\ conn[c] = "loop"
    /\ svr_sock_ # INVALID_SOCKET
    /\ conn' = [conn EXCEPT ![c] = "serving"]
    /\ UNCHANGED <<shared, kernel, listener, spc, sfd, wpc, peer, count, ghosts, tq>>

\* process_request returns: the connection is broken off or may go on, unless
\* this was its last request.
RequestServed(c) ==
    /\ Alive /\ conn[c] = "serving"
    /\ count' = [count EXCEPT ![c] = @ - 1]
    /\ \/ conn' = [conn EXCEPT ![c] = "closing"]
       \/ /\ count[c] > 1
          /\ conn' = [conn EXCEPT ![c] = "first"]
    /\ UNCHANGED <<shared, kernel, listener, spc, sfd, wpc, peer, ghosts, tq>>

TaskEnds(c) ==
    /\ Alive /\ conn[c] = "closing"
    /\ TQ!Finish(c)
    /\ conn' = [conn EXCEPT ![c] = "closed"]
    /\ UNCHANGED <<shared, kernel, listener, spc, sfd, wpc, peer, count, ghosts>>

-----------------------------------------------------------------------------
ListenStep ==
    \/ ListenChecks \/ ListenRuns \/ NewTaskQueue \/ ListenThrows
    \/ LoopTest \/ LoadSocket
    \/ \E c \in Conns : Accept(c)
    \/ AcceptFails \/ AcceptErrorTest \/ AcceptErrorLoad \/ AcceptErrorClose
    \/ EnqueueConn \/ EnqueueThrows \/ ShutdownQueue \/ QueueDrained \/ ListenDecommissions
    \/ ListenReturns

StopStep(s) ==
    \/ StopAsserts(s) \/ StopExchanges(s) \/ StopShutsDown(s) \/ StopCloses(s)
    \/ StopClears(s)

WaitStep(w) == WaitTestsRunning(w) \/ WaitTestsDecommissioned(w)

TaskStep(c) ==
    \/ TaskStarts(c) \/ FirstSelect(c) \/ KeepAliveGivesUp(c)
    \/ KeepAliveReady(c) \/ RequestServed(c) \/ TaskEnds(c)

\* Nothing moves any more.
Aborted == ~Alive /\ UNCHANGED vars

Next ==
    \/ Aborted
    \/ ListenStep \/ AcceptRetries
    \/ \E f \in Fds : Bind(f)
    \/ BindFails \/ Decommission
    \/ \E s \in Stoppers : StopTests(s) \/ StopStep(s)
    \/ \E w \in Waiters : WaitBegins(w) \/ WaitStep(w)
    \/ \E c \in Conns : Connect(c) \/ TaskStep(c)

Spec == Init /\ [][Next]_vars

(***************************************************************************)
(* Fairness: a thread inside listen_internal, stop or wait_until_ready     *)
(* takes its next step (accept on an idle socket has none), a request is   *)
(* served in finite time, and the task queue serves what it accepted       *)
(* (ThreadPool's AcceptedJobRuns).  Nobody has to bind, connect or stop.   *)
(***************************************************************************)
FairSpec ==
    /\ Spec
    /\ WF_vars(ListenStep)
    /\ \A s \in Stoppers : WF_vars(StopStep(s))
    /\ \A w \in Waiters : WF_vars(WaitStep(w))
    /\ \A c \in Conns : WF_vars(TaskStep(c))

-----------------------------------------------------------------------------
(* Safety *)

\* If accept fails only because stop() closed the socket, listen never takes
\* that for an error: it returns true ("a clean shutdown").  The order of the
\* exchange and the shutdown in stop() is what makes it so.
StopIsNotAnError == ~AcceptMayFail => ret

\* Threads may race in stop(): the listening socket is still closed only once
\* (a second close could hit a descriptor somebody else got meanwhile).
SocketClosedOnce == ~AcceptMayFail => \A f \in Fds : closes[f] <= 1

\* A socket still open belongs to svr_sock_ or to the stop() call that is closing it,
\* so that the port is free again once stop() is over, but for the three ways in
\* which the code itself drops one: getsockname failed after bind, decommission()
\* came between bind and listen, or the queue's constructor threw in listen().
NoLeakedListener ==
    \A f \in Fds \ abandoned :
        fd[f] \in {"open", "shut"}
        => \/ f = svr_sock_
           \/ \E s \in Stoppers : spc[s] \in {"shutdown", "close"} /\ sfd[s] = f

\* The listening sockets are accounted for, in every interleaving of bind, listen,
\* decommission and the stop() calls: closed once, and none left open but by those
\* three ways.
ListenersAccounted == TypeOK /\ SocketClosedOnce /\ NoLeakedListener

\* When listen() has returned, no accepted connection is left open or running.
NoConnectionOutlivesListen ==
    ~Listening => \A c \in Conns : conn[c] \in {"new", "backlog", "reset", "closed"}

-----------------------------------------------------------------------------
(* Liveness, under FairSpec *)

\* A stop() that finds the server running makes listen() return: the acceptor
\* leaves, the keep-alive connections notice, requests in flight are finished.
\* Only an exception of enqueue comes before: it ends the process.
StopEndsRunningListen == stopSaw ~> ~Listening \/ ~Alive

\* wait_until_ready() returns once listen() is about to run, or once bind failed or
\* decommission() was called with nobody listening: unless stop() interferes (it
\* resets is_decommissioned), or listen() is left by an exception of the queue's
\* constructor (is_running_ was set too briefly and is_decommissioned never is), or
\* the process ends.
NobodyStops == \A s \in Stoppers : spc[s] = "out"
WaitReturns ==
    \A w \in Waiters :
        (/\ wpc[w] = "running"
         /\ \/ lpc = "checked" /\ svr_sock_ # INVALID_SOCKET
            \/ lpc \in {"out", "bound"} /\ is_decommissioned)
        ~> \/ wpc[w] = "ready"
           \/ ~NobodyStops
           \/ lpc \in {"throw", "aborted"}

-----------------------------------------------------------------------------
(* Claims of the repository that the code does not keep *)

\* In no run.  stop() itself: assert(svr_sock_ != INVALID_SOCKET), though the cookbook
\* calls stop() thread-safe and signal-safe.
StopAssertion == \A s \in Stoppers : spc[s] = "assert" => svr_sock_ # INVALID_SOCKET

\* The cookbook: after stop(), listen() returns.
StopEndsListen == stopCalled ~> ~stopCalled

\* In no run.  keep_alive: svr_sock is INVALID_SOCKET when the server socket is closed, which
\* is how a connection waiting for its next request is to find out.
KeepAliveSeesClosedSocket ==
    \A c \in Conns :
        conn[c] = "loop" /\ svr_sock_ \in Fds => fd[svr_sock_] # "closed"
=============================================================================
