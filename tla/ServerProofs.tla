---------------------------- MODULE ServerProofs ----------------------------
(***************************************************************************)
(* Proofs about the server.  The first part is about ServerLifecycle, for  *)
(* every set of connections, stopping and waiting threads and sockets:     *)
(* what is left open when listen() and the stop() calls are over, and what *)
(* listen() returns.  The second is about the files that it sends          *)
(* (Content, FileServing), for every number of mounts, contents, sizes and *)
(* times: what a 304 and a resumed download are worth.  The third is about *)
(* a body on its way (Content, Transfer), for every body, in every number  *)
(* of pieces, every framing, limit and set of trailers.  The fourth is     *)
(* about ranges (Content, Ranges), for every Range header and content.     *)
(*                                                                         *)
(* Three inductive invariants carry the first.  SocketOwners: an open      *)
(* listening socket is svr_sock_ or in the hands of a stop() call, and     *)
(* once the accept loop is left svr_sock_ names no open socket.  StopOwns: *)
(* while accept fails only because of stop(), the sockets of two stop()    *)
(* calls and svr_sock_ are all different, and the listener finds svr_sock_ *)
(* invalid whenever accept fails.  TasksKnown: a connection is where its   *)
(* state says, in the queue, in a thread or with the listener.             *)
(***************************************************************************)
EXTENDS ServerLifecycle, Content, QueueLemmas, FiniteSetTheorems

\* Once the accept loop is left, svr_sock_ names no socket that is open, but for
\* one that bind or listen gave up.
AtRest ==
    lpc \in {"shutdown", "join", "decommission", "return", "out"}
    => \/ svr_sock_ = INVALID_SOCKET
       \/ svr_sock_ \in abandoned
       \/ fd[svr_sock_] = "closed"

\* close_socket(svr_sock_) closes what svr_sock_ names, or stop() was faster.
Reloaded == lpc = "close" => svr_sock_ \in {lfd, INVALID_SOCKET}

\* An open socket has an owner.
SocketOwners == NoLeakedListener /\ AtRest /\ Reloaded

\* The stop() calls that have taken a socket and not closed it yet.
Holds(s) == spc[s] \in {"shutdown", "close"} /\ sfd[s] # INVALID_SOCKET

StopOwns ==
    ~AcceptMayFail =>
        /\ svr_sock_ # INVALID_SOCKET => fd[svr_sock_] = "open"
        /\ \A s \in Stoppers :
             Holds(s) => fd[sfd[s]] \in {"open", "shut"} /\ sfd[s] # svr_sock_
        /\ \A s, t \in Stoppers : Holds(s) /\ Holds(t) /\ sfd[s] = sfd[t] => s = t
        /\ \A f \in Fds : closes[f] = IF fd[f] = "closed" THEN 1 ELSE 0
        /\ lpc = "accept" => svr_sock_ \in {lfd, INVALID_SOCKET}
        /\ lpc = "accept_err" => svr_sock_ = INVALID_SOCKET
        /\ lpc \notin {"reload", "close"}
        /\ ret

\* On a thread of the task queue.
Running == {"first", "loop", "serving", "closing"}

\* A connection is in one place, and its state says which.
TasksKnown ==
    /\ \A c \in Conns : conn[c] = "queued" <=> c \in Elements(queue)
    /\ Distinct(queue)
    /\ \A c \in Conns : conn[c] \in Running <=> c \in active
    /\ \A c \in Conns : conn[c] = "accepted" <=> lpc \in {"enqueue", "aborted"} /\ c = sock
    /\ lpc = "enqueue" => sock \in Conns
    /\ lpc \in {"out", "bound", "checked", "queue", "throw", "decommission", "return"}
         => queue = <<>> /\ active = {}

\* A connection that may send a request has at least one left.
CountedDown == \A c \in Conns : conn[c] \in {"first", "loop", "serving"} => count[c] > 0

IInv == TypeOK /\ CountedDown /\ SocketOwners /\ StopOwns /\ TasksKnown

-----------------------------------------------------------------------------
(* The initial states *)

\* Nothing is bound, nothing accepted.
LEMMA InitIInv == Init => IInv
<1> SUFFICES ASSUME Init PROVE IInv
  OBVIOUS
<1> USE ServerAssumption DEF Init
<1>1. /\ sfd \in [Stoppers -> MaybeFd]
      /\ peer \in [Conns -> MaybeFd]
      /\ count \in [Conns -> 0 .. KeepAliveMax]
      /\ TQ!TypeOK
  BY NoElement DEF TQ!Init, TQ!TypeOK, MaybeFd
<1>5. TypeOK /\ CountedDown
  BY <1>1 DEF TypeOK, MaybeFd, CountedDown
<1>2. SocketOwners
  BY DEF SocketOwners, NoLeakedListener, AtRest, Reloaded
<1>3. StopOwns
  BY DEF StopOwns, Holds
<1>4. TasksKnown
  BY ElementsEmpty DEF TQ!Init, TasksKnown, Running
<1> QED
  BY <1>2, <1>3, <1>4, <1>5 DEF IInv

-----------------------------------------------------------------------------
(* The steps *)

\* Types: the queue holds connections, and a countdown does not pass zero.
LEMMA NextType == TypeOK /\ TasksKnown /\ CountedDown /\ [Next]_vars => TypeOK'
<1> SUFFICES ASSUME TypeOK, TasksKnown, CountedDown, [Next]_vars PROVE TypeOK'
  OBVIOUS
<1> USE ServerAssumption DEF TypeOK, MaybeFd, TQ!TypeOK, shared, kernel, listener,
     conns, ghosts, tq
<1>1. CASE ListenChecks
  BY <1>1 DEF ListenChecks
<1>2. CASE ListenRuns
  BY <1>2 DEF ListenRuns
<1>3. CASE LoopTest
  BY <1>3 DEF LoopTest
<1>4. CASE LoadSocket
  BY <1>4 DEF LoadSocket
<1>5. ASSUME NEW c \in Conns, Accept(c) PROVE TypeOK'
  BY <1>5 DEF Accept
<1>6. CASE AcceptRetries
  BY <1>6 DEF AcceptRetries
<1>7. CASE AcceptFails
  BY <1>7 DEF AcceptFails
<1>8. CASE AcceptErrorTest
  BY <1>8 DEF AcceptErrorTest
<1>9. CASE AcceptErrorLoad
  BY <1>9 DEF AcceptErrorLoad
<1>10. CASE AcceptErrorClose
  <2>1. closes' \in [Fds -> Nat]
    BY <1>10 DEF AcceptErrorClose, CloseSocket
  <2>2. fd' \in [Fds -> {"unused", "open", "shut", "closed"}]
    BY <1>10 DEF AcceptErrorClose, CloseSocket
  <2>3. conn' \in [Conns -> {"new", "backlog", "reset", "accepted", "queued", "first",
                            "loop", "serving", "closing", "closed"}]
    BY <1>10 DEF AcceptErrorClose, CloseSocket
  <2> QED
    BY <1>10, <2>1, <2>2, <2>3 DEF AcceptErrorClose
<1>11. CASE EnqueueConn
  <2>1. sock \in Conns
    BY <1>11 DEF EnqueueConn, TasksKnown
  <2>2. queue' \in Seq(Conns)
    <3>1. Append(queue, sock) \in Seq(Conns)
      BY <2>1, AppendElements
    <3> QED
      BY <1>11, <3>1 DEF EnqueueConn, TQ!Accept
  <2>3. conn' \in [Conns -> {"new", "backlog", "reset", "accepted", "queued", "first",
                            "loop", "serving", "closing", "closed"}]
    BY <1>11, <2>1 DEF EnqueueConn
  <2> QED
    BY <1>11, <2>2, <2>3 DEF EnqueueConn, TQ!Accept
<1>12. CASE ShutdownQueue
  BY <1>12 DEF ShutdownQueue, TQ!Close
<1>13. CASE QueueDrained
  BY <1>13 DEF QueueDrained, TQ!Closed
<1>14. CASE ListenDecommissions
  BY <1>14 DEF ListenDecommissions
<1>15. CASE ListenReturns
  BY <1>15 DEF ListenReturns
<1>16. ASSUME NEW f \in Fds, Bind(f) PROVE TypeOK'
  BY <1>16 DEF Bind
<1>17. CASE BindFails
  BY <1>17 DEF BindFails
<1>18. CASE Decommission
  BY <1>18 DEF Decommission
<1>19. ASSUME NEW s \in Stoppers, StopTests(s) PROVE TypeOK'
  BY <1>19 DEF StopTests, Listening
<1>20. ASSUME NEW s \in Stoppers, StopAsserts(s) PROVE TypeOK'
  BY <1>20 DEF StopAsserts
<1>21. ASSUME NEW s \in Stoppers, StopExchanges(s) PROVE TypeOK'
  BY <1>21 DEF StopExchanges
<1>22. ASSUME NEW s \in Stoppers, StopShutsDown(s) PROVE TypeOK'
  BY <1>22 DEF StopShutsDown, ShutdownSocket
<1>23. ASSUME NEW s \in Stoppers, StopCloses(s) PROVE TypeOK'
  BY <1>23 DEF StopCloses, CloseSocket
<1>24. ASSUME NEW s \in Stoppers, StopClears(s) PROVE TypeOK'
  <2>1. sfd' \in [Stoppers -> MaybeFd]
    BY <1>24 DEF StopClears
  <2>2. spc' \in [Stoppers -> {"out", "assert", "exchange", "shutdown", "close", "clear"}]
    BY <1>24 DEF StopClears
  <2>3. TQ!TypeOK' /\ is_decommissioned' \in BOOLEAN
    BY <1>24 DEF StopClears
  <2> QED
    BY <1>24, <2>1, <2>2, <2>3 DEF StopClears
<1>25. ASSUME NEW w \in Waiters, WaitBegins(w) PROVE TypeOK'
  BY <1>25 DEF WaitBegins
<1>26. ASSUME NEW w \in Waiters, WaitTestsRunning(w) PROVE TypeOK'
  BY <1>26 DEF WaitTestsRunning
<1>27. ASSUME NEW w \in Waiters, WaitTestsDecommissioned(w) PROVE TypeOK'
  BY <1>27 DEF WaitTestsDecommissioned
<1>28. ASSUME NEW c \in Conns, Connect(c) PROVE TypeOK'
  BY <1>28 DEF Connect
<1>29. ASSUME NEW c \in Conns, TaskStarts(c) PROVE TypeOK'
  BY <1>29, TakeFirst DEF TaskStarts, TQ!Start
<1>30. ASSUME NEW c \in Conns, FirstSelect(c) PROVE TypeOK'
  BY <1>30 DEF FirstSelect
<1>31. ASSUME NEW c \in Conns, KeepAliveGivesUp(c) PROVE TypeOK'
  BY <1>31 DEF KeepAliveGivesUp
<1>32. ASSUME NEW c \in Conns, KeepAliveReady(c) PROVE TypeOK'
  BY <1>32 DEF KeepAliveReady
<1>33. ASSUME NEW c \in Conns, RequestServed(c) PROVE TypeOK'
  <2>1. count[c] \in 1 .. KeepAliveMax
    BY <1>33 DEF RequestServed, CountedDown
  <2>2. count' \in [Conns -> 0 .. KeepAliveMax]
    BY <1>33, <2>1 DEF RequestServed
  <2>3. conn' \in [Conns -> {"new", "backlog", "reset", "accepted", "queued", "first",
                            "loop", "serving", "closing", "closed"}]
    BY <1>33 DEF RequestServed
  <2> QED
    BY <1>33, <2>2, <2>3 DEF RequestServed
<1>34. ASSUME NEW c \in Conns, TaskEnds(c) PROVE TypeOK'
  BY <1>34 DEF TaskEnds, TQ!Finish
<1>35. CASE UNCHANGED vars
  BY <1>35 DEF vars
<1>36. CASE NewTaskQueue
  <2>1. CASE queue' = <<>> /\ active' = {} /\ done' = {} /\ phase' = "open" /\ lpc' = "loop"
    <3>1. TQ!TypeOK'
      BY <2>1
    <3> QED
      BY <1>36, <2>1, <3>1 DEF NewTaskQueue
  <2>2. CASE lpc' = "throw" /\ UNCHANGED tq
    BY <1>36, <2>2 DEF NewTaskQueue
  <2> QED
    BY <1>36, <2>1, <2>2 DEF NewTaskQueue
<1>37. CASE ListenThrows
  BY <1>37 DEF ListenThrows
<1>38. CASE EnqueueThrows
  BY <1>38 DEF EnqueueThrows
<1> QED
  BY <1>1, <1>2, <1>3, <1>4, <1>5, <1>6, <1>7, <1>8, <1>9, <1>10, <1>11, <1>12,
     <1>13, <1>14, <1>15, <1>16, <1>17, <1>18, <1>19, <1>20, <1>21, <1>22, <1>23,
     <1>24, <1>25, <1>26, <1>27, <1>28, <1>29, <1>30, <1>31, <1>32, <1>33, <1>34,
     <1>35,
     <1>36, <1>37, <1>38
  DEF Next, Aborted, ListenStep, StopStep, WaitStep, TaskStep

\* A connection that may send a request has at least one left.
LEMMA NextCount == TypeOK /\ CountedDown /\ [Next]_vars => CountedDown'
<1> SUFFICES ASSUME TypeOK, CountedDown, [Next]_vars PROVE CountedDown'
  OBVIOUS
<1> USE ServerAssumption DEF CountedDown, TypeOK, shared, kernel, listener, conns,
     ghosts, tq
<1>1. ASSUME NEW c \in Conns, Accept(c) PROVE CountedDown'
  BY <1>1 DEF Accept
<1>2. CASE AcceptErrorClose
  BY <1>2 DEF AcceptErrorClose, CloseSocket
<1>3. CASE EnqueueConn
  BY <1>3 DEF EnqueueConn, TQ!Accept, TQ!Known
<1>4. ASSUME NEW s \in Stoppers, StopCloses(s) PROVE CountedDown'
  BY <1>4 DEF StopCloses, CloseSocket
<1>5. ASSUME NEW c \in Conns, Connect(c) PROVE CountedDown'
  BY <1>5 DEF Connect
<1>6. ASSUME NEW c \in Conns, TaskStarts(c) PROVE CountedDown'
  BY <1>6 DEF TaskStarts, TQ!Start
<1>7. ASSUME NEW c \in Conns, FirstSelect(c) PROVE CountedDown'
  BY <1>7 DEF FirstSelect
<1>8. ASSUME NEW c \in Conns, KeepAliveGivesUp(c) PROVE CountedDown'
  BY <1>8 DEF KeepAliveGivesUp
<1>9. ASSUME NEW c \in Conns, KeepAliveReady(c) PROVE CountedDown'
  BY <1>9 DEF KeepAliveReady
<1>10. ASSUME NEW c \in Conns, RequestServed(c) PROVE CountedDown'
  BY <1>10 DEF RequestServed
<1>11. ASSUME NEW c \in Conns, TaskEnds(c) PROVE CountedDown'
  BY <1>11 DEF TaskEnds, TQ!Finish
<1>12. CASE UNCHANGED <<conn, count>>
  BY <1>12
<1>13. CASE \/ ListenChecks \/ ListenRuns \/ NewTaskQueue \/ ListenThrows
            \/ EnqueueThrows \/ LoopTest \/ LoadSocket
            \/ AcceptRetries \/ AcceptFails \/ AcceptErrorTest \/ AcceptErrorLoad
            \/ ShutdownQueue \/ QueueDrained \/ ListenDecommissions
            \/ ListenReturns \/ BindFails \/ Decommission
  BY <1>12, <1>13 DEF ListenChecks, ListenRuns, NewTaskQueue,
     ListenThrows, EnqueueThrows, LoopTest, LoadSocket, AcceptRetries,
     AcceptFails, AcceptErrorTest, AcceptErrorLoad, ShutdownQueue, TQ!Close,
     QueueDrained, TQ!Closed, ListenDecommissions, ListenReturns, BindFails,
     Decommission
<1>14. ASSUME NEW f \in Fds,
            Bind(f)
     PROVE  CountedDown'
  BY <1>12, <1>14 DEF Bind
<1>15. ASSUME NEW s \in Stoppers,
            \/ StopTests(s) \/ StopAsserts(s) \/ StopExchanges(s)
            \/ StopShutsDown(s) \/ StopClears(s)
     PROVE  CountedDown'
  BY <1>12, <1>15 DEF StopTests, Listening, StopAsserts, StopExchanges,
     StopShutsDown, ShutdownSocket, StopClears
<1>16. ASSUME NEW w \in Waiters,
            WaitBegins(w) \/ WaitTestsRunning(w) \/ WaitTestsDecommissioned(w)
     PROVE  CountedDown'
  BY <1>12, <1>16 DEF WaitBegins, WaitTestsRunning, WaitTestsDecommissioned
<1>17. CASE UNCHANGED vars
  BY <1>12, <1>17 DEF vars
<1> QED
  BY <1>1, <1>2, <1>3, <1>4, <1>5, <1>6, <1>7, <1>8, <1>9, <1>10, <1>11, <1>13,
     <1>14, <1>15, <1>16, <1>17
  DEF Next, Aborted, ListenStep, StopStep, WaitStep, TaskStep

\* Open sockets have an owner: bind finds svr_sock_ at rest, stop() takes over what it
\* exchanges, and closes it before it forgets it.
LEMMA NextOwners == TypeOK /\ SocketOwners /\ [Next]_vars => SocketOwners'
<1> SUFFICES ASSUME TypeOK, SocketOwners, [Next]_vars PROVE SocketOwners'
  OBVIOUS
<1> USE ServerAssumption DEF TypeOK, MaybeFd, SocketOwners, NoLeakedListener,
     AtRest, Reloaded, shared, kernel, listener, conns, ghosts, tq
<1>1. CASE ListenChecks
  BY <1>1 DEF ListenChecks
<1>2. CASE ListenRuns
  BY <1>2 DEF ListenRuns
<1>3. CASE LoopTest
  BY <1>3 DEF LoopTest
<1>4. CASE LoadSocket
  BY <1>4 DEF LoadSocket
<1>5. ASSUME NEW c \in Conns, Accept(c) PROVE SocketOwners'
  BY <1>5 DEF Accept
<1>6. CASE AcceptRetries
  BY <1>6 DEF AcceptRetries
<1>7. CASE AcceptFails
  BY <1>7 DEF AcceptFails
<1>8. CASE AcceptErrorTest
  BY <1>8 DEF AcceptErrorTest
<1>9. CASE AcceptErrorLoad
  BY <1>9 DEF AcceptErrorLoad
<1>10. CASE AcceptErrorClose
  BY <1>10 DEF AcceptErrorClose, CloseSocket
<1>11. CASE EnqueueConn
  BY <1>11 DEF EnqueueConn, TQ!Accept, TQ!Known
<1>12. CASE ShutdownQueue
  BY <1>12 DEF ShutdownQueue, TQ!Close
<1>13. CASE QueueDrained
  BY <1>13 DEF QueueDrained, TQ!Closed
<1>14. CASE ListenDecommissions
  BY <1>14 DEF ListenDecommissions
<1>15. CASE ListenReturns
  BY <1>15 DEF ListenReturns
<1>16. ASSUME NEW f \in Fds, Bind(f) PROVE SocketOwners'
  BY <1>16 DEF Bind
<1>17. CASE BindFails
  BY <1>17 DEF BindFails
<1>18. CASE Decommission
  BY <1>18 DEF Decommission
<1>19. ASSUME NEW s \in Stoppers, StopTests(s) PROVE SocketOwners'
  BY <1>19 DEF StopTests, Listening
<1>20. ASSUME NEW s \in Stoppers, StopAsserts(s) PROVE SocketOwners'
  BY <1>20 DEF StopAsserts
<1>21. ASSUME NEW s \in Stoppers, StopExchanges(s) PROVE SocketOwners'
  BY <1>21 DEF StopExchanges
<1>22. ASSUME NEW s \in Stoppers, StopShutsDown(s) PROVE SocketOwners'
  BY <1>22 DEF StopShutsDown, ShutdownSocket
<1>23. ASSUME NEW s \in Stoppers, StopCloses(s) PROVE SocketOwners'
  BY <1>23 DEF StopCloses, CloseSocket
<1>24. ASSUME NEW s \in Stoppers, StopClears(s) PROVE SocketOwners'
  BY <1>24 DEF StopClears
<1>25. CASE UNCHANGED <<svr_sock_, is_decommissioned, fd, abandoned, lpc, lfd, spc, sfd>>
  BY <1>25
<1>26. ASSUME NEW w \in Waiters,
            WaitBegins(w) \/ WaitTestsRunning(w) \/ WaitTestsDecommissioned(w)
     PROVE  SocketOwners'
  BY <1>25, <1>26 DEF WaitBegins, WaitTestsRunning, WaitTestsDecommissioned
<1>27. ASSUME NEW c \in Conns,
            \/ Connect(c) \/ TaskStarts(c) \/ FirstSelect(c) \/ KeepAliveGivesUp(c)
            \/ KeepAliveReady(c) \/ RequestServed(c) \/ TaskEnds(c)
     PROVE  SocketOwners'
  BY <1>25, <1>27 DEF Connect, TaskStarts, TQ!Start, FirstSelect, KeepAliveGivesUp,
     KeepAliveReady, RequestServed, TaskEnds, TQ!Finish
<1>28. CASE UNCHANGED vars
  BY <1>25, <1>28 DEF vars
<1>29. CASE NewTaskQueue
  BY <1>29 DEF NewTaskQueue
<1>30. CASE ListenThrows
  BY <1>30 DEF ListenThrows
<1>31. CASE EnqueueThrows
  BY <1>31 DEF EnqueueThrows
<1> QED
  BY <1>1, <1>2, <1>3, <1>4, <1>5, <1>6, <1>7, <1>8, <1>9, <1>10, <1>11, <1>12,
     <1>13, <1>14, <1>15, <1>16, <1>17, <1>18, <1>19, <1>20, <1>21, <1>22, <1>23,
     <1>24, <1>26, <1>27, <1>28,
     <1>29, <1>30, <1>31
  DEF Next, Aborted, ListenStep, StopStep, WaitStep, TaskStep

\* Where accept fails only because of stop(): the exchange hands each socket to one
\* stop() call, and is over before the shutdown that makes accept fail.
LEMMA NextStopOwns == TypeOK /\ StopOwns /\ [Next]_vars => StopOwns'
<1> SUFFICES ASSUME TypeOK, StopOwns, [Next]_vars PROVE StopOwns'
  OBVIOUS
<1> USE ServerAssumption DEF TypeOK, MaybeFd, StopOwns, Holds, shared, kernel,
     listener, conns, ghosts, tq
<1>1. CASE ListenChecks
  BY <1>1 DEF ListenChecks
<1>2. CASE ListenRuns
  BY <1>2 DEF ListenRuns
<1>3. CASE LoopTest
  BY <1>3 DEF LoopTest
<1>4. CASE LoadSocket
  BY <1>4 DEF LoadSocket
<1>5. ASSUME NEW c \in Conns, Accept(c) PROVE StopOwns'
  BY <1>5 DEF Accept
<1>6. CASE AcceptRetries
  BY <1>6 DEF AcceptRetries
<1>7. CASE AcceptFails
  BY <1>7 DEF AcceptFails
<1>8. CASE AcceptErrorTest
  BY <1>8 DEF AcceptErrorTest
<1>9. CASE AcceptErrorLoad
  BY <1>9 DEF AcceptErrorLoad
<1>10. CASE AcceptErrorClose
  BY <1>10 DEF AcceptErrorClose, CloseSocket
<1>11. CASE EnqueueConn
  BY <1>11 DEF EnqueueConn, TQ!Accept, TQ!Known
<1>12. CASE ShutdownQueue
  BY <1>12 DEF ShutdownQueue, TQ!Close
<1>13. CASE QueueDrained
  BY <1>13 DEF QueueDrained, TQ!Closed
<1>14. CASE ListenDecommissions
  BY <1>14 DEF ListenDecommissions
<1>15. CASE ListenReturns
  BY <1>15 DEF ListenReturns
<1>16. ASSUME NEW f \in Fds, Bind(f) PROVE StopOwns'
  BY <1>16 DEF Bind
<1>17. CASE BindFails
  BY <1>17 DEF BindFails
<1>18. ASSUME NEW s \in Stoppers, StopTests(s) PROVE StopOwns'
  BY <1>18 DEF StopTests, Listening
<1>19. ASSUME NEW s \in Stoppers, StopAsserts(s) PROVE StopOwns'
  BY <1>19 DEF StopAsserts
<1>20. ASSUME NEW s \in Stoppers, StopExchanges(s) PROVE StopOwns'
  BY <1>20 DEF StopExchanges
<1>21. ASSUME NEW s \in Stoppers, StopShutsDown(s) PROVE StopOwns'
  BY <1>21 DEF StopShutsDown, ShutdownSocket
<1>22. ASSUME NEW s \in Stoppers, StopCloses(s) PROVE StopOwns'
  BY <1>22 DEF StopCloses, CloseSocket
<1>23. ASSUME NEW s \in Stoppers, StopClears(s) PROVE StopOwns'
  BY <1>23 DEF StopClears
<1>24. CASE UNCHANGED <<svr_sock_, fd, closes, lpc, lfd, ret, spc, sfd>>
  BY <1>24
<1>25. CASE Decommission
  BY <1>24, <1>25 DEF Decommission
<1>26. ASSUME NEW w \in Waiters,
            WaitBegins(w) \/ WaitTestsRunning(w) \/ WaitTestsDecommissioned(w)
     PROVE  StopOwns'
  BY <1>24, <1>26 DEF WaitBegins, WaitTestsRunning, WaitTestsDecommissioned
<1>27. ASSUME NEW c \in Conns,
            \/ Connect(c) \/ TaskStarts(c) \/ FirstSelect(c) \/ KeepAliveGivesUp(c)
            \/ KeepAliveReady(c) \/ RequestServed(c) \/ TaskEnds(c)
     PROVE  StopOwns'
  BY <1>24, <1>27 DEF Connect, TaskStarts, TQ!Start, FirstSelect, KeepAliveGivesUp,
     KeepAliveReady, RequestServed, TaskEnds, TQ!Finish
<1>28. CASE UNCHANGED vars
  BY <1>24, <1>28 DEF vars
<1>29. CASE NewTaskQueue
  BY <1>29 DEF NewTaskQueue
<1>30. CASE ListenThrows
  BY <1>30 DEF ListenThrows
<1>31. CASE EnqueueThrows
  BY <1>31 DEF EnqueueThrows
<1> QED
  BY <1>1, <1>2, <1>3, <1>4, <1>5, <1>6, <1>7, <1>8, <1>9, <1>10, <1>11, <1>12,
     <1>13, <1>14, <1>15, <1>16, <1>17, <1>18, <1>19, <1>20, <1>21, <1>22, <1>23,
     <1>25, <1>26, <1>27, <1>28,
     <1>29, <1>30, <1>31
  DEF Next, Aborted, ListenStep, StopStep, WaitStep, TaskStep

\* A connection is in the queue, on a thread or with the listener, as its state says.
LEMMA NextTasks == TypeOK /\ TasksKnown /\ [Next]_vars => TasksKnown'
<1> SUFFICES ASSUME TypeOK, TasksKnown, [Next]_vars PROVE TasksKnown'
  OBVIOUS
<1> USE DEF TypeOK, TQ!TypeOK, TasksKnown, Running, shared, kernel, listener, conns,
     ghosts, tq
<1>1. CASE ListenChecks
  BY <1>1 DEF ListenChecks
<1>2. CASE ListenRuns
  BY <1>2 DEF ListenRuns
<1>3. CASE LoopTest
  BY <1>3 DEF LoopTest
<1>4. CASE LoadSocket
  BY <1>4 DEF LoadSocket
<1>5. ASSUME NEW c \in Conns, Accept(c) PROVE TasksKnown'
  BY <1>5 DEF Accept
<1>6. CASE AcceptRetries
  BY <1>6 DEF AcceptRetries
<1>7. CASE AcceptFails
  BY <1>7 DEF AcceptFails
<1>8. CASE AcceptErrorTest
  BY <1>8 DEF AcceptErrorTest
<1>9. CASE AcceptErrorLoad
  BY <1>9 DEF AcceptErrorLoad
<1>10. CASE AcceptErrorClose
  BY <1>10 DEF AcceptErrorClose, CloseSocket
<1>11. CASE EnqueueConn
  <2>1. /\ conn[sock] = "accepted" /\ sock \in Conns /\ sock \notin Elements(queue)
        /\ lpc' = "loop" /\ active' = active /\ sock' = sock
    BY <1>11 DEF EnqueueConn, TQ!Accept
  <2>2. CASE TQ!Accept(sock) /\ conn' = [conn EXCEPT ![sock] = "queued"]
    <3>1. Elements(queue') = Elements(queue) \cup {sock} /\ Distinct(queue')
      BY <2>1, <2>2, AppendElements DEF TQ!Accept
    <3> QED
      BY <2>1, <2>2, <3>1
  <2>3. CASE conn' = [conn EXCEPT ![sock] = "closed"] /\ UNCHANGED tq
    BY <2>1, <2>3
  <2> QED
    BY <1>11, <2>2, <2>3 DEF EnqueueConn
<1>12. CASE ShutdownQueue
  BY <1>12 DEF ShutdownQueue, TQ!Close
<1>13. CASE QueueDrained
  BY <1>13 DEF QueueDrained, TQ!Closed
<1>14. CASE ListenDecommissions
  BY <1>14 DEF ListenDecommissions
<1>15. CASE ListenReturns
  BY <1>15 DEF ListenReturns
<1>16. ASSUME NEW f \in Fds, Bind(f) PROVE TasksKnown'
  BY <1>16 DEF Bind
<1>17. ASSUME NEW s \in Stoppers, StopCloses(s) PROVE TasksKnown'
  BY <1>17 DEF StopCloses, CloseSocket
<1>18. ASSUME NEW c \in Conns, Connect(c) PROVE TasksKnown'
  BY <1>18 DEF Connect
<1>19. ASSUME NEW c \in Conns, TaskStarts(c) PROVE TasksKnown'
  <2>1. /\ Elements(queue') = Elements(queue) \ {c} /\ Distinct(queue')
        /\ c \in Elements(queue) /\ queue # <<>>
    BY <1>19, TailElements DEF TaskStarts, TQ!Start
  <2> QED
    BY <1>19, <2>1 DEF TaskStarts, TQ!Start
<1>20. ASSUME NEW c \in Conns, FirstSelect(c) PROVE TasksKnown'
  BY <1>20 DEF FirstSelect
<1>21. ASSUME NEW c \in Conns, KeepAliveGivesUp(c) PROVE TasksKnown'
  BY <1>21 DEF KeepAliveGivesUp
<1>22. ASSUME NEW c \in Conns, KeepAliveReady(c) PROVE TasksKnown'
  BY <1>22 DEF KeepAliveReady
<1>23. ASSUME NEW c \in Conns, RequestServed(c) PROVE TasksKnown'
  <2>1. CASE conn' = [conn EXCEPT ![c] = "closing"]
    BY <1>23, <2>1 DEF RequestServed
  <2>2. CASE conn' = [conn EXCEPT ![c] = "first"]
    BY <1>23, <2>2 DEF RequestServed
  <2> QED
    BY <1>23, <2>1, <2>2 DEF RequestServed
<1>24. ASSUME NEW c \in Conns, TaskEnds(c) PROVE TasksKnown'
  BY <1>24 DEF TaskEnds, TQ!Finish
<1>25. CASE UNCHANGED <<lpc, sock, conn, queue, active>>
  BY <1>25
<1>26. CASE BindFails \/ Decommission
  BY <1>25, <1>26 DEF BindFails, Decommission
<1>27. ASSUME NEW s \in Stoppers,
            \/ StopTests(s) \/ StopAsserts(s) \/ StopExchanges(s)
            \/ StopShutsDown(s) \/ StopClears(s)
     PROVE  TasksKnown'
  BY <1>25, <1>27 DEF StopTests, Listening, StopAsserts, StopExchanges,
     StopShutsDown, ShutdownSocket, StopClears
<1>28. ASSUME NEW w \in Waiters,
            WaitBegins(w) \/ WaitTestsRunning(w) \/ WaitTestsDecommissioned(w)
     PROVE  TasksKnown'
  BY <1>25, <1>28 DEF WaitBegins, WaitTestsRunning, WaitTestsDecommissioned
<1>29. CASE UNCHANGED vars
  BY <1>25, <1>29 DEF vars
<1>30. CASE NewTaskQueue
  BY <1>30, ElementsEmpty DEF NewTaskQueue
<1>31. CASE ListenThrows
  BY <1>31 DEF ListenThrows
<1>32. CASE EnqueueThrows
  BY <1>32 DEF EnqueueThrows
<1> QED
  BY <1>1, <1>2, <1>3, <1>4, <1>5, <1>6, <1>7, <1>8, <1>9, <1>10, <1>11, <1>12,
     <1>13, <1>14, <1>15, <1>16, <1>17, <1>18, <1>19, <1>20, <1>21, <1>22, <1>23,
     <1>24, <1>26, <1>27, <1>28, <1>29,
     <1>30, <1>31, <1>32
  DEF Next, Aborted, ListenStep, StopStep, WaitStep, TaskStep

-----------------------------------------------------------------------------
(* The theorems *)

\* The invariant is inductive.
LEMMA NextIInv == IInv /\ [Next]_vars => IInv'
BY NextType, NextCount, NextOwners, NextStopOwns, NextTasks DEF IInv

\* The inductive invariant holds of every server.
THEOREM ServerInvariant == Spec => []IInv
BY InitIInv, NextIInv, PTL DEF Spec

\* If accept fails only because stop() closed the socket, listen() never returns
\* false for it, whatever number of threads call stop() and however often.
THEOREM CleanShutdown == Spec => []StopIsNotAnError
<1>1. IInv => StopIsNotAnError
  BY DEF IInv, StopOwns, StopIsNotAnError
<1> QED
  BY ServerInvariant, <1>1, PTL

\* Every listening socket is closed at most once, and one that is still open
\* belongs to svr_sock_ or to the stop() call that is closing it, unless the code
\* dropped it: no port could be told, decommission() came between bind and listen, or
\* the queue could not be built.
THEOREM ListenersAreAccounted == Spec => []ListenersAccounted
<1>1. IInv => ListenersAccounted
  BY DEF IInv, TypeOK, StopOwns, SocketOwners, ListenersAccounted, SocketClosedOnce
<1> QED
  BY ServerInvariant, <1>1, PTL

\* When listen() has returned, no accepted connection is queued, running or lost.
THEOREM ListenOutlivesConnections == Spec => []NoConnectionOutlivesListen
<1>1. IInv => NoConnectionOutlivesListen
  <2> SUFFICES ASSUME IInv, ~Listening, NEW c \in Conns
               PROVE  conn[c] \in {"new", "backlog", "reset", "closed"}
    BY DEF NoConnectionOutlivesListen
  <2>1. c \notin Elements(queue) /\ c \notin active
    BY ElementsEmpty DEF IInv, TasksKnown, Listening
  <2> QED
    BY <2>1 DEF IInv, TypeOK, TasksKnown, Running, Listening
<1> QED
  BY ServerInvariant, <1>1, PTL

-----------------------------------------------------------------------------
(* Files (Content, FileServing)                                             *)

FileTypes ==
    /\ version \in Seq([size : Nat, mtime : Nat])
    /\ inode \in Seq(1 .. Len(version))
    /\ entry \in [1 .. NMounts -> {F!Outside, F!Dir} \cup 0 .. Len(inode)]
    /\ mount \in 1 .. NMounts
    /\ seen \in 0 .. Len(version)
    /\ mapped \in 0 .. Len(inode)
    /\ requests \in Nat
    /\ pc \in {"idle", "stat", "open", "write", "dead"}

AnswerTypes ==
    /\ req \in [method : {"GET", "HEAD"}, etag : 0 .. Len(version), since : 0 .. Len(version),
                from : Nat, ifrange : {F!ByEtag} \cup 0 .. Len(version)]
    /\ res \in [status : Nat, size : Nat, label : 0 .. Len(version), touched : BOOLEAN]
    /\ copy \in [blocks : Seq(1 .. Len(version)), size : Nat, label : 0 .. Len(version),
                 raced : BOOLEAN, spoilt : BOOLEAN]

\* A request names the client's copy or nothing.
Asked ==
    pc \in {"stat", "open"} =>
        /\ req.etag \in {0, copy.label} /\ req.since \in {0, copy.label}
        /\ req.from > 0 => copy.label # 0 /\ req.ifrange \in {F!ByEtag, copy.label}

\* What is open was seen, and a copy goes on only with a file no younger than it.
Accepted ==
    pc = "open" =>
        /\ seen # 0
        /\ req.from > 0 => version[seen].mtime <= version[copy.label].mtime

\* The mapping has the size of the response and the content of the label, until
\* somebody writes it in place.
Mapping ==
    /\ pc = "write" =>
          /\ mapped # 0
          /\ res.touched \/ version[inode[mapped]].size = res.size
          /\ copy.raced \/ copy.spoilt \/ (copy.label # 0 /\ inode[mapped] = copy.label)
    /\ pc = "dead" => res.touched /\ Len(copy.blocks) < res.size

\* Every block of a copy is no younger than those before it, and none is younger ... label
Ordered ==
    ~copy.raced /\ ~copy.spoilt =>
        \A b \in 1 .. Len(copy.blocks) :
            /\ copy.label # 0
            /\ version[copy.label].mtime <= version[copy.blocks[b]].mtime
            /\ \A a \in 1 .. Len(copy.blocks) :
                  a < b => version[copy.blocks[b]].mtime <= version[copy.blocks[a]].mtime

\* A 304 was decided on the version seen, by the validators of the copy.
Unmodified ==
    res.status = 304 =>
        /\ pc = "idle" /\ seen # 0 /\ copy.label # 0
        /\ \/ req.etag = copy.label /\ version[copy.label] = version[seen]
           \/ /\ req.etag = 0
              /\ version[seen].mtime <= version[copy.label].mtime

FileInv == FileTypes /\ AnswerTypes /\ Asked /\ Accepted /\ Mapping /\ Ordered /\ Unmodified

\* The first state.
LEMMA InitFiles ==
    ASSUME ContentAssumption, F!Init PROVE FileInv
<1> USE ContentAssumption DEF ContentAssumption, F!FilesAssumption
<1>1. PICK size \in Sizes : version = <<[size |-> size, mtime |-> 1]>> /\ inode = <<1>>
  BY DEF F!Init
<1>2. version \in Seq([size : Nat, mtime : Nat]) /\ Len(version) = 1
  BY <1>1
<1>3. inode \in Seq(1 .. Len(version)) /\ Len(inode) = 1
  BY <1>1, <1>2
<1>4. entry \in [1 .. NMounts -> {F!Outside, F!Dir} \cup 0 .. Len(inode)]
  BY <1>3 DEF F!Init, F!NoFile, F!Dir, F!Outside
<1>5. FileTypes
  BY <1>2, <1>3, <1>4 DEF F!Init, FileTypes
<1>6. copy.blocks = <<>> /\ Len(copy.blocks) = 0 /\ <<>> \in Seq(1 .. Len(version))
  BY DEF F!Init, F!NoCopy
<1>7. AnswerTypes
  BY <1>2, <1>6 DEF F!Init, F!NoCopy, F!NoRequest, F!NoResponse, AnswerTypes
<1>8. Asked /\ Accepted /\ Mapping /\ Unmodified
  BY DEF F!Init, F!NoResponse, Asked, Accepted, Mapping, Unmodified
<1>9. Ordered
  BY <1>6 DEF Ordered
<1> QED
  BY <1>5, <1>7, <1>8, <1>9 DEF FileInv

\* A request of any kind, about the client's copy or nothing.
LEMMA SendKeeps ==
    ASSUME ContentAssumption, FileInv, NEW r, F!Send(r),
           r \in [method : {"GET", "HEAD"}, etag : 0 .. Len(version), since : 0 .. Len(version),
                  from : Nat, ifrange : {F!ByEtag} \cup 0 .. Len(version)],
           \/ /\ copy' = copy
              /\ r.etag \in {0, copy.label} /\ r.since \in {0, copy.label}
              /\ r.from > 0 => copy.label # 0 /\ r.ifrange \in {F!ByEtag, copy.label}
           \/ /\ copy' = F!NoCopy /\ r.etag = 0 /\ r.since = 0 /\ r.from = 0
    PROVE  FileInv'
<1> USE ContentAssumption DEF ContentAssumption, F!FilesAssumption
<1>1. /\ version' = version /\ inode' = inode /\ entry' = entry
      /\ pc' = "stat" /\ mount' = 1 /\ seen' = 0 /\ mapped' = 0 /\ req' = r
      /\ res' = F!NoResponse /\ requests' = requests + 1
  BY DEF F!Send, F!disk
<1>2. FileTypes'
  BY <1>1 DEF FileInv, FileTypes
<1>3. Len(version) \in Nat
  BY DEF FileInv, FileTypes
<1>4. F!NoCopy \in [blocks : Seq(1 .. Len(version)), size : Nat, label : 0 .. Len(version),
                    raced : BOOLEAN, spoilt : BOOLEAN]
  BY <1>3 DEF F!NoCopy
<1>5. AnswerTypes'
  BY <1>1, <1>3, <1>4 DEF FileInv, AnswerTypes, F!NoResponse
<1>6. Asked' /\ Accepted' /\ Mapping' /\ Unmodified'
  BY <1>1 DEF Asked, Accepted, Mapping, Unmodified, F!NoResponse
<1>7. Ordered'
  <2>1. CASE copy' = copy
    BY <1>1, <2>1 DEF FileInv, Ordered
  <2>2. CASE copy' = F!NoCopy
    <3>1. Len(copy'.blocks) = 0
      BY <2>2 DEF F!NoCopy
    <3> QED
      BY <3>1 DEF Ordered
  <2> QED
    BY <2>1, <2>2
<1> QED
  BY <1>2, <1>5, <1>6, <1>7 DEF FileInv

\* The client's steps.
LEMMA ClientKeeps ==
    ASSUME ContentAssumption, FileInv, F!Get \/ F!LookUp \/ F!Revalidate \/ F!Resume
    PROVE  FileInv'
<1>0. Len(version) \in Nat /\ copy.label \in 0 .. Len(version) /\ Len(copy.blocks) \in Nat
  BY DEF FileInv, FileTypes, AnswerTypes
<1>9. F!NoRequest \in [method : {"GET", "HEAD"}, etag : 0 .. Len(version),
                        since : 0 .. Len(version), from : Nat,
                        ifrange : {F!ByEtag} \cup 0 .. Len(version)]
  BY <1>0 DEF F!NoRequest
<1>1. CASE F!Get
  BY <1>0, <1>1, SendKeeps DEF F!Get, F!NoRequest, F!ByEtag
<1>2. CASE F!LookUp
  BY <1>0, <1>2, SendKeeps DEF F!LookUp, F!NoRequest, F!ByEtag
<1>3. CASE F!Revalidate
  <2>1. PICK e, s \in {0, copy.label} :
           F!Send([F!NoRequest EXCEPT !.etag = e, !.since = s])
    BY <1>3 DEF F!Revalidate
  <2>2. copy' = copy
    BY <1>3 DEF F!Revalidate
  <2> DEFINE r == [F!NoRequest EXCEPT !.etag = e, !.since = s]
  <2>4. /\ r \in [method : {"GET", "HEAD"}, etag : 0 .. Len(version),
                  since : 0 .. Len(version), from : Nat,
                  ifrange : {F!ByEtag} \cup 0 .. Len(version)]
        /\ r.etag = e /\ r.since = s /\ r.from = 0
    BY <1>0, <1>9 DEF F!NoRequest
  <2>5. F!Send(r)
    BY <2>1
  <2> HIDE DEF r
  <2> QED
    BY <2>2, <2>4, <2>5, SendKeeps
<1>4. CASE F!Resume
  <2>1. PICK v \in {F!ByEtag, copy.label} :
           F!Send([F!NoRequest EXCEPT !.from = Len(copy.blocks), !.ifrange = v])
    BY <1>4 DEF F!Resume, F!Sent
  <2>2. copy' = copy /\ copy.label # 0
    BY <1>4 DEF F!Resume
  <2> DEFINE r == [F!NoRequest EXCEPT !.from = Len(copy.blocks), !.ifrange = v]
  <2>4. /\ r \in [method : {"GET", "HEAD"}, etag : 0 .. Len(version),
                  since : 0 .. Len(version), from : Nat,
                  ifrange : {F!ByEtag} \cup 0 .. Len(version)]
        /\ r.etag = 0 /\ r.since = 0 /\ r.ifrange = v
    BY <1>0, <1>9 DEF F!NoRequest
  <2>5. F!Send(r)
    BY <2>1
  <2> HIDE DEF r
  <2> QED
    BY <2>2, <2>4, <2>5, SendKeeps
<1> QED
  BY <1>1, <1>2, <1>3, <1>4

\* The types, apart.
LEMMA FilesTyped ==
    ASSUME FileInv
    PROVE  /\ version \in Seq([size : Nat, mtime : Nat]) /\ Len(version) \in Nat
           /\ inode \in Seq(1 .. Len(version)) /\ Len(inode) \in Nat
           /\ entry \in [1 .. NMounts -> {F!Outside, F!Dir} \cup 0 .. Len(inode)]
           /\ entry[mount] \in {F!Outside, F!Dir} \cup 0 .. Len(inode)
           /\ seen \in 0 .. Len(version) /\ mapped \in 0 .. Len(inode)
<1>1. /\ version \in Seq([size : Nat, mtime : Nat]) /\ inode \in Seq(1 .. Len(version))
      /\ entry \in [1 .. NMounts -> {F!Outside, F!Dir} \cup 0 .. Len(inode)]
      /\ mount \in 1 .. NMounts
      /\ seen \in 0 .. Len(version) /\ mapped \in 0 .. Len(inode)
  BY DEF FileInv, FileTypes
<1>2. Len(version) \in Nat
  BY <1>1, LenProperties
<1>3. Len(inode) \in Nat
  BY <1>1, LenProperties
<1>4. entry[mount] \in {F!Outside, F!Dir} \cup 0 .. Len(inode)
  BY <1>1
<1> QED
  BY <1>1, <1>2, <1>3, <1>4

\* stat, and the conditions on what it saw.
LEMMA StatKeeps ==
    ASSUME ContentAssumption, FileInv, F!Stat
    PROVE  FileInv'
<1> USE ContentAssumption DEF ContentAssumption, F!FilesAssumption
<1>0. Len(version) \in Nat
  BY DEF FileInv, FileTypes
<1>1. /\ version' = version /\ inode' = inode /\ entry' = entry
      /\ mapped' = mapped /\ copy' = copy /\ requests' = requests /\ pc = "stat"
  BY DEF F!Stat, F!disk, F!client
<1>2. Ordered'
  BY <1>1 DEF FileInv, Ordered
<1>3. CASE entry[mount] \in {F!NoFile, F!Outside, F!Dir}
  <2>1. /\ seen' = seen /\ req' = req
        /\ \/ mount < NMounts /\ mount' = mount + 1 /\ pc' = pc /\ res' = res
           \/ /\ mount' = mount /\ pc' = "idle"
              /\ \E n \in {301, 403, 404} :
                    res' = [status |-> n, size |-> 0, touched |-> FALSE, label |-> 0]
    BY <1>3 DEF F!Stat, F!NotHere, F!Answer, F!NoFile, F!Outside, F!Dir
  <2>2. FileTypes'
    BY <1>1, <2>1 DEF FileInv, FileTypes
  <2>3. AnswerTypes'
    <3>1. res' \in [status : Nat, size : Nat, label : 0 .. Len(version), touched : BOOLEAN]
      <4>1. CASE res' = res
        BY <4>1 DEF FileInv, AnswerTypes
      <4>2. ASSUME NEW n \in {301, 403, 404},
                   res' = [status |-> n, size |-> 0, touched |-> FALSE, label |-> 0]
            PROVE  res' \in [status : Nat, size : Nat, label : 0 .. Len(version),
                             touched : BOOLEAN]
        BY <1>0, <4>2
      <4> QED
        BY <2>1, <4>1, <4>2
    <3> QED
      BY <1>1, <2>1, <3>1 DEF FileInv, AnswerTypes
  <2>4. Asked' /\ Accepted' /\ Mapping' /\ Unmodified'
    BY <1>1, <2>1 DEF FileInv, Asked, Accepted, Mapping, Unmodified
  <2> QED
    BY <1>2, <2>2, <2>3, <2>4 DEF FileInv
<1>4. CASE entry[mount] > 0
  <2> DEFINE v == inode[entry[mount]]
  <2>1. v \in 1 .. Len(version) /\ Len(version) \in Nat
    <3>2. /\ inode \in Seq(1 .. Len(version)) /\ Len(version) \in Nat /\ Len(inode) \in Nat
          /\ entry[mount] \in {F!Outside, F!Dir} \cup 0 .. Len(inode)
      BY FilesTyped
    <3>1. entry[mount] \in 1 .. Len(inode)
      BY <1>4, <3>2 DEF F!Outside, F!Dir
    <3> QED
      BY <3>1, <3>2, ElementOfSeq
  <2>2. mount' = mount /\ seen' = v
    BY <1>4 DEF F!Stat, F!NoFile, F!Outside, F!Dir, F!FileStat
  <2>3. CASE F!check_if_not_modified(v)
    <3>1. /\ req' = req /\ pc' = "idle"
          /\ res' = [status |-> 304, size |-> 0, touched |-> FALSE, label |-> 0]
      BY <1>4, <2>3 DEF F!Stat, F!NoFile, F!Outside, F!Dir, F!FileStat, F!Answer
    <3>2. FileTypes'
      <4>1. seen' \in 0 .. Len(version)
        BY <2>1, <2>2
      <4> QED
        BY <1>1, <2>2, <3>1, <4>1 DEF FileInv, FileTypes
    <3>3. AnswerTypes'
      BY <1>1, <2>1, <3>1 DEF FileInv, AnswerTypes
    <3>4. Asked' /\ Accepted' /\ Mapping'
      BY <1>1, <3>1 DEF Asked, Accepted, Mapping
    <3>5. Unmodified'
      BY <1>1, <2>1, <2>2, <2>3, <3>1
      DEF FileInv, Asked, Unmodified, F!check_if_not_modified, F!SameEtag, F!NoYounger
    <3> QED
      BY <1>2, <3>2, <3>3, <3>4, <3>5 DEF FileInv
  <2>4. CASE ~F!check_if_not_modified(v)
    <3>1. /\ pc' = "open" /\ res' = res
          /\ req' = IF req.from > 0 /\ ~F!check_if_range(v) THEN [req EXCEPT !.from = 0] ELSE req
      BY <1>4, <2>4 DEF F!Stat, F!NoFile, F!Outside, F!Dir, F!FileStat, F!Answer
    <3>2. FileTypes'
      <4>1. seen' \in 0 .. Len(version)
        BY <2>1, <2>2
      <4> QED
        BY <1>1, <2>2, <3>1, <4>1 DEF FileInv, FileTypes
    <3>3. AnswerTypes'
      BY <1>1, <2>1, <3>1 DEF FileInv, AnswerTypes
    <3>4. /\ req'.etag = req.etag /\ req'.since = req.since /\ req'.ifrange = req.ifrange
          /\ req'.from > 0 => req.from > 0 /\ F!check_if_range(v)
      BY <3>1 DEF FileInv, AnswerTypes
    <3>5. Asked'
      BY <1>1, <3>1, <3>4 DEF FileInv, Asked
    <3>6. Accepted'
      BY <1>1, <2>1, <2>2, <3>4
      DEF FileInv, AnswerTypes, Asked, Accepted, F!check_if_range, F!NoYounger, F!ByEtag
    <3>7. Mapping' /\ Unmodified'
      BY <1>1, <3>1 DEF FileInv, Mapping, Unmodified
    <3> QED
      BY <1>2, <3>2, <3>3, <3>5, <3>6, <3>7 DEF FileInv
  <2> QED
    BY <2>3, <2>4
<1>5. entry[mount] \in {F!Outside, F!Dir} \cup 0 .. Len(inode) /\ Len(inode) \in Nat
  BY FilesTyped
<1> QED
  BY <1>3, <1>4, <1>5 DEF F!NoFile, F!Outside, F!Dir

\* Every version has a size and a time.
LEMMA VersionsType ==
    ASSUME FileInv
    PROVE  /\ Len(version) \in Nat
           /\ \A v \in 1 .. Len(version) : version[v].mtime \in Nat /\ version[v].size \in Nat
<1>1. version \in Seq([size : Nat, mtime : Nat]) /\ Len(version) \in Nat
  BY DEF FileInv, FileTypes
<1>2. ASSUME NEW v \in 1 .. Len(version)
      PROVE  version[v].mtime \in Nat /\ version[v].size \in Nat
  <2>1. version[v] \in [size : Nat, mtime : Nat]
    BY <1>1, ElementOfSeq
  <2> QED
    BY <2>1
<1> QED
  BY <1>1, <1>2

\* The mapping is made: the copy goes on, or it starts over.
LEMMA OpenKeeps ==
    ASSUME ContentAssumption, FileInv, F!Open
    PROVE  FileInv'
<1>0. Len(version) \in Nat /\ seen \in 0 .. Len(version)
  BY DEF FileInv, FileTypes
<1>1. /\ version' = version /\ inode' = inode /\ entry' = entry /\ mount' = mount
      /\ req' = req /\ seen' = seen /\ requests' = requests /\ pc = "open"
  BY DEF F!Open, F!disk
<1>2. pc' \in {"idle", "write"}
  BY DEF F!Open, F!Answer
<1>3. Asked' /\ Accepted'
  BY <1>2 DEF Asked, Accepted
<1>4. ASSUME res'.status \in {404, 416}, res'.size = 0, res'.label = 0, res'.touched = FALSE,
             res' \in [status : Nat, size : Nat, label : 0 .. Len(version), touched : BOOLEAN],
             pc' = "idle", copy' = copy, mapped' \in 0 .. Len(inode)
      PROVE  FileInv'
  <2>1. FileTypes'
    BY <1>1, <1>4 DEF FileInv, FileTypes
  <2>2. AnswerTypes'
    BY <1>1, <1>4 DEF FileInv, AnswerTypes
  <2>3. Mapping' /\ Unmodified'
    BY <1>4 DEF Mapping, Unmodified
  <2>4. Ordered'
    BY <1>1, <1>4 DEF FileInv, Ordered
  <2> QED
    BY <1>3, <2>1, <2>2, <2>3, <2>4 DEF FileInv
<1>5. CASE entry[mount] <= 0
  <2>1. res' = [status |-> 404, size |-> 0, touched |-> FALSE, label |-> 0]
    BY <1>5 DEF F!Open, F!Answer
  <2>2. pc' = "idle" /\ copy' = copy /\ mapped' = mapped
    BY <1>5 DEF F!Open, F!Answer
  <2>3. mapped \in 0 .. Len(inode)
    BY DEF FileInv, FileTypes
  <2> QED
    BY <1>0, <1>4, <2>1, <2>2, <2>3
<1>6. CASE entry[mount] > 0
  <2> DEFINE size == version[inode[entry[mount]]].size
  <2>1. /\ inode[entry[mount]] \in 1 .. Len(version) /\ entry[mount] \in 1 .. Len(inode)
        /\ size \in Nat /\ Len(inode) \in Nat
    <3>1. /\ inode \in Seq(1 .. Len(version)) /\ Len(version) \in Nat /\ Len(inode) \in Nat
          /\ entry[mount] \in {F!Outside, F!Dir} \cup 0 .. Len(inode)
          /\ version \in Seq([size : Nat, mtime : Nat])
      BY FilesTyped
    <3>2. entry[mount] \in 1 .. Len(inode)
      BY <1>6, <3>1 DEF F!Outside, F!Dir
    <3>3. inode[entry[mount]] \in 1 .. Len(version)
      BY <3>1, <3>2, ElementOfSeq
    <3>4. version[inode[entry[mount]]] \in [size : Nat, mtime : Nat]
      BY <3>1, <3>3, ElementOfSeq
    <3> QED
      BY <3>1, <3>2, <3>3, <3>4
  <2>2. ~(entry[mount] <= 0)
    BY <1>6, <2>1
  <2>3. mapped' = entry[mount]
    BY <2>2 DEF F!Open
  <2>4. CASE req.from >= size /\ req.from > 0
    <3>1. /\ res' = [status |-> 416, size |-> 0, touched |-> FALSE, label |-> 0]
          /\ pc' = "idle" /\ copy' = copy
      BY <2>2, <2>4 DEF F!Open, F!Answer, F!MappedSize
    <3> QED
      BY <1>0, <1>4, <2>1, <2>3, <3>1
  <2>5. CASE ~(req.from >= size /\ req.from > 0)
    <3>1. res' = [status |-> IF req.from > 0 THEN 206 ELSE 200, size |-> size,
                  label |-> seen, touched |-> FALSE]
      BY <2>2, <2>5 DEF F!Open, F!Answer, F!MappedSize
    <3>2. /\ res' \in [status : Nat, size : Nat, label : 0 .. Len(version), touched : BOOLEAN]
          /\ res'.status # 304 /\ res'.size = size
      BY <1>0, <2>1, <3>1
    <3>3. FileTypes'
      <4>1. mapped' \in 0 .. Len(inode)
        BY <2>1, <2>3
      <4> QED
        BY <1>1, <1>2, <4>1 DEF FileInv, FileTypes
    <3>4. CASE req.method = "HEAD"
      <4>1. pc' = "idle" /\ copy' = copy
        BY <2>2, <2>5, <3>4 DEF F!Open, F!Answer, F!MappedSize
      <4>2. AnswerTypes'
        BY <1>1, <3>2, <4>1 DEF FileInv, AnswerTypes
      <4>3. Mapping' /\ Unmodified'
        BY <3>2, <4>1 DEF Mapping, Unmodified
      <4>4. Ordered'
        BY <1>1, <4>1 DEF FileInv, Ordered
      <4> QED
        BY <1>3, <3>3, <4>2, <4>3, <4>4 DEF FileInv
    <3>5. CASE req.method # "HEAD"
      <4>1. /\ pc' = "write"
            /\ copy' = [blocks |-> IF req.from > 0 THEN copy.blocks ELSE <<>>,
                        size |-> size, label |-> seen,
                        spoilt |-> req.from > 0 /\ copy.spoilt,
                        raced |-> seen # inode[entry[mount]] \/ (req.from > 0 /\ copy.raced)]
        BY <2>2, <2>5, <3>5 DEF F!Open, F!Answer, F!MappedSize, F!FileStat
      <4>2. /\ copy.blocks \in Seq(1 .. Len(version)) /\ copy.spoilt \in BOOLEAN
            /\ copy.raced \in BOOLEAN /\ seen # 0
            /\ req.from > 0 => version[seen].mtime <= version[copy.label].mtime
        BY <1>1 DEF FileInv, AnswerTypes, Accepted
      <4>3. /\ copy' \in [blocks : Seq(1 .. Len(version)), size : Nat,
                          label : 0 .. Len(version), raced : BOOLEAN, spoilt : BOOLEAN]
            /\ copy'.label = seen
            /\ copy'.blocks = IF req.from > 0 THEN copy.blocks ELSE <<>>
            /\ ~copy'.raced => seen = inode[entry[mount]]
            /\ req.from > 0 /\ ~copy'.raced /\ ~copy'.spoilt => ~copy.raced /\ ~copy.spoilt
        <5>0. (IF req.from > 0 THEN copy.blocks ELSE <<>>) \in Seq(1 .. Len(version))
          BY <4>2, NoElement
        <5>6. (req.from > 0 /\ copy.spoilt) \in BOOLEAN
          BY Zenon
        <5>7. (seen # inode[entry[mount]] \/ (req.from > 0 /\ copy.raced)) \in BOOLEAN
          BY Zenon
        <5>1. /\ (IF req.from > 0 THEN copy.blocks ELSE <<>>) \in Seq(1 .. Len(version))
              /\ (req.from > 0 /\ copy.spoilt) \in BOOLEAN
              /\ (seen # inode[entry[mount]] \/ (req.from > 0 /\ copy.raced)) \in BOOLEAN
          BY <5>0, <5>6, <5>7
        <5>2. copy' \in [blocks : Seq(1 .. Len(version)), size : Nat,
                         label : 0 .. Len(version), raced : BOOLEAN, spoilt : BOOLEAN]
          BY <1>0, <2>1, <4>1, <5>1
        <5>3. /\ copy'.label = seen
              /\ copy'.blocks = IF req.from > 0 THEN copy.blocks ELSE <<>>
          BY <4>1
        <5>4. /\ copy'.raced <=> seen # inode[entry[mount]] \/ (req.from > 0 /\ copy.raced)
              /\ copy'.spoilt <=> req.from > 0 /\ copy.spoilt
          BY <4>1, <4>2
        <5> QED
          BY <5>2, <5>3, <5>4
      <4>4. AnswerTypes'
        BY <1>1, <3>2, <4>3 DEF FileInv, AnswerTypes
      <4>5. Mapping'
        BY <1>1, <2>1, <2>3, <3>2, <4>1, <4>2, <4>3 DEF Mapping
      <4>6. Unmodified'
        BY <3>2 DEF Unmodified
      <4>7. Ordered'
        <5> SUFFICES ASSUME ~copy'.raced, ~copy'.spoilt, NEW b \in 1 .. Len(copy'.blocks)
                     PROVE  /\ copy'.label # 0
                            /\ version[copy'.label].mtime <= version[copy'.blocks[b]].mtime
                            /\ \A a \in 1 .. Len(copy'.blocks) :
                                  a < b => version[copy'.blocks[b]].mtime
                                           <= version[copy'.blocks[a]].mtime
          BY <1>1 DEF Ordered
        <5>1. req.from > 0
          BY <4>3
        <5>3. b \in 1 .. Len(copy.blocks) /\ ~copy.raced /\ ~copy.spoilt
          BY <4>3, <5>1
        <5>2. /\ version[copy.label].mtime <= version[copy.blocks[b]].mtime
              /\ \A a \in 1 .. Len(copy.blocks) :
                    a < b => version[copy.blocks[b]].mtime <= version[copy.blocks[a]].mtime
              /\ copy.label # 0
          BY <5>3 DEF FileInv, Ordered
        <5>5. copy.label \in 0 .. Len(version) /\ copy.blocks[b] \in 1 .. Len(version)
          BY <4>2, <5>3, ElementOfSeq DEF FileInv, AnswerTypes
        <5>4. /\ version[seen].mtime \in Nat /\ version[copy.label].mtime \in Nat
              /\ version[copy.blocks[b]].mtime \in Nat
          BY <1>0, <4>2, <5>2, <5>5, VersionsType
        <5>6. copy'.label = seen /\ copy'.blocks = copy.blocks
          BY <4>3, <5>1
        <5>7. version[seen].mtime <= version[copy.blocks[b]].mtime
          BY <4>2, <5>1, <5>2, <5>4
        <5> QED
          BY <4>2, <5>2, <5>6, <5>7
      <4> QED
        BY <1>3, <3>3, <4>4, <4>5, <4>6, <4>7 DEF FileInv
    <3> QED
      BY <3>4, <3>5
  <2> QED
    BY <2>4, <2>5
<1>7. entry[mount] \in Int
  <2>1. entry[mount] \in {F!Outside, F!Dir} \cup 0 .. Len(inode) /\ Len(inode) \in Nat
    BY FilesTyped
  <2> QED
    BY <2>1 DEF F!Outside, F!Dir
<1> QED
  BY <1>5, <1>6, <1>7

\* A block is sent, or the file that is mapped has none any more.
LEMMA WriteKeeps ==
    ASSUME ContentAssumption, FileInv, F!Write
    PROVE  FileInv'
<1>1. /\ version' = version /\ inode' = inode /\ entry' = entry /\ mount' = mount
      /\ req' = req /\ seen' = seen /\ requests' = requests /\ mapped' = mapped /\ res' = res
      /\ pc = "write" /\ Len(copy.blocks) < res.size
  BY DEF F!Write, F!disk, F!Sent
<1>2. pc' \in {"write", "dead"}
  BY DEF F!Write
<1>3. Asked' /\ Accepted' /\ FileTypes'
  BY <1>1, <1>2 DEF FileInv, FileTypes, Asked, Accepted
<1>4. res.status # 304
  BY <1>1 DEF FileInv, Unmodified
<1>5. Unmodified'
  BY <1>1, <1>4 DEF Unmodified
<1>6. mapped \in 1 .. Len(inode) /\ Len(version) \in Nat /\ Len(inode) \in Nat
      /\ inode \in Seq(1 .. Len(version))
  BY <1>1 DEF FileInv, FileTypes, Mapping
<1>7. inode[mapped] \in 1 .. Len(version)
  BY <1>6, ElementOfSeq
<1>8. \A v \in 1 .. Len(version) : version[v].mtime \in Nat /\ version[v].size \in Nat
  BY VersionsType
<1>9. copy.blocks \in Seq(1 .. Len(version)) /\ Len(copy.blocks) \in Nat
  BY DEF FileInv, AnswerTypes
<1>10. CASE Len(copy.blocks) < version[inode[mapped]].size
  <2>1. pc' = pc /\ copy' = [copy EXCEPT !.blocks = Append(copy.blocks, inode[mapped])]
    BY <1>10 DEF F!Write, F!Sent, F!MappedSize
  <2>2. /\ Append(copy.blocks, inode[mapped]) \in Seq(1 .. Len(version))
        /\ Len(Append(copy.blocks, inode[mapped])) = Len(copy.blocks) + 1
        /\ Append(copy.blocks, inode[mapped])[Len(copy.blocks) + 1] = inode[mapped]
        /\ \A i \in 1 .. Len(copy.blocks) :
              Append(copy.blocks, inode[mapped])[i] = copy.blocks[i]
    BY <1>7, <1>9, AddLast
  <2>3. /\ copy' \in [blocks : Seq(1 .. Len(version)), size : Nat,
                      label : 0 .. Len(version), raced : BOOLEAN, spoilt : BOOLEAN]
        /\ copy'.label = copy.label /\ copy'.raced = copy.raced /\ copy'.spoilt = copy.spoilt
        /\ copy'.blocks = Append(copy.blocks, inode[mapped])
    BY <2>1, <2>2 DEF FileInv, AnswerTypes
  <2>4. AnswerTypes'
    BY <1>1, <2>3 DEF FileInv, AnswerTypes
  <2>5. Mapping'
    BY <1>1, <2>1, <2>3 DEF FileInv, Mapping
  <2>6. Ordered'
    <3> SUFFICES ASSUME ~copy.raced, ~copy.spoilt, NEW b \in 1 .. Len(copy'.blocks)
                 PROVE  /\ copy.label # 0
                        /\ version[copy.label].mtime <= version[copy'.blocks[b]].mtime
                        /\ \A a \in 1 .. Len(copy'.blocks) :
                              a < b => version[copy'.blocks[b]].mtime
                                       <= version[copy'.blocks[a]].mtime
      BY <1>1, <2>3 DEF Ordered
    <3>1. copy.label # 0 /\ copy.label \in 1 .. Len(version) /\ inode[mapped] = copy.label
      BY <1>1, <1>7 DEF FileInv, Mapping
    <3>2. CASE b \in 1 .. Len(copy.blocks)
      <4>1. /\ version[copy.label].mtime <= version[copy.blocks[b]].mtime
            /\ \A a \in 1 .. Len(copy.blocks) :
                  a < b => version[copy.blocks[b]].mtime <= version[copy.blocks[a]].mtime
        BY <3>2 DEF FileInv, Ordered
      <4>2. \A a \in 1 .. Len(copy'.blocks) : a < b => a \in 1 .. Len(copy.blocks)
        BY <1>9, <2>2, <2>3, <3>2
      <4> QED
        BY <2>2, <2>3, <3>1, <3>2, <4>1, <4>2
    <3>3. CASE b = Len(copy.blocks) + 1
      <4>1. \A a \in 1 .. Len(copy.blocks) :
               version[copy.label].mtime <= version[copy.blocks[a]].mtime
        BY DEF FileInv, Ordered
      <4>2. \A a \in 1 .. Len(copy'.blocks) : a < b => a \in 1 .. Len(copy.blocks)
        BY <1>9, <2>2, <2>3, <3>3
      <4>3. copy'.blocks[b] = copy.label
        BY <2>2, <2>3, <3>1, <3>3
      <4>4. version[copy.label].mtime \in Nat
        BY <1>8, <3>1
      <4>5. \A a \in 1 .. Len(copy.blocks) : copy'.blocks[a] = copy.blocks[a]
        BY <2>2, <2>3
      <4>6. version[copy'.blocks[b]].mtime = version[copy.label].mtime
        BY <4>3
      <4>7. version[copy.label].mtime <= version[copy'.blocks[b]].mtime
        BY <4>4, <4>6
      <4>8. ASSUME NEW a \in 1 .. Len(copy'.blocks), a < b
            PROVE  version[copy'.blocks[b]].mtime <= version[copy'.blocks[a]].mtime
        <5>1. a \in 1 .. Len(copy.blocks)
          BY <4>2, <4>8
        <5>2. copy'.blocks[a] = copy.blocks[a]
          BY <4>5, <5>1
        <5>3. version[copy.label].mtime <= version[copy.blocks[a]].mtime
          BY <4>1, <5>1
        <5> QED
          BY <4>6, <5>2, <5>3
      <4> QED
        BY <3>1, <4>7, <4>8
    <3>4. b \in 1 .. Len(copy.blocks) \/ b = Len(copy.blocks) + 1
      <4>1. Len(copy'.blocks) = Len(copy.blocks) + 1
        BY <2>2, <2>3
      <4> QED
        BY <1>9, <4>1
    <3> QED
      BY <3>2, <3>3, <3>4
  <2> QED
    BY <1>3, <1>5, <2>4, <2>5, <2>6 DEF FileInv
<1>11. CASE ~(Len(copy.blocks) < version[inode[mapped]].size)
  <2>1. pc' = "dead" /\ copy' = copy
    BY <1>11 DEF F!Write, F!Sent, F!MappedSize
  <2>2. AnswerTypes' /\ Ordered'
    BY <1>1, <2>1 DEF FileInv, AnswerTypes, Ordered
  <2>3. Mapping'
    BY <1>1, <1>7, <1>8, <1>9, <1>11, <2>1 DEF FileInv, Mapping
  <2> QED
    BY <1>3, <1>5, <2>2, <2>3 DEF FileInv
<1> QED
  BY <1>10, <1>11

\* The response ends, or the connection.
LEMMA EndKeeps ==
    ASSUME ContentAssumption, FileInv, F!Done \/ F!Cut
    PROVE  FileInv'
<1>1. /\ version' = version /\ inode' = inode /\ entry' = entry /\ mount' = mount
      /\ req' = req /\ seen' = seen /\ requests' = requests /\ mapped' = 0 /\ res' = res
      /\ copy' = copy /\ pc = "write" /\ pc' = "idle"
  BY DEF F!Done, F!Cut, F!disk, F!client
<1>2. FileTypes' /\ AnswerTypes'
  BY <1>1 DEF FileInv, FileTypes, AnswerTypes
<1>3. Asked' /\ Accepted' /\ Mapping' /\ Ordered' /\ Unmodified'
  BY <1>1 DEF FileInv, Asked, Accepted, Mapping, Ordered, Unmodified
<1> QED
  BY <1>2, <1>3 DEF FileInv

\* What the owner of the files does to them: the versions there were stay, and
\* what the mapping shows changes only if the copy is marked as spoilt.
LEMMA DiskKeeps ==
    ASSUME FileInv,
           \/ version' = version
           \/ \E size \in Nat, mtime \in Nat : version' = Append(version, [size |-> size, mtime |-> mtime]),
           Len(version') \in Nat, Len(version) <= Len(version'),
           inode' \in Seq(1 .. Len(version')), Len(inode') \in Nat, Len(inode) <= Len(inode'),
           entry' \in [1 .. NMounts -> {F!Outside, F!Dir} \cup 0 .. Len(inode')],
           pc' = pc, mount' = mount, req' = req, seen' = seen, mapped' = mapped, requests' = requests,
           \/ res' = res /\ copy' = copy
           \/ /\ res' = [res EXCEPT !.touched = TRUE] /\ copy' = [copy EXCEPT !.spoilt = TRUE]
              /\ res.status # 304,
           mapped # 0 /\ pc = "write" =>
               inode'[mapped] = inode[mapped] \/ (res'.touched /\ copy'.spoilt)
    PROVE  FileInv'
<1>1. version' \in Seq([size : Nat, mtime : Nat])
  <2>1. version \in Seq([size : Nat, mtime : Nat])
    BY DEF FileInv, FileTypes
  <2>2. ASSUME NEW size \in Nat, NEW mtime \in Nat,
               version' = Append(version, [size |-> size, mtime |-> mtime])
        PROVE  version' \in Seq([size : Nat, mtime : Nat])
    BY <2>1, <2>2, AddLast
  <2> QED
    BY <2>1, <2>2
<1>2. \A v \in 1 .. Len(version) : version'[v] = version[v]
  <2>1. version \in Seq([size : Nat, mtime : Nat])
    BY DEF FileInv, FileTypes
  <2>2. ASSUME NEW size \in Nat, NEW mtime \in Nat,
               version' = Append(version, [size |-> size, mtime |-> mtime])
        PROVE  \A v \in 1 .. Len(version) : version'[v] = version[v]
    BY <2>1, <2>2, AddLast
  <2> QED
    BY <2>2
<1>3. /\ 0 .. Len(version) \subseteq 0 .. Len(version') /\ Len(version) \in Nat
      /\ 1 .. Len(version) \subseteq 1 .. Len(version')
      /\ 0 .. Len(inode) \subseteq 0 .. Len(inode') /\ Len(inode) \in Nat
  BY DEF FileInv, FileTypes
<1>4. FileTypes'
  <2>1. seen \in 0 .. Len(version') /\ mapped \in 0 .. Len(inode')
    BY <1>3 DEF FileInv, FileTypes
  <2> QED
    BY <1>1, <2>1 DEF FileInv, FileTypes
<1>5. /\ res' \in [status : Nat, size : Nat, label : 0 .. Len(version), touched : BOOLEAN]
      /\ res'.status = res.status /\ res'.size = res.size /\ (res.touched => res'.touched)
  <2>1. res \in [status : Nat, size : Nat, label : 0 .. Len(version), touched : BOOLEAN]
    BY DEF FileInv, AnswerTypes
  <2>2. CASE res' = res
    BY <2>1, <2>2
  <2>3. CASE res' = [res EXCEPT !.touched = TRUE]
    BY <2>1, <2>3
  <2> QED
    BY <2>2, <2>3
<1>6. /\ copy' \in [blocks : Seq(1 .. Len(version)), size : Nat, label : 0 .. Len(version),
                    raced : BOOLEAN, spoilt : BOOLEAN]
      /\ copy'.blocks = copy.blocks /\ copy'.label = copy.label
      /\ (copy.raced <=> copy'.raced) /\ (copy.spoilt => copy'.spoilt)
  <2>1. copy \in [blocks : Seq(1 .. Len(version)), size : Nat, label : 0 .. Len(version),
                  raced : BOOLEAN, spoilt : BOOLEAN]
    BY DEF FileInv, AnswerTypes
  <2>2. CASE copy' = copy
    BY <2>1, <2>2
  <2>3. CASE copy' = [copy EXCEPT !.spoilt = TRUE]
    BY <2>1, <2>3
  <2> QED
    BY <2>2, <2>3
<1>7. AnswerTypes'
  <2>1. Seq(1 .. Len(version)) \subseteq Seq(1 .. Len(version'))
    BY <1>3, SeqMonotonic
  <2>2. res' \in [status : Nat, size : Nat, label : 0 .. Len(version'), touched : BOOLEAN]
    BY <1>3, <1>5
  <2>3. copy' \in [blocks : Seq(1 .. Len(version')), size : Nat, label : 0 .. Len(version'),
                   raced : BOOLEAN, spoilt : BOOLEAN]
    BY <1>3, <1>6, <2>1
  <2>4. req \in [method : {"GET", "HEAD"}, etag : 0 .. Len(version'), since : 0 .. Len(version'),
                 from : Nat, ifrange : {F!ByEtag} \cup 0 .. Len(version')]
    BY <1>3 DEF FileInv, AnswerTypes
  <2> QED
    BY <2>2, <2>3, <2>4 DEF AnswerTypes
<1>8. Asked'
  BY <1>6 DEF FileInv, Asked
<1>9. copy.label # 0 => version'[copy.label] = version[copy.label]
  <2>1. copy.label \in 0 .. Len(version)
    BY DEF FileInv, AnswerTypes
  <2>2. copy.label # 0 => copy.label \in 1 .. Len(version)
    BY ONLY <1>3, <2>1
  <2> QED
    BY ONLY <1>2, <2>2
<1>10. seen # 0 => version'[seen] = version[seen]
  <2>1. seen \in 0 .. Len(version)
    BY DEF FileInv, FileTypes
  <2>2. seen # 0 => seen \in 1 .. Len(version)
    BY ONLY <1>3, <2>1
  <2> QED
    BY ONLY <1>2, <2>2
<1>11. Accepted'
  BY <1>6, <1>9, <1>10 DEF FileInv, Accepted, Asked
<1>12. Mapping'
  <2>1. CASE pc = "write"
    <3>1. mapped \in 1 .. Len(inode) /\ inode \in Seq(1 .. Len(version))
      BY <1>3, <2>1 DEF FileInv, FileTypes, Mapping
    <3>2. inode[mapped] \in 1 .. Len(version)
      BY <3>1, ElementOfSeq
    <3>3. version'[inode[mapped]] = version[inode[mapped]]
      BY <1>2, <3>2
    <3>4. \/ inode'[mapped] = inode[mapped]
          \/ res'.touched /\ copy'.spoilt
      BY <1>3, <2>1, <3>1
    <3> QED
      BY <1>5, <1>6, <2>1, <3>1, <3>3, <3>4 DEF FileInv, Mapping
  <2>2. CASE pc = "dead"
    BY <1>5, <1>6, <2>2 DEF FileInv, Mapping
  <2>3. CASE pc \notin {"write", "dead"}
    BY <2>3 DEF Mapping
  <2> QED
    BY <2>1, <2>2, <2>3
<1>13. Ordered'
  <2> SUFFICES ASSUME ~copy'.raced, ~copy'.spoilt, NEW b \in 1 .. Len(copy.blocks)
               PROVE  /\ copy.label # 0
                      /\ version'[copy.label].mtime <= version'[copy.blocks[b]].mtime
                      /\ \A a \in 1 .. Len(copy.blocks) :
                            a < b => version'[copy.blocks[b]].mtime
                                     <= version'[copy.blocks[a]].mtime
    BY <1>6 DEF Ordered
  <2>1. /\ copy.label # 0
        /\ version[copy.label].mtime <= version[copy.blocks[b]].mtime
        /\ \A a \in 1 .. Len(copy.blocks) :
              a < b => version[copy.blocks[b]].mtime <= version[copy.blocks[a]].mtime
    BY <1>6 DEF FileInv, Ordered
  <2>2. \A i \in 1 .. Len(copy.blocks) : copy.blocks[i] \in 1 .. Len(version)
    BY ElementOfSeq DEF FileInv, AnswerTypes
  <2>3. \A i \in 1 .. Len(copy.blocks) : version'[copy.blocks[i]] = version[copy.blocks[i]]
    BY <1>2, <2>2
  <2> QED
    BY <1>9, <2>1, <2>3
<1>14. Unmodified'
  BY <1>5, <1>6, <1>9, <1>10 DEF FileInv, Unmodified
<1> QED
  BY <1>4, <1>7, <1>8, <1>11, <1>12, <1>13, <1>14 DEF FileInv

\* The steps of whoever owns the files.
LEMMA OwnerKeeps ==
    ASSUME ContentAssumption, FileInv, F!Replace \/ F!Overwrite \/ F!Remove
    PROVE  FileInv'
<1>0. Sizes \subseteq Nat /\ MaxTime \in Nat
  BY ContentAssumption DEF ContentAssumption, F!FilesAssumption
<1>1. /\ version \in Seq([size : Nat, mtime : Nat]) /\ Len(version) \in Nat
      /\ inode \in Seq(1 .. Len(version)) /\ Len(inode) \in Nat
      /\ entry \in [1 .. NMounts -> {F!Outside, F!Dir} \cup 0 .. Len(inode)]
      /\ mapped \in 0 .. Len(inode)
  BY FilesTyped
<1>2. ASSUME NEW size \in Nat, NEW mtime \in Nat, F!New(size, mtime)
      PROVE  /\ version' = Append(version, [size |-> size, mtime |-> mtime])
             /\ Len(version') = Len(version) + 1
             /\ inode \in Seq(1 .. Len(version'))
             /\ Len(version) + 1 \in 1 .. Len(version')
  <2>1. version' = Append(version, [size |-> size, mtime |-> mtime])
    BY <1>2 DEF F!New
  <2>2. [size |-> size, mtime |-> mtime] \in [size : Nat, mtime : Nat]
    OBVIOUS
  <2>3. Len(version') = Len(version) + 1
    BY <1>1, <2>1, <2>2, AddLast
  <2>4. 1 .. Len(version) \subseteq 1 .. Len(version')
    BY <1>1, <2>3
  <2>5. Seq(1 .. Len(version)) \subseteq Seq(1 .. Len(version'))
    BY <2>4, SeqMonotonic
  <2> QED
    BY <1>1, <2>1, <2>3, <2>5
<1>3. CASE F!Replace
  <2>1. PICK m \in 1 .. NMounts, size \in Sizes, mtime \in 0 .. MaxTime :
           /\ F!New(size, mtime)
           /\ inode' = Append(inode, Len(version) + 1)
           /\ entry' = [entry EXCEPT ![m] = Len(inode) + 1]
    BY <1>3 DEF F!Replace
  <2>2. /\ pc' = pc /\ mount' = mount /\ req' = req /\ seen' = seen /\ mapped' = mapped
        /\ requests' = requests /\ res' = res /\ copy' = copy
    BY <1>3 DEF F!Replace, F!client
  <2>3. size \in Nat /\ mtime \in Nat
    BY <1>0
  <2>4. /\ version' = Append(version, [size |-> size, mtime |-> mtime])
        /\ Len(version') = Len(version) + 1
        /\ inode \in Seq(1 .. Len(version'))
        /\ Len(version) + 1 \in 1 .. Len(version')
    BY <1>2, <2>1, <2>3
  <2>5. /\ inode' \in Seq(1 .. Len(version')) /\ Len(inode') = Len(inode) + 1
        /\ \A i \in 1 .. Len(inode) : inode'[i] = inode[i]
    BY <2>1, <2>4, AddLast
  <2>6. entry' \in [1 .. NMounts -> {F!Outside, F!Dir} \cup 0 .. Len(inode')]
    <3>1. 0 .. Len(inode) \subseteq 0 .. Len(inode') /\ Len(inode) + 1 \in 0 .. Len(inode')
      BY <1>1, <2>5
    <3> QED
      BY <1>1, <2>1, <3>1
  <2>7. mapped # 0 => inode'[mapped] = inode[mapped]
    BY <1>1, <2>5
  <2>8. /\ Len(version') \in Nat /\ Len(version) <= Len(version')
        /\ Len(inode') \in Nat /\ Len(inode) <= Len(inode')
    BY <1>1, <2>4, <2>5
  <2> QED
    BY <2>2, <2>3, <2>4, <2>5, <2>6, <2>7, <2>8, DiskKeeps
<1>4. CASE F!Overwrite
  <2>1. PICK m \in 1 .. NMounts, size \in Sizes :
           /\ entry[m] > 0
           /\ F!New(size, MaxTime)
           /\ inode' = [inode EXCEPT ![entry[m]] = Len(version) + 1]
           /\ LET shown == pc = "write" /\ mapped = entry[m]
              IN /\ copy' = [copy EXCEPT !.spoilt = @ \/ shown]
                 /\ res' = [res EXCEPT !.touched = @ \/ shown]
    BY <1>4 DEF F!Overwrite
  <2>2. /\ pc' = pc /\ mount' = mount /\ req' = req /\ seen' = seen /\ mapped' = mapped
        /\ requests' = requests /\ entry' = entry
    BY <1>4 DEF F!Overwrite
  <2>3. size \in Nat /\ MaxTime \in Nat
    BY <1>0
  <2>4. /\ version' = Append(version, [size |-> size, mtime |-> MaxTime])
        /\ Len(version') = Len(version) + 1
        /\ inode \in Seq(1 .. Len(version'))
        /\ Len(version) + 1 \in 1 .. Len(version')
    BY <1>2, <2>1, <2>3
  <2>5. entry[m] \in 1 .. Len(inode)
    <3>1. entry[m] \in {F!Outside, F!Dir} \cup 0 .. Len(inode)
      BY <1>1
    <3> QED
      BY <1>1, <2>1, <3>1 DEF F!Outside, F!Dir
  <2>6. /\ inode' \in Seq(1 .. Len(version')) /\ Len(inode') = Len(inode)
        /\ \A i \in 1 .. Len(inode) : i # entry[m] => inode'[i] = inode[i]
    BY <2>1, <2>4, <2>5, ExceptSeq
  <2>7. entry' \in [1 .. NMounts -> {F!Outside, F!Dir} \cup 0 .. Len(inode')]
    BY <1>1, <2>2, <2>6
  <2>8. \E n \in Nat, t \in Nat : version' = Append(version, [size |-> n, mtime |-> t])
    BY <2>3, <2>4
  <2>9. /\ Len(version') \in Nat /\ Len(version) <= Len(version')
         /\ inode' \in Seq(1 .. Len(version')) /\ Len(inode') \in Nat /\ Len(inode) <= Len(inode')
    BY <1>1, <2>4, <2>6
  <2>10. CASE pc = "write" /\ mapped = entry[m]
    <3>1. copy' = [copy EXCEPT !.spoilt = TRUE] /\ res' = [res EXCEPT !.touched = TRUE]
      BY <2>1, <2>10
    <3>2. res.status # 304
      BY <2>10 DEF FileInv, Unmodified
    <3>3. res'.touched /\ copy'.spoilt
      BY <3>1 DEF FileInv, AnswerTypes
    <3> QED
      BY <2>2, <2>7, <2>8, <2>9, <3>1, <3>2, <3>3, DiskKeeps
  <2>11. CASE ~(pc = "write" /\ mapped = entry[m])
    <3>1. copy' = copy /\ res' = res
      BY <2>1, <2>11 DEF FileInv, AnswerTypes
    <3>2. mapped # 0 /\ pc = "write" => inode'[mapped] = inode[mapped]
      BY <1>1, <2>6, <2>11
    <3> QED
      BY <2>2, <2>7, <2>8, <2>9, <3>1, <3>2, DiskKeeps
  <2> QED
    BY <2>10, <2>11
<1>5. CASE F!Remove
  <2>1. PICK m \in 1 .. NMounts : entry' = [entry EXCEPT ![m] = F!NoFile]
    BY <1>5 DEF F!Remove
  <2>2. /\ pc' = pc /\ mount' = mount /\ req' = req /\ seen' = seen /\ mapped' = mapped
        /\ requests' = requests /\ res' = res /\ copy' = copy /\ inode' = inode
        /\ version' = version
    BY <1>5 DEF F!Remove, F!client
  <2>3. entry' \in [1 .. NMounts -> {F!Outside, F!Dir} \cup 0 .. Len(inode')]
    BY <1>1, <2>1, <2>2 DEF F!NoFile
  <2> QED
    BY <1>1, <2>2, <2>3, DiskKeeps
<1> QED
  BY <1>3, <1>4, <1>5

-----------------------------------------------------------------------------
(* The theorems about files                                                 *)

\* The invariant is inductive.
LEMMA NextFiles ==
    ASSUME ContentAssumption, FileInv, F!Next \/ UNCHANGED fileVars
    PROVE  FileInv'
<1>1. CASE F!Get \/ F!LookUp \/ F!Revalidate \/ F!Resume
  BY <1>1, ClientKeeps
<1>2. CASE F!Stat
  BY <1>2, StatKeeps
<1>3. CASE F!Open
  BY <1>3, OpenKeeps
<1>4. CASE F!Write
  BY <1>4, WriteKeeps
<1>5. CASE F!Done \/ F!Cut
  BY <1>5, EndKeeps
<1>6. CASE F!Replace \/ F!Overwrite \/ F!Remove
  BY <1>6, OwnerKeeps
<1>7. CASE UNCHANGED fileVars
  <2>1. /\ entry' = entry /\ inode' = inode /\ version' = version /\ pc' = pc /\ mount' = mount
        /\ req' = req /\ seen' = seen /\ mapped' = mapped /\ res' = res /\ copy' = copy
        /\ requests' = requests
    BY <1>7 DEF fileVars
  <2>2. FileTypes' /\ AnswerTypes'
    BY <2>1 DEF FileInv, FileTypes, AnswerTypes
  <2>3. Asked' /\ Accepted' /\ Mapping' /\ Ordered' /\ Unmodified'
    BY <2>1 DEF FileInv, Asked, Accepted, Mapping, Ordered, Unmodified
  <2> QED
    BY <2>2, <2>3 DEF FileInv
<1> QED
  BY <1>1, <1>2, <1>3, <1>4, <1>5, <1>6, <1>7 DEF F!Next

\* The inductive invariant holds whenever the behaviour is about files.
THEOREM FilesInvariant == ContentSpec => [](part = "file" => FileInv)
<1> USE ContentAssumption
<1>1. ContentInit => (part = "file" => FileInv)
  BY InitFiles DEF ContentInit
<1>2. (part = "file" => FileInv) /\ [ContentNext]_contentVars => (part = "file" => FileInv)'
  <2> SUFFICES ASSUME part = "file" => FileInv, [ContentNext]_contentVars, part' = "file"
               PROVE  FileInv'
    OBVIOUS
  <2>1. part = "file"
    BY DEF ContentNext, contentVars
  <2>2. F!Next \/ UNCHANGED fileVars
    BY <2>1 DEF ContentNext, contentVars
  <2> QED
    BY <2>1, <2>2, NextFiles
<1> QED
  BY <1>1, <1>2, PTL DEF ContentSpec

\* Whatever happens to the files: a 304 is the truth about the client's copy, a
\* download in several answers is of one version unless the file was replaced by
\* one no younger, changed between stat and open or was written in place, and a
\* reader of the mapping dies only of a file that was cut in place.
\* (handle_file_request, check_if_not_modified, check_if_range, mmap.)
THEOREM CopiesAreTrueAlways == ContentSpec => []CopiesAreTrue
<1>1. (part = "file" => FileInv) => CopiesAreTrue
  <2> SUFFICES ASSUME FileInv PROVE F!NotModifiedIsTrue /\ F!CopyIsOneVersion /\ F!DeadOnlyWhenCut
    BY DEF CopiesAreTrue
  <2>1. F!NotModifiedIsTrue
    BY DEF FileInv, Unmodified, F!NotModifiedIsTrue, F!SameEtag, F!NoYounger
  <2>2. F!CopyIsOneVersion
    <3> SUFFICES ASSUME ~copy.raced, ~copy.spoilt,
                        NEW a \in DOMAIN copy.blocks, NEW b \in DOMAIN copy.blocks, a < b
                 PROVE  version[copy.blocks[b]].mtime <= version[copy.blocks[a]].mtime
      BY DEF F!CopyIsOneVersion, F!NoYounger
    <3>1. DOMAIN copy.blocks = 1 .. Len(copy.blocks)
      BY DEF FileInv, AnswerTypes
    <3> QED
      BY <3>1 DEF FileInv, Ordered
  <2>3. F!DeadOnlyWhenCut
    BY DEF FileInv, Mapping, F!DeadOnlyWhenCut, F!Sent
  <2> QED
    BY <2>1, <2>2, <2>3
<1> QED
  BY FilesInvariant, <1>1, PTL

-----------------------------------------------------------------------------
(* Bodies on their way (Content, Transfer).  The units on the wire are read   *)
(* by two automata: one that counts the bytes, whatever fails, and one that   *)
(* is the grammar of a chunked body, as long as nothing has failed.           *)

Units == ({"byte", "size"} \X Nat) \cup ({"trailer"} \X Trailers) \cup {T!Eol}

Allowed == Declared \ Prohibited

\* One unit after `at` bytes of `total`: bytes are numbered, the last chunk comes
\* after all of them, trailers are of those sent.
Counts(total, whole, names, at, u, next) ==
    /\ next = IF u[1] = "byte" THEN at + 1 ELSE at
    /\ u[1] = "byte" => u[2] = at + 1 /\ next <= total
    /\ u = T!Size(0) => whole /\ at = total
    /\ u[1] = "trailer" => u[2] \in names

Counting(total, whole, names) ==
    {x \in Nat \X Units \X Nat : Counts(total, whole, names, x[1], x[2], x[3])}

\* Where a reader of chunks is: what comes next, bytes left of the chunk, bytes
\* had, trailers had.
Places ==
    {"size", "sized", "data", "last", "trailers", "trailer", "end"} \X Nat \X Nat \X SUBSET Trailers

Chunks(names, p, u, q) ==
    \/ p[1] = "size" /\ u[1] = "size" /\ u[2] > 0 /\ q = <<"sized", u[2], p[3], p[4]>>
    \/ p[1] = "size" /\ u = T!Size(0) /\ q = <<"last", 0, p[3], p[4]>>
    \/ p[1] = "sized" /\ u = T!Eol /\ q = <<"data", p[2], p[3], p[4]>>
    \/ /\ p[1] = "data" /\ p[2] > 0 /\ u = T!Byte(p[3] + 1)
       /\ q = <<"data", p[2] - 1, p[3] + 1, p[4]>>
    \/ p[1] = "data" /\ p[2] = 0 /\ u = T!Eol /\ q = <<"size", 0, p[3], p[4]>>
    \/ p[1] = "last" /\ u = T!Eol /\ q = <<"trailers", 0, p[3], p[4]>>
    \/ /\ p[1] = "trailers" /\ u[1] = "trailer" /\ u[2] \in names \ p[4]
       /\ q = <<"trailer", 0, p[3], p[4] \cup {u[2]}>>
    \/ p[1] = "trailer" /\ u = T!Eol /\ q = <<"trailers", 0, p[3], p[4]>>
    \/ p[1] = "trailers" /\ u = T!Eol /\ q = <<"end", 0, p[3], p[4]>>

Chunking(names) == {x \in Places \X Units \X Places : Chunks(names, x[1], x[2], x[3])}

TransferTypes ==
    /\ framing \in {"length", "chunked", "close"} /\ length \in Nat /\ limit \in Nat
    /\ writer \in {"writing", "ok", "failed"}
    /\ provided \in Nat /\ held \in 0 .. provided
    /\ finished \in BOOLEAN
    /\ wire \in Seq(Units) /\ eof \in {"no", "eof", "error"}
    /\ reader \in {"size", "data", "trailers", "close", "done"} /\ remaining \in Nat
    /\ got \in Seq(Nat)
    /\ sent \subseteq Trailers /\ trailers \subseteq sent \cap Allowed
    /\ verdict \in {"reading", "ok", "error", "tooLarge"}

\* What the writer has done so far, and what follows what it wrote.
WriterPlace ==
    /\ writer = "writing" => ~finished /\ sent = {}
    /\ writer = "writing" /\ verdict = "reading" => stopped = {}
    /\ writer = "failed" => stopped # {}
    /\ eof = "error" => stopped # {}
    /\ eof = "eof" /\ framing # "close" => stopped # {}
    /\ framing = "close" /\ writer = "ok" => eof # "no"
    /\ framing # "chunked" => held = 0
    /\ framing = "length" => provided <= length /\ (writer = "ok" => provided = length)
    /\ framing = "chunked" /\ finished /\ stopped = {} => held = 0

\* What the reader has had so far.
ReaderPlace ==
    /\ \A i \in 1 .. Len(got) : got[i] = i
    /\ Len(got) <= limit
    /\ verdict = "reading" =>
          /\ framing = "length" => /\ reader = "data" /\ remaining > 0
                                   /\ remaining + Len(got) = length
          /\ framing = "close" => reader = "close"
          /\ framing = "chunked" => reader \in {"size", "data", "trailers"}
          /\ reader = "trailers" => finished /\ Len(got) = provided /\ remaining = 0

\* What a verdict says.
VerdictPlace ==
    /\ verdict = "tooLarge" => provided > limit
    /\ verdict = "ok" /\ framing = "length" => Len(got) = length
    /\ verdict = "ok" /\ framing = "chunked" =>
          /\ finished /\ Len(got) = provided
          /\ stopped = {} => trailers = sent \cap Allowed
    /\ verdict = "error" /\ stopped = {} =>
          /\ framing = "chunked"
          /\ Cardinality(sent) > MaxTrailers \/ (writer = "ok" /\ ~finished)

\* The bytes on the wire go on where those of the reader end.
BytesFollow ==
    verdict = "reading" =>
        \E k \in Nat : /\ Path(Counting(provided, finished, sent), Nat, wire, Len(got), k)
                       /\ stopped = {} => k = provided - held

\* As long as nothing has failed, the wire leads a reader of chunks from where
\* it is to where the writer is.
ChunksFollow ==
    verdict = "reading" /\ stopped = {} /\ framing = "chunked" =>
        \E had \in SUBSET Trailers :
            /\ trailers = had \cap Allowed
            /\ Path(Chunking(sent), Places, wire, <<reader, remaining, Len(got), had>>,
                    IF finished THEN <<"end", 0, provided, sent>>
                    ELSE <<"size", 0, provided - held, {}>>)

TransferInv ==
    /\ TransferTypes /\ WriterPlace /\ ReaderPlace /\ VerdictPlace
    /\ BytesFollow /\ ChunksFollow

-----------------------------------------------------------------------------
(* What the writer puts on the wire, as paths.                              *)

\* The kinds of units.
LEMMA UnitKinds ==
    /\ T!Eol \in Units /\ T!Eol[1] = "eol"
    /\ \A n \in Nat : T!Byte(n) \in Units /\ T!Byte(n)[1] = "byte" /\ T!Byte(n)[2] = n
    /\ \A n \in Nat : T!Size(n) \in Units /\ T!Size(n)[1] = "size" /\ T!Size(n)[2] = n
    /\ \A t \in Trailers :
          T!Trailer(t) \in Units /\ T!Trailer(t)[1] = "trailer" /\ T!Trailer(t)[2] = t
BY DEF Units, T!Eol, T!Byte, T!Size, T!Trailer

\* A unit with the kind "size" is a size, and so on.
LEMMA UnitIs ==
    ASSUME NEW u \in Units
    PROVE  /\ u[1] = "byte" => u[2] \in Nat /\ u = T!Byte(u[2])
           /\ u[1] = "size" => u[2] \in Nat /\ u = T!Size(u[2])
           /\ u[1] = "trailer" => u[2] \in Trailers /\ u = T!Trailer(u[2])
           /\ u[1] = "eol" => u = T!Eol
BY DEF Units, T!Eol, T!Byte, T!Size, T!Trailer

\* The steps of the automaton that counts.
LEMMA Counted ==
    ASSUME NEW total, NEW whole, NEW names, NEW at, NEW u, NEW next
    PROVE  <<at, u, next>> \in Counting(total, whole, names)
           <=> at \in Nat /\ u \in Units /\ next \in Nat /\ Counts(total, whole, names, at, u, next)
BY DEF Counting

\* The steps of the automaton that reads chunks.
LEMMA Chunked ==
    ASSUME NEW names, NEW p, NEW u, NEW q
    PROVE  <<p, u, q>> \in Chunking(names)
           <=> p \in Places /\ u \in Units /\ q \in Places /\ Chunks(names, p, u, q)
BY DEF Chunking

\* While nothing was ended, more bytes, an end and trailers take nothing away.
LEMMA CountingWider ==
    ASSUME NEW p \in Nat, NEW q \in Nat, p <= q, NEW whole, NEW names
    PROVE  Counting(p, FALSE, {}) \subseteq Counting(q, whole, names)
<1>1. ASSUME NEW at \in Nat, NEW u, NEW next \in Nat, Counts(p, FALSE, {}, at, u, next)
      PROVE  Counts(q, whole, names, at, u, next)
  BY <1>1 DEF Counts
<1> QED
  BY <1>1 DEF Counting

\* More trailers take nothing away.
LEMMA ChunkingWider ==
    ASSUME NEW names
    PROVE  Chunking({}) \subseteq Chunking(names)
<1>1. ASSUME NEW p, NEW u, NEW q, Chunks({}, p, u, q) PROVE Chunks(names, p, u, q)
  BY <1>1 DEF Chunks
<1> QED
  BY <1>1 DEF Chunking

\* The bytes of a body are units.
LEMMA BytesAre ==
    ASSUME NEW k \in Nat, NEW n \in Nat
    PROVE  /\ T!BytesOf(k + 1, n) \in Seq(Units) /\ Len(T!BytesOf(k + 1, n)) = n
           /\ \A i \in 1 .. n : T!BytesOf(k + 1, n)[i] = T!Byte(k + i)
<1>1. ASSUME NEW i \in 1 .. n PROVE T!Byte(k + 1 + i - 1) \in Units /\ k + 1 + i - 1 = k + i
  BY UnitKinds
<1> QED
  BY <1>1 DEF T!BytesOf

\* They count on from the one before.
LEMMA BytesCount ==
    ASSUME NEW total \in Nat, NEW whole, NEW names, NEW k \in Nat, NEW n \in Nat, k + n <= total
    PROVE  Path(Counting(total, whole, names), Nat, T!BytesOf(k + 1, n), k, k + n)
<1> DEFINE run == [i \in 0 .. n |-> k + i]
<1>1. run \in [0 .. n -> Nat] /\ run[0] = k /\ run[n] = k + n
  OBVIOUS
<1>2. ASSUME NEW i \in 1 .. n
      PROVE  <<run[i - 1], T!Byte(k + i), run[i]>> \in Counting(total, whole, names)
  <2>1. /\ run[i - 1] = k + i - 1 /\ run[i] = k + i /\ k + i - 1 \in Nat /\ k + i \in Nat
        /\ k + i <= total
    OBVIOUS
  <2>2. Counts(total, whole, names, k + i - 1, T!Byte(k + i), k + i)
    BY <2>1 DEF Counts, T!Byte, T!Size
  <2> QED
    BY <2>1, <2>2, UnitKinds, Counted
<1> HIDE DEF run
<1>3. ASSUME NEW i \in 1 .. n
      PROVE  <<run[i - 1], T!BytesOf(k + 1, n)[i], run[i]>> \in Counting(total, whole, names)
  <2>1. T!BytesOf(k + 1, n)[i] = T!Byte(k + i)
    BY BytesAre
  <2> QED
    BY <1>2, <2>1
<1>4. Len(T!BytesOf(k + 1, n)) = n
  BY BytesAre
<1> QED
  BY <1>1, <1>3, <1>4 DEF Path

\* Units that are no bytes leave the count as it is.
LEMMA OthersCount ==
    ASSUME NEW total \in Nat, NEW whole, NEW names, NEW k \in Nat, NEW w \in Seq(Units),
           \A i \in 1 .. Len(w) :
               /\ w[i][1] # "byte"
               /\ w[i] = T!Size(0) => whole /\ k = total
               /\ w[i][1] = "trailer" => w[i][2] \in names
    PROVE  Path(Counting(total, whole, names), Nat, w, k, k)
<1> DEFINE run == [i \in 0 .. Len(w) |-> k]
<1>1. run \in [0 .. Len(w) -> Nat] /\ \A i \in 0 .. Len(w) : run[i] = k
  OBVIOUS
<1> HIDE DEF run
<1>2. ASSUME NEW i \in 1 .. Len(w)
      PROVE  <<run[i - 1], w[i], run[i]>> \in Counting(total, whole, names)
  <2>1. run[i - 1] = k /\ run[i] = k /\ w[i] \in Units
    BY <1>1
  <2>2. Counts(total, whole, names, k, w[i], k)
    BY DEF Counts
  <2> QED
    BY <2>1, <2>2, Counted
<1>3. 0 \in 0 .. Len(w) /\ Len(w) \in 0 .. Len(w)
  OBVIOUS
<1> QED
  BY <1>1, <1>2, <1>3 DEF Path

\* Two sequences of one element.
LEMMA OneAndOne ==
    ASSUME NEW S, NEW a \in S, NEW b \in S
    PROVE  <<a>> \o <<b>> = <<a, b>>
<1>1. <<a>> \in Seq(S) /\ <<b>> \in Seq(S) /\ <<a, b>> \in Seq(S)
  OBVIOUS
<1>2. Len(<<a>>) = 1 /\ Len(<<b>>) = 1 /\ Len(<<a, b>>) = 2
  OBVIOUS
<1>3. <<a>> \o <<b>> \in Seq(S) /\ Len(<<a>> \o <<b>>) = 2
  BY <1>1, <1>2, ConcatProperties
<1>4. (<<a>> \o <<b>>)[1] = a /\ (<<a>> \o <<b>>)[2] = b
  <2>1. /\ 1 \in 1 .. 1 + 1 /\ 1 <= 1 /\ 2 \in 1 .. 1 + 1 /\ ~(2 <= 1) /\ 2 - 1 = 1
    OBVIOUS
  <2>2. <<a>>[1] = a /\ <<b>>[1] = b
    OBVIOUS
  <2> QED
    BY <1>1, <1>2, <2>1, <2>2, ConcatProperties
<1>5. \A i \in 1 .. 2 : (<<a>> \o <<b>>)[i] = <<a, b>>[i]
  <2>1. \A i \in 1 .. 2 : i = 1 \/ i = 2
    OBVIOUS
  <2>2. <<a, b>>[1] = a /\ <<a, b>>[2] = b
    OBVIOUS
  <2> QED
    BY <1>4, <2>1, <2>2
<1> QED
  BY <1>1, <1>2, <1>3, <1>5, SeqEqual

\* A chunk is units.
LEMMA ChunkAre ==
    ASSUME NEW k \in Nat, NEW n \in Nat
    PROVE  /\ T!Chunk(k + 1, n) \in Seq(Units)
           /\ n = 0 => T!Chunk(k + 1, n) = <<>>
           /\ n # 0 => T!Chunk(k + 1, n)
                       = <<T!Size(n), T!Eol>> \o T!BytesOf(k + 1, n) \o <<T!Eol>>
<1>1. <<T!Size(n), T!Eol>> \in Seq(Units) /\ <<T!Eol>> \in Seq(Units) /\ <<>> \in Seq(Units)
  BY UnitKinds
<1>2. T!BytesOf(k + 1, n) \in Seq(Units)
  BY BytesAre
<1>3. <<T!Size(n), T!Eol>> \o T!BytesOf(k + 1, n) \o <<T!Eol>> \in Seq(Units)
  BY <1>1, <1>2
<1> QED
  BY <1>1, <1>3 DEF T!Chunk

\* A chunk counts its bytes.
LEMMA ChunkCounts ==
    ASSUME NEW total \in Nat, NEW whole, NEW names, NEW k \in Nat, NEW n \in Nat, k + n <= total
    PROVE  Path(Counting(total, whole, names), Nat, T!Chunk(k + 1, n), k, k + n)
<1>1. CASE n = 0
  <2>1. T!Chunk(k + 1, n) = <<>>
    BY <1>1, ChunkAre, Zenon
  <2>0. k + n = k
    BY <1>1
  <2> QED
    BY <2>0, <2>1, PathNone
<1>2. CASE n # 0
  <2> DEFINE rel == Counting(total, whole, names)
             front == <<T!Size(n), T!Eol>>
             bytes == T!BytesOf(k + 1, n)
             back == <<T!Eol>>
  <2>1. front \in Seq(Units) /\ back \in Seq(Units) /\ bytes \in Seq(Units)
    BY UnitKinds, BytesAre
  <2>2. /\ Len(front) = 2 /\ front[1] = T!Size(n) /\ front[2] = T!Eol
        /\ Len(back) = 1 /\ back[1] = T!Eol
    OBVIOUS
  <2>3. T!Size(n) # T!Size(0) /\ T!Eol # T!Size(0) /\ T!Size(n)[1] = "size" /\ T!Eol[1] = "eol"
    BY <1>2 DEF T!Size, T!Eol
  <2>4. T!Chunk(k + 1, n) = front \o bytes \o back
    BY <1>2, ChunkAre
  <2>5. Path(rel, Nat, bytes, k, k + n)
    BY BytesCount
  <2> HIDE DEF front, bytes, back
  <2>6. \A i \in 1 .. Len(front) : /\ front[i][1] # "byte" /\ front[i] # T!Size(0)
                                   /\ front[i][1] # "trailer"
    BY <2>2, <2>3
  <2>7. \A i \in 1 .. Len(back) : /\ back[i][1] # "byte" /\ back[i] # T!Size(0)
                                  /\ back[i][1] # "trailer"
    BY <2>2, <2>3
  <2>8. Path(rel, Nat, front, k, k) /\ Path(rel, Nat, back, k + n, k + n)
    BY <2>1, <2>6, <2>7, OthersCount
  <2> HIDE DEF rel
  <2>9. Path(rel, Nat, front \o bytes, k, k + n) /\ front \o bytes \in Seq(Units)
    BY <2>1, <2>5, <2>8, PathJoin
  <2>10. Path(rel, Nat, front \o bytes \o back, k, k + n)
    BY <2>1, <2>8, <2>9, PathJoin
  <2> QED
    BY <2>4, <2>10 DEF rel
<1> QED
  BY <1>1, <1>2

\* A reader of chunks reads a chunk.
LEMMA ChunkReads ==
    ASSUME NEW names, NEW k \in Nat, NEW n \in Nat
    PROVE  Path(Chunking(names), Places, T!Chunk(k + 1, n),
                <<"size", 0, k, {}>>, <<"size", 0, k + n, {}>>)
<1> DEFINE at(where, left, had) == <<where, left, had, {}>>
<1>0. \A left \in Nat, had \in Nat :
         /\ at("size", left, had) \in Places /\ at("sized", left, had) \in Places
         /\ at("data", left, had) \in Places
  BY DEF Places
<1>1. CASE n = 0
  <2>1. T!Chunk(k + 1, n) = <<>>
    BY <1>1, ChunkAre, Zenon
  <2>0. k + n = k
    BY <1>1
  <2>2. at("size", 0, k) \in Places
    BY <1>0
  <2> QED
    BY <2>0, <2>1, <2>2, PathNone
<1>2. CASE n # 0
  <2> DEFINE rel == Chunking(names)
             bytes == T!BytesOf(k + 1, n)
             run == [i \in 0 .. n |-> at("data", n - i, k + i)]
  <2>1. Path(rel, Places, <<T!Size(n)>>, at("size", 0, k), at("sized", n, k))
    <3>1. Chunks(names, at("size", 0, k), T!Size(n), at("sized", n, k))
      BY <1>2 DEF Chunks, T!Size
    <3>2. <<at("size", 0, k), T!Size(n), at("sized", n, k)>> \in rel
      BY <1>0, <3>1, UnitKinds, Chunked
    <3> QED
      BY <1>0, <3>2, PathOne
  <2>2. Path(rel, Places, <<T!Eol>>, at("sized", n, k), at("data", n, k))
    <3>1. Chunks(names, at("sized", n, k), T!Eol, at("data", n, k))
      BY DEF Chunks
    <3>2. <<at("sized", n, k), T!Eol, at("data", n, k)>> \in rel
      BY <1>0, <3>1, UnitKinds, Chunked
    <3> QED
      BY <1>0, <3>2, PathOne
  <2>3. Path(rel, Places, bytes, at("data", n, k), at("data", 0, k + n))
    <3>1. /\ run \in [0 .. n -> Places]
          /\ run[0] = at("data", n, k) /\ run[n] = at("data", 0, k + n)
      <4>1. ASSUME NEW i \in 0 .. n PROVE n - i \in Nat /\ k + i \in Nat
        OBVIOUS
      <4>2. \A i \in 0 .. n : at("data", n - i, k + i) \in Places
        BY <1>0, <4>1
      <4>3. 0 \in 0 .. n /\ n \in 0 .. n /\ n - 0 = n /\ k + 0 = k /\ n - n = 0
        OBVIOUS
      <4> HIDE DEF at
      <4> QED
        BY <4>2, <4>3
    <3>2. ASSUME NEW i \in 1 .. n
          PROVE  <<run[i - 1], T!Byte(k + i), run[i]>> \in rel
      <4>1. /\ i - 1 \in 0 .. n /\ i \in 0 .. n
            /\ n - (i - 1) \in Nat /\ k + (i - 1) \in Nat /\ n - i \in Nat /\ k + i \in Nat
            /\ n - (i - 1) > 0 /\ n - (i - 1) - 1 = n - i /\ k + (i - 1) + 1 = k + i
        OBVIOUS
      <4>2. run[i - 1] = at("data", n - (i - 1), k + (i - 1)) /\ run[i] = at("data", n - i, k + i)
        BY <4>1
      <4>3. Chunks(names, at("data", n - (i - 1), k + (i - 1)), T!Byte(k + i), at("data", n - i, k + i))
        BY <4>1 DEF Chunks
      <4> HIDE DEF at, run
      <4> QED
        BY <1>0, <4>1, <4>2, <4>3, UnitKinds, Chunked
    <3> HIDE DEF run, at
    <3> QED
      BY <3>1, <3>2, BytesAre DEF Path
  <2>4. Path(rel, Places, <<T!Eol>>, at("data", 0, k + n), at("size", 0, k + n))
    <3>1. Chunks(names, at("data", 0, k + n), T!Eol, at("size", 0, k + n))
      BY DEF Chunks
    <3>2. at("data", 0, k + n) \in Places /\ at("size", 0, k + n) \in Places
      <4>1. 0 \in Nat /\ k + n \in Nat
        OBVIOUS
      <4> HIDE DEF at
      <4> QED
        BY <1>0, <4>1
    <3> HIDE DEF at
    <3>3. <<at("data", 0, k + n), T!Eol, at("size", 0, k + n)>> \in rel
      BY <3>1, <3>2, UnitKinds, Chunked
    <3> QED
      BY <3>2, <3>3, PathOne
  <2>5. /\ <<T!Size(n)>> \in Seq(Units) /\ <<T!Eol>> \in Seq(Units) /\ bytes \in Seq(Units)
        /\ <<T!Size(n)>> \o <<T!Eol>> = <<T!Size(n), T!Eol>>
    <3>1. <<T!Size(n)>> \in Seq(Units) /\ <<T!Eol>> \in Seq(Units)
      BY UnitKinds
    <3>2. bytes \in Seq(Units)
      BY BytesAre
    <3>3. <<T!Size(n)>> \o <<T!Eol>> = <<T!Size(n), T!Eol>>
      BY UnitKinds, OneAndOne
    <3> QED
      BY <3>1, <3>2, <3>3
  <2>6. <<T!Size(n), T!Eol>> \in Seq(Units) /\ <<T!Size(n), T!Eol>> \o bytes \in Seq(Units)
    BY <2>5, UnitKinds
  <2>7. T!Chunk(k + 1, n) = <<T!Size(n), T!Eol>> \o bytes \o <<T!Eol>>
    BY <1>2, ChunkAre
  <2> HIDE DEF rel, at, bytes
  <2>8. Path(rel, Places, <<T!Size(n), T!Eol>>, at("size", 0, k), at("data", n, k))
    BY <2>1, <2>2, <2>5, PathJoin
  <2>9. Path(rel, Places, <<T!Size(n), T!Eol>> \o bytes, at("size", 0, k), at("data", 0, k + n))
    BY <2>3, <2>5, <2>6, <2>8, PathJoin
  <2>10. Path(rel, Places, <<T!Size(n), T!Eol>> \o bytes \o <<T!Eol>>,
              at("size", 0, k), at("size", 0, k + n))
    BY <2>4, <2>5, <2>6, <2>9, PathJoin
  <2> QED
    BY <2>7, <2>10 DEF rel, at
<1> QED
  BY <1>1, <1>2

\* The instance's sets are finite, and counted, as ours.
LEMMA SameFinite == \A S : T!IsFiniteSet(S) <=> IsFiniteSet(S)
BY DEF T!IsFiniteSet, IsFiniteSet

LEMMA SameCardinality == \A S : T!Cardinality(S) = Cardinality(S)
BY DEF T!Cardinality, Cardinality

\* The trailers of a message: a sequence without repetition.
LEMMA TrailersAre ==
    ASSUME IsFiniteSet(Trailers), NEW ts \in T!SetToAllKPermutations(Trailers)
    PROVE  /\ ts \in Seq(Trailers)
           /\ \A i \in 1 .. Len(ts), j \in 1 .. Len(ts) : i # j => ts[i] # ts[j]
           /\ T!ToSet(ts) = {ts[i] : i \in 1 .. Len(ts)}
           /\ T!ToSet(ts) \subseteq Trailers
<1>1. PICK S \in SUBSET Trailers : ts \in T!SetToSeqs(S)
  BY DEF T!SetToAllKPermutations
<1>2. Cardinality(S) \in Nat
  BY FS_Subset, FS_CardinalityType
<1> DEFINE n == Cardinality(S)
<1>3. ts \in [1 .. n -> S] /\ \A i \in 1 .. n, j \in 1 .. n : i # j => ts[i] # ts[j]
  BY <1>1, SameCardinality DEF T!SetToSeqs
<1> HIDE DEF n
<1>4. n \in Nat
  BY <1>2 DEF n
<1>5. ts \in Seq(Trailers) /\ Len(ts) = n /\ DOMAIN ts = 1 .. n
  BY <1>3, <1>4
<1>6. T!ToSet(ts) = {ts[i] : i \in 1 .. Len(ts)}
  BY <1>5 DEF T!ToSet
<1> QED
  BY <1>3, <1>5, <1>6

\* A line for each of them.
LEMMA LinesAre ==
    ASSUME NEW ts \in Seq(Trailers)
    PROVE  /\ T!TrailerLines(ts) \in Seq(Units) /\ Len(T!TrailerLines(ts)) = 2 * Len(ts)
           /\ \A j \in 1 .. 2 * Len(ts) :
                 \/ \E m \in 0 .. Len(ts) - 1 :
                       j = 2 * m + 1 /\ T!TrailerLines(ts)[j] = T!Trailer(ts[m + 1])
                 \/ \E m \in 0 .. Len(ts) - 1 : j = 2 * m + 2 /\ T!TrailerLines(ts)[j] = T!Eol
<1> DEFINE n == Len(ts)
           w == T!TrailerLines(ts)
<1>1. n \in Nat /\ \A i \in 1 .. n : ts[i] \in Trailers
  OBVIOUS
<1> HIDE DEF n
<1>2. w = [j \in 1 .. 2 * n |-> IF j % 2 = 1 THEN T!Trailer(ts[(j + 1) \div 2]) ELSE T!Eol]
  BY DEF T!TrailerLines, n
<1>3. ASSUME NEW j \in 1 .. 2 * n
      PROVE  /\ w[j] \in Units
             /\ \/ \E m \in 0 .. n - 1 : j = 2 * m + 1 /\ w[j] = T!Trailer(ts[m + 1])
                \/ \E m \in 0 .. n - 1 : j = 2 * m + 2 /\ w[j] = T!Eol
  <2>1. CASE j % 2 = 1
    <3>1. PICK m \in 0 .. n - 1 : j = 2 * m + 1
      <4>1. j = 2 * ((j - 1) \div 2) + 1 /\ (j - 1) \div 2 \in 0 .. n - 1
        BY <1>1, <2>1
      <4> QED
        BY <4>1
    <3>2. (j + 1) \div 2 = m + 1 /\ m + 1 \in 1 .. n
      BY <1>1, <3>1
    <3>3. w[j] = T!Trailer(ts[m + 1])
      BY <1>2, <2>1, <3>2
    <3>4. w[j] \in Units
      BY <1>1, <3>2, <3>3, UnitKinds
    <3> QED
      BY <3>1, <3>3, <3>4
  <2>2. CASE j % 2 # 1
    <3>1. PICK m \in 0 .. n - 1 : j = 2 * m + 2
      <4>1. j = 2 * ((j - 2) \div 2) + 2 /\ (j - 2) \div 2 \in 0 .. n - 1
        BY <1>1, <2>2
      <4> QED
        BY <4>1
    <3>2. w[j] = T!Eol
      BY <1>2, <2>2
    <3> QED
      BY <3>1, <3>2, UnitKinds
  <2> QED
    BY <2>1, <2>2
<1>4. w \in [1 .. 2 * n -> Units]
  BY <1>2, <1>3
<1>5. w \in Seq(Units) /\ Len(w) = 2 * n
  <2>1. 2 * n \in Nat
    BY <1>1
  <2> HIDE DEF w
  <2> QED
    BY <1>4, <2>1
<1> QED
  BY <1>3, <1>5 DEF n

\* The end of a message in chunks: an empty chunk, its trailers, ends of lines.
LEMMA EndAre ==
    ASSUME NEW ts \in Seq(Trailers)
    PROVE  /\ T!EndOf(ts) \in Seq(Units)
           /\ T!EndOf(ts) = <<T!Size(0), T!Eol>> \o T!TrailerLines(ts) \o <<T!Eol>>
           /\ \A i \in 1 .. Len(T!EndOf(ts)) :
                 T!EndOf(ts)[i] \in {T!Size(0), T!Eol} \cup {T!Trailer(ts[j]) : j \in 1 .. Len(ts)}
<1> DEFINE F0 == <<T!Size(0), T!Eol>>
           lines == T!TrailerLines(ts)
           B0 == <<T!Eol>>
           All == {T!Size(0), T!Eol} \cup {T!Trailer(ts[j]) : j \in 1 .. Len(ts)}
<1>1. Len(ts) \in Nat /\ \A i \in 1 .. Len(ts) : ts[i] \in Trailers
  OBVIOUS
<1>2. All \subseteq Units
  BY <1>1, UnitKinds
<1>3. F0 \in Seq(All) /\ B0 \in Seq(All)
  OBVIOUS
<1>4. lines \in Seq(All)
  <2>1. ASSUME NEW j \in 1 .. 2 * Len(ts) PROVE lines[j] \in All
    <3>1. CASE \E m \in 0 .. Len(ts) - 1 :
                  j = 2 * m + 1 /\ T!TrailerLines(ts)[j] = T!Trailer(ts[m + 1])
      <4>1. PICK m \in 0 .. Len(ts) - 1 : lines[j] = T!Trailer(ts[m + 1])
        BY <3>1
      <4>2. m + 1 \in 1 .. Len(ts)
        BY <1>1
      <4> QED
        BY <4>1, <4>2
    <3>2. CASE \E m \in 0 .. Len(ts) - 1 : j = 2 * m + 2 /\ T!TrailerLines(ts)[j] = T!Eol
      BY <3>2
    <3> QED
      BY <3>1, <3>2, LinesAre
  <2>2. lines \in Seq(Units) /\ Len(lines) = 2 * Len(ts)
    BY LinesAre
  <2> HIDE DEF lines, All
  <2> QED
    BY <2>1, <2>2
<1> HIDE DEF F0, lines, B0, All
<1>5. T!EndOf(ts) = F0 \o lines \o B0
  BY DEF T!EndOf, F0, lines, B0
<1>6. T!EndOf(ts) \in Seq(All)
  BY <1>3, <1>4, <1>5
<1>7. \A i \in 1 .. Len(T!EndOf(ts)) : T!EndOf(ts)[i] \in All
  BY <1>6
<1>8. T!EndOf(ts) \in Seq(Units)
  BY <1>2, <1>6, SeqMonotonic
<1> QED
  BY <1>5, <1>7, <1>8 DEF F0, lines, B0, All

\* A reader of chunks reads the trailers.
LEMMA LinesRead ==
    ASSUME NEW ts \in Seq(Trailers), NEW k \in Nat, NEW names,
           \A i \in 1 .. Len(ts), j \in 1 .. Len(ts) : i # j => ts[i] # ts[j],
           names = {ts[i] : i \in 1 .. Len(ts)}
    PROVE  Path(Chunking(names), Places, T!TrailerLines(ts),
                <<"trailers", 0, k, {}>>, <<"trailers", 0, k, names>>)
<1> DEFINE n == Len(ts)
           first(m) == {ts[i] : i \in 1 .. m}
           at(where, m) == <<where, 0, k, first(m)>>
           run == [j \in 0 .. 2 * n |-> IF j % 2 = 0 THEN at("trailers", j \div 2)
                                        ELSE at("trailer", (j + 1) \div 2)]
<1>1. n \in Nat /\ \A i \in 1 .. n : ts[i] \in Trailers
  OBVIOUS
<1>2. ASSUME NEW m \in 0 .. n PROVE first(m) \subseteq Trailers
  <2>1. \A i \in 1 .. m : i \in 1 .. n
    BY <1>1
  <2> QED
    BY <1>1, <2>1
<1>3. ASSUME NEW m \in 0 .. n - 1
      PROVE  /\ m + 1 \in 1 .. n /\ m \in 0 .. n /\ m + 1 \in 0 .. n
             /\ first(m + 1) = first(m) \cup {ts[m + 1]} /\ ts[m + 1] \in names \ first(m)
  <2>1. m + 1 \in 1 .. n /\ m \in 0 .. n /\ m + 1 \in 0 .. n
    BY <1>1
  <2>2. \A i : i \in 1 .. m + 1 <=> i \in 1 .. m \/ i = m + 1
    OBVIOUS
  <2>3. first(m + 1) = first(m) \cup {ts[m + 1]}
    BY <2>2
  <2>4. \A i \in 1 .. m : i \in 1 .. n /\ i # m + 1
    BY <1>1
  <2>5. ts[m + 1] \in names /\ ts[m + 1] \notin first(m)
    BY <2>1, <2>4
  <2> QED
    BY <2>1, <2>3, <2>5
<1>4. \A m \in 0 .. n : at("trailers", m) \in Places /\ at("trailer", m) \in Places
  BY <1>2 DEF Places
<1>5. first(0) = {} /\ first(n) = names
  OBVIOUS
<1> HIDE DEF first
<1>6. ASSUME NEW m \in 0 .. n - 1
      PROVE  /\ <<at("trailers", m), T!Trailer(ts[m + 1]), at("trailer", m + 1)>> \in Chunking(names)
             /\ <<at("trailer", m + 1), T!Eol, at("trailers", m + 1)>> \in Chunking(names)
  <2>1. Chunks(names, at("trailers", m), T!Trailer(ts[m + 1]), at("trailer", m + 1))
    BY <1>3 DEF Chunks, T!Trailer
  <2>2. Chunks(names, at("trailer", m + 1), T!Eol, at("trailers", m + 1))
    BY DEF Chunks
  <2>3. T!Trailer(ts[m + 1]) \in Units /\ T!Eol \in Units
    BY <1>1, <1>3, UnitKinds
  <2>4. /\ at("trailers", m) \in Places /\ at("trailer", m + 1) \in Places
        /\ at("trailers", m + 1) \in Places
    BY <1>3, <1>4
  <2> HIDE DEF at
  <2> QED
    BY <2>1, <2>2, <2>3, <2>4, Chunked
<1>7. /\ \A m \in 0 .. n : run[2 * m] = at("trailers", m)
      /\ \A m \in 0 .. n - 1 : run[2 * m + 1] = at("trailer", m + 1)
  <2> HIDE DEF at
  <2>1. ASSUME NEW m \in 0 .. n PROVE run[2 * m] = at("trailers", m)
    <3>1. 2 * m \in 0 .. 2 * n /\ (2 * m) % 2 = 0 /\ (2 * m) \div 2 = m
      BY <1>1
    <3> QED
      BY <3>1
  <2>2. ASSUME NEW m \in 0 .. n - 1 PROVE run[2 * m + 1] = at("trailer", m + 1)
    <3>1. /\ 2 * m + 1 \in 0 .. 2 * n /\ (2 * m + 1) % 2 # 0
          /\ (2 * m + 1 + 1) \div 2 = m + 1
      BY <1>1
    <3> QED
      BY <3>1
  <2> QED
    BY <2>1, <2>2
<1>8. run \in [0 .. 2 * n -> Places]
  <2>1. ASSUME NEW j \in 0 .. 2 * n
        PROVE  (IF j % 2 = 0 THEN at("trailers", j \div 2) ELSE at("trailer", (j + 1) \div 2)) \in Places
    <3>1. j % 2 = 0 => j \div 2 \in 0 .. n
      BY <1>1
    <3>2. j % 2 # 0 => (j + 1) \div 2 \in 0 .. n
      BY <1>1
    <3> HIDE DEF at
    <3> QED
      BY <1>4, <3>1, <3>2
  <2> HIDE DEF at
  <2> QED
    BY <2>1
<1> HIDE DEF run, at
<1>9. run[0] = at("trailers", 0) /\ run[2 * n] = at("trailers", n)
  <2>1. 0 \in 0 .. n /\ n \in 0 .. n /\ 2 * 0 = 0
    BY <1>1
  <2> QED
    BY <1>7, <2>1
<1>10. ASSUME NEW j \in 1 .. 2 * n
       PROVE  <<run[j - 1], T!TrailerLines(ts)[j], run[j]>> \in Chunking(names)
  <2>1. CASE \E m \in 0 .. n - 1 : j = 2 * m + 1 /\ T!TrailerLines(ts)[j] = T!Trailer(ts[m + 1])
    <3>1. PICK m \in 0 .. n - 1 : j = 2 * m + 1 /\ T!TrailerLines(ts)[j] = T!Trailer(ts[m + 1])
      BY <2>1
    <3>2. j - 1 = 2 * m /\ m \in 0 .. n
      BY <1>1, <3>1
    <3> QED
      BY <1>6, <1>7, <3>1, <3>2
  <2>2. CASE \E m \in 0 .. n - 1 : j = 2 * m + 2 /\ T!TrailerLines(ts)[j] = T!Eol
    <3>1. PICK m \in 0 .. n - 1 : j = 2 * m + 2 /\ T!TrailerLines(ts)[j] = T!Eol
      BY <2>2
    <3>2. j - 1 = 2 * m + 1 /\ j = 2 * (m + 1) /\ m + 1 \in 0 .. n
      BY <1>1, <3>1
    <3>3. run[j - 1] = at("trailer", m + 1) /\ run[j] = at("trailers", m + 1)
      BY <1>7, <3>2
    <3> QED
      BY <1>6, <3>1, <3>3
  <2> QED
    BY <2>1, <2>2, LinesAre DEF n
<1>11. Len(T!TrailerLines(ts)) = 2 * n
  BY LinesAre DEF n
<1>12. Path(Chunking(names), Places, T!TrailerLines(ts), at("trailers", 0), at("trailers", n))
  BY <1>8, <1>9, <1>10, <1>11 DEF Path
<1> QED
  BY <1>5, <1>12 DEF at

\* And the whole end.
LEMMA EndReads ==
    ASSUME NEW ts \in Seq(Trailers), NEW k \in Nat, NEW names,
           \A i \in 1 .. Len(ts), j \in 1 .. Len(ts) : i # j => ts[i] # ts[j],
           names = {ts[i] : i \in 1 .. Len(ts)}
    PROVE  Path(Chunking(names), Places, T!EndOf(ts),
                <<"size", 0, k, {}>>, <<"end", 0, k, names>>)
<1> DEFINE rel == Chunking(names)
           lines == T!TrailerLines(ts)
           at(where, had) == <<where, 0, k, had>>
<1>1. \A i \in 1 .. Len(ts) : ts[i] \in Trailers
  OBVIOUS
<1>2. names \subseteq Trailers
  BY <1>1
<1>3. /\ at("size", {}) \in Places /\ at("last", {}) \in Places /\ at("trailers", {}) \in Places
      /\ at("trailers", names) \in Places /\ at("end", names) \in Places
  BY <1>2 DEF Places
<1>4. /\ Chunks(names, at("size", {}), T!Size(0), at("last", {}))
      /\ Chunks(names, at("last", {}), T!Eol, at("trailers", {}))
      /\ Chunks(names, at("trailers", names), T!Eol, at("end", names))
  BY DEF Chunks
<1> HIDE DEF at
<1>5. /\ <<at("size", {}), T!Size(0), at("last", {})>> \in rel
      /\ <<at("last", {}), T!Eol, at("trailers", {})>> \in rel
      /\ <<at("trailers", names), T!Eol, at("end", names)>> \in rel
  BY <1>3, <1>4, UnitKinds, Chunked
<1>6. Path(rel, Places, lines, at("trailers", {}), at("trailers", names))
  BY LinesRead DEF at
<1> HIDE DEF rel
<1>7. /\ Path(rel, Places, <<T!Size(0)>>, at("size", {}), at("last", {}))
      /\ Path(rel, Places, <<T!Eol>>, at("last", {}), at("trailers", {}))
      /\ Path(rel, Places, <<T!Eol>>, at("trailers", names), at("end", names))
  BY <1>3, <1>5, PathOne
<1>8. /\ <<T!Size(0)>> \in Seq(Units) /\ <<T!Eol>> \in Seq(Units) /\ lines \in Seq(Units)
      /\ <<T!Size(0)>> \o <<T!Eol>> = <<T!Size(0), T!Eol>>
      /\ <<T!Size(0), T!Eol>> \in Seq(Units)
  <2>1. /\ <<T!Size(0)>> \in Seq(Units) /\ <<T!Eol>> \in Seq(Units)
        /\ <<T!Size(0), T!Eol>> \in Seq(Units)
    BY UnitKinds
  <2>2. lines \in Seq(Units)
    BY LinesAre
  <2>3. <<T!Size(0)>> \o <<T!Eol>> = <<T!Size(0), T!Eol>>
    BY UnitKinds, OneAndOne
  <2> QED
    BY <2>1, <2>2, <2>3
<1> HIDE DEF lines
<1>9. Path(rel, Places, <<T!Size(0), T!Eol>>, at("size", {}), at("trailers", {}))
  BY <1>7, <1>8, PathJoin
<1>10. /\ Path(rel, Places, <<T!Size(0), T!Eol>> \o lines, at("size", {}), at("trailers", names))
       /\ <<T!Size(0), T!Eol>> \o lines \in Seq(Units)
  <2>1. Path(rel, Places, <<T!Size(0), T!Eol>> \o lines, at("size", {}), at("trailers", names))
    BY <1>6, <1>8, <1>9, PathJoin
  <2>2. <<T!Size(0), T!Eol>> \o lines \in Seq(Units)
    BY <1>8
  <2> QED
    BY <2>1, <2>2
<1>11. Path(rel, Places, <<T!Size(0), T!Eol>> \o lines \o <<T!Eol>>,
            at("size", {}), at("end", names))
  BY <1>7, <1>8, <1>10, PathJoin
<1> QED
  BY <1>11, EndAre DEF rel, at, lines

-----------------------------------------------------------------------------
(* The writer                                                               *)

\* What the reader and the limits are is not the writer's.
ReaderStays ==
    /\ framing' = framing /\ length' = length /\ limit' = limit
    /\ reader' = reader /\ remaining' = remaining /\ got' = got /\ trailers' = trailers
    /\ verdict' = verdict

\* While it writes, nothing failed unless the reader is through.
LEMMA Writing ==
    ASSUME TransferInv, writer = "writing"
    PROVE  /\ provided \in Nat /\ held \in 0 .. provided /\ provided - held \in Nat
           /\ provided - held + held = provided
           /\ wire \in Seq(Units) /\ finished = FALSE /\ sent = {}
           /\ verdict = "reading" => stopped = {}
           /\ framing # "chunked" => held = 0
           /\ framing = "length" => provided <= length
<1>1. TransferTypes /\ WriterPlace
  BY DEF TransferInv
<1> QED
  BY <1>1 DEF TransferTypes, WriterPlace

\* A step of the writer keeps the invariant when what it puts on the wire is a
\* path from where it was to where it is.
LEMMA WriterStep ==
    ASSUME ContentAssumption, TransferInv, ReaderStays, writer = "writing",
           writer' \in {"writing", "ok", "failed"}, eof' \in {"no", "eof", "error"},
           provided' \in Nat, provided <= provided', held' \in 0 .. provided',
           finished' \in BOOLEAN, sent' \subseteq Trailers, stopped \subseteq stopped',
           WriterPlace',
           NEW units \in Seq(Units), wire' = wire \o units,
           \E k \in Nat :
               /\ Path(Counting(provided', finished', sent'), Nat, units, provided - held, k)
               /\ stopped' = {} => k = provided' - held',
           framing = "chunked" /\ stopped' = {} =>
               Path(Chunking(sent'), Places, units, <<"size", 0, provided - held, {}>>,
                    IF finished' THEN <<"end", 0, provided', sent'>>
                    ELSE <<"size", 0, provided' - held', {}>>)
    PROVE  TransferInv'
<1>1. TransferTypes /\ WriterPlace /\ ReaderPlace /\ VerdictPlace /\ BytesFollow /\ ChunksFollow
  BY DEF TransferInv
<1>2. /\ provided \in Nat /\ wire \in Seq(Units) /\ finished = FALSE /\ sent = {}
      /\ verdict = "reading" => stopped = {}
  BY Writing
<1>3. TransferTypes'
  <2>1. wire' \in Seq(Units)
    BY <1>2, JoinTwo
  <2>2. trailers' \subseteq sent' \cap Allowed
    BY <1>1, <1>2 DEF TransferTypes, ReaderStays
  <2> QED
    BY <1>1, <2>1, <2>2 DEF TransferTypes, ReaderStays
<1>4. ReaderPlace'
  BY <1>1, <1>2 DEF ReaderPlace, ReaderStays
<1>5. VerdictPlace'
  <2>1. verdict = "tooLarge" => provided' > limit
    BY <1>1, <1>2 DEF VerdictPlace, TransferTypes
  <2>2. verdict = "ok" => framing # "chunked"
    BY <1>1, <1>2 DEF VerdictPlace
  <2>3. verdict = "error" => stopped' # {}
    <3>1. Cardinality({}) = 0 /\ ~(0 > MaxTrailers)
      BY FS_EmptySet DEF ContentAssumption, T!TransferAssumption
    <3> QED
      BY <1>1, <1>2, <3>1 DEF VerdictPlace
  <2> QED
    BY <1>1, <2>1, <2>2, <2>3 DEF VerdictPlace, ReaderStays
<1>6. BytesFollow'
  <2> SUFFICES ASSUME verdict = "reading"
               PROVE  \E k \in Nat :
                         /\ Path(Counting(provided', finished', sent'), Nat, wire', Len(got), k)
                         /\ stopped' = {} => k = provided' - held'
    BY DEF BytesFollow, ReaderStays
  <2>1. Path(Counting(provided, FALSE, {}), Nat, wire, Len(got), provided - held)
    BY <1>1, <1>2 DEF BytesFollow
  <2>2. Path(Counting(provided', finished', sent'), Nat, wire, Len(got), provided - held)
    BY <1>2, <2>1, CountingWider, PathWider
  <2>3. PICK k \in Nat :
           /\ Path(Counting(provided', finished', sent'), Nat, units, provided - held, k)
           /\ stopped' = {} => k = provided' - held'
    OBVIOUS
  <2>4. Path(Counting(provided', finished', sent'), Nat, wire', Len(got), k)
    BY <1>2, <2>2, <2>3, PathJoin
  <2> QED
    BY <2>3, <2>4
<1>7. ChunksFollow'
  <2> SUFFICES ASSUME verdict = "reading", stopped' = {}, framing = "chunked"
               PROVE  \E had \in SUBSET Trailers :
                         /\ trailers = had \cap Allowed
                         /\ Path(Chunking(sent'), Places, wire', <<reader, remaining, Len(got), had>>,
                                 IF finished' THEN <<"end", 0, provided', sent'>>
                                 ELSE <<"size", 0, provided' - held', {}>>)
    BY DEF ChunksFollow, ReaderStays, Allowed
  <2>1. PICK had \in SUBSET Trailers :
           /\ trailers = had \cap Allowed
           /\ Path(Chunking({}), Places, wire, <<reader, remaining, Len(got), had>>,
                   <<"size", 0, provided - held, {}>>)
    BY <1>1, <1>2 DEF ChunksFollow
  <2>2. Path(Chunking(sent'), Places, wire, <<reader, remaining, Len(got), had>>,
             <<"size", 0, provided - held, {}>>)
    BY <2>1, ChunkingWider, PathWider
  <2>3. Path(Chunking(sent'), Places, wire', <<reader, remaining, Len(got), had>>,
             IF finished' THEN <<"end", 0, provided', sent'>>
             ELSE <<"size", 0, provided' - held', {}>>)
    BY <1>2, <2>2, PathJoin
  <2> QED
    BY <2>1, <2>3
<1> QED
  BY <1>3, <1>4, <1>5, <1>6, <1>7 DEF TransferInv, WriterPlace

\* The same when it has put nothing there.
LEMMA WriterIdle ==
    ASSUME ContentAssumption, TransferInv, ReaderStays, writer = "writing",
           writer' \in {"writing", "ok", "failed"}, eof' \in {"no", "eof", "error"},
           provided' = provided, held' = held, finished' \in BOOLEAN, sent' = sent,
           stopped \subseteq stopped', WriterPlace', wire' = wire,
           framing = "chunked" => finished' = finished
    PROVE  TransferInv'
<1>1. /\ provided \in Nat /\ held \in 0 .. provided /\ provided - held \in Nat
      /\ wire \in Seq(Units) /\ finished = FALSE /\ sent = {}
  BY Writing
<1>2. <<>> \in Seq(Units) /\ wire' = wire \o <<>>
  BY <1>1
<1>3. Path(Counting(provided', finished', sent'), Nat, <<>>, provided - held, provided - held)
  BY <1>1, PathNone
<1>4. <<"size", 0, provided - held, {}>> \in Places
  BY <1>1 DEF Places
<1>5. Path(Chunking(sent'), Places, <<>>, <<"size", 0, provided - held, {}>>,
           <<"size", 0, provided - held, {}>>)
  BY <1>4, PathNone
<1>6. \E k \in Nat :
          /\ Path(Counting(provided', finished', sent'), Nat, <<>>, provided - held, k)
          /\ stopped' = {} => k = provided' - held'
  BY <1>1, <1>3
<1>7. framing = "chunked" /\ stopped' = {} =>
          Path(Chunking(sent'), Places, <<>>, <<"size", 0, provided - held, {}>>,
               IF finished' THEN <<"end", 0, provided', sent'>>
               ELSE <<"size", 0, provided' - held', {}>>)
  BY <1>1, <1>5
<1>8. provided' \in Nat /\ provided <= provided' /\ held' \in 0 .. provided' /\ sent' \subseteq Trailers
  BY <1>1
<1> QED
  BY <1>2, <1>6, <1>7, <1>8, WriterStep

\* The same for write_data, that writes all of it or only a beginning.
LEMMA WriteDataStep ==
    ASSUME ContentAssumption, TransferInv, ReaderStays, writer = "writing",
           finished' = finished, sent' = sent,
           provided' \in Nat, provided <= provided', held' \in 0 .. provided',
           framing # "chunked" => held' = 0, framing = "length" => provided' <= length,
           NEW units \in Seq(Units), T!WriteData(units),
           Path(Counting(provided', FALSE, {}), Nat, units, provided - held, provided' - held'),
           framing = "chunked" =>
               Path(Chunking({}), Places, units, <<"size", 0, provided - held, {}>>,
                    <<"size", 0, provided' - held', {}>>)
    PROVE  TransferInv'
<1>1. finished = FALSE /\ sent = {} /\ (verdict = "reading" => stopped = {})
  BY Writing
<1>2. TransferTypes /\ WriterPlace
  BY DEF TransferInv
<1>3. provided' - held' \in Nat
  <2>1. \A p \in Nat : \A h \in 0 .. p : p - h \in Nat
    OBVIOUS
  <2> QED
    BY <2>1, Zenon
<1>4. CASE wire' = wire \o units /\ UNCHANGED <<writer, eof, stopped>>
  <2>1. WriterPlace'
    BY <1>1, <1>2, <1>4 DEF WriterPlace, ReaderStays
  <2>2. writer' \in {"writing", "ok", "failed"} /\ eof' \in {"no", "eof", "error"}
    BY <1>2, <1>4 DEF TransferTypes
  <2>3. \E k \in Nat :
            /\ Path(Counting(provided', finished', sent'), Nat, units, provided - held, k)
            /\ stopped' = {} => k = provided' - held'
    BY <1>1, <1>3
  <2>4. framing = "chunked" /\ stopped' = {} =>
            Path(Chunking(sent'), Places, units, <<"size", 0, provided - held, {}>>,
                 IF finished' THEN <<"end", 0, provided', sent'>>
                 ELSE <<"size", 0, provided' - held', {}>>)
    BY <1>1
  <2>5. stopped \subseteq stopped' /\ finished' \in BOOLEAN /\ sent' \subseteq Trailers
    BY <1>1, <1>4
  <2> QED
    BY <1>4, <2>1, <2>2, <2>3, <2>4, <2>5, WriterStep
<1>5. CASE /\ \E n \in 0 .. Len(units) : n < Len(units) /\ wire' = wire \o SubSeq(units, 1, n)
           /\ T!Fails("write")
  <2>1. PICK n \in 0 .. Len(units) : wire' = wire \o SubSeq(units, 1, n)
    BY <1>5
  <2>2. writer' = "failed" /\ eof' = "eof" /\ stopped' = stopped \cup {"write"}
    BY <1>5 DEF T!Fails
  <2>3. WriterPlace'
    BY <1>1, <1>2, <2>2 DEF WriterPlace, ReaderStays
  <2>4. SubSeq(units, 1, n) \in Seq(Units)
    BY CutInTwo
  <2>5. \E k \in Nat : Path(Counting(provided', FALSE, {}), Nat, SubSeq(units, 1, n), provided - held, k)
    BY PathCut
  <2>6. \E k \in Nat :
            /\ Path(Counting(provided', finished', sent'), Nat, SubSeq(units, 1, n), provided - held, k)
            /\ stopped' = {} => k = provided' - held'
    BY <1>1, <2>2, <2>5
  <2>7. stopped \subseteq stopped' /\ stopped' # {} /\ finished' \in BOOLEAN /\ sent' \subseteq Trailers
    BY <1>1, <2>2
  <2> HIDE DEF WriterPlace, ReaderStays
  <2> QED
    BY <2>1, <2>2, <2>3, <2>4, <2>6, <2>7, WriterStep
<1> QED
  BY <1>4, <1>5 DEF T!WriteData

\* Bytes as they are: the body has a length, or ends with the connection.
LEMMA PlainKeeps ==
    ASSUME ContentAssumption, TransferInv, T!WriteWithLength \/ T!WriteWithoutLength
    PROVE  TransferInv'
<1>1. /\ writer = "writing" /\ framing \in {"length", "close"}
      /\ UNCHANGED <<framing, length, limit, reader, remaining, got, trailers, verdict>>
      /\ held' = held /\ finished' = finished /\ sent' = sent
  BY DEF T!WriteWithLength, T!WriteWithoutLength, T!about, T!rvars
<1>2. PICK n \in T!Pieces : /\ provided' = provided + n /\ T!WriteData(T!BytesOf(provided + 1, n))
                            /\ framing = "length" => provided + n <= length
  BY DEF T!WriteWithLength, T!WriteWithoutLength
<1>3. /\ provided \in Nat /\ held = 0 /\ provided - held = provided
  BY <1>1, Writing
<1>4. n \in Nat
  BY DEF T!Pieces
<1>5. /\ provided' \in Nat /\ provided <= provided' /\ held' \in 0 .. provided' /\ held' = 0
      /\ provided' - held' = provided + n
  BY <1>1, <1>2, <1>3, <1>4
<1>6. T!BytesOf(provided + 1, n) \in Seq(Units)
  BY <1>3, <1>4, BytesAre
<1>7. Path(Counting(provided', FALSE, {}), Nat, T!BytesOf(provided + 1, n),
           provided - held, provided' - held')
  <2>1. provided + n <= provided'
    BY <1>2, <1>3, <1>4
  <2>2. Path(Counting(provided', FALSE, {}), Nat, T!BytesOf(provided + 1, n), provided, provided + n)
    BY <1>3, <1>4, <1>5, <2>1, BytesCount
  <2> QED
    BY <1>3, <1>5, <2>2
<1>8. ReaderStays
  BY <1>1 DEF ReaderStays
<1>9. framing # "chunked" /\ (framing = "length" => provided' <= length)
  BY <1>1, <1>2
<1> QED
  BY <1>1, <1>2, <1>5, <1>6, <1>7, <1>8, <1>9, WriteDataStep

\* A chunk.
LEMMA ChunkKeeps ==
    ASSUME ContentAssumption, TransferInv, T!WriteChunk
    PROVE  TransferInv'
<1>1. /\ writer = "writing" /\ framing = "chunked"
      /\ UNCHANGED <<framing, length, limit, reader, remaining, got, trailers, verdict>>
      /\ finished' = finished /\ sent' = sent
  BY DEF T!WriteChunk, T!about, T!rvars
<1>2. PICK n \in T!Pieces \ {0} : \E k \in 0 .. (held + n) :
           /\ provided' = provided + n /\ held' = held + n - k
           /\ T!WriteData(T!Chunk(provided - held + 1, k))
  BY DEF T!WriteChunk
<1>3. PICK k \in 0 .. (held + n) :
           /\ provided' = provided + n /\ held' = held + n - k
           /\ T!WriteData(T!Chunk(provided - held + 1, k))
  BY <1>2
<1>4. provided \in Nat /\ held \in 0 .. provided /\ provided - held \in Nat
  BY <1>1, Writing
<1>5. n \in Nat /\ k \in Nat /\ k <= held + n
  BY <1>4 DEF T!Pieces
<1>6. /\ provided' \in Nat /\ provided <= provided' /\ held' \in 0 .. provided'
      /\ provided' - held' = provided - held + k /\ provided - held + k <= provided'
  BY <1>3, <1>4, <1>5
<1>7. T!Chunk(provided - held + 1, k) \in Seq(Units)
  BY <1>4, <1>5, ChunkAre
<1>8. Path(Counting(provided', FALSE, {}), Nat, T!Chunk(provided - held + 1, k),
           provided - held, provided' - held')
  BY <1>4, <1>5, <1>6, ChunkCounts
<1>9. Path(Chunking({}), Places, T!Chunk(provided - held + 1, k),
           <<"size", 0, provided - held, {}>>, <<"size", 0, provided' - held', {}>>)
  BY <1>4, <1>5, <1>6, ChunkReads
<1>10. ReaderStays
  BY <1>1 DEF ReaderStays
<1> QED
  BY <1>1, <1>3, <1>6, <1>7, <1>8, <1>9, <1>10, WriteDataStep

\* The writer stops: it has written all, was told so, or gives up.
LEMMA StopKeeps ==
    ASSUME ContentAssumption, TransferInv,
           T!LengthWritten \/ T!DoneWithoutLength \/ T!WriteNoChunk \/ T!GivesUp
    PROVE  TransferInv'
<1>1. /\ writer = "writing"
      /\ UNCHANGED <<framing, length, limit, reader, remaining, got, trailers, verdict>>
      /\ provided' = provided /\ held' = held /\ sent' = sent /\ wire' = wire
  BY DEF T!LengthWritten, T!DoneWithoutLength, T!WriteNoChunk, T!GivesUp, T!about, T!rvars
<1>2. ReaderStays
  BY <1>1 DEF ReaderStays
<1>3. finished = FALSE /\ sent = {} /\ (verdict = "reading" => stopped = {})
  BY <1>1, Writing
<1>4. TransferTypes /\ WriterPlace
  BY DEF TransferInv
<1>5. CASE T!LengthWritten
  <2>1. /\ writer' = "ok" /\ finished' = finished /\ eof' = eof /\ stopped' = stopped
        /\ framing = "length" /\ provided = length
    BY <1>5 DEF T!LengthWritten
  <2>2. WriterPlace'
    BY <1>1, <1>3, <1>4, <2>1 DEF WriterPlace
  <2>3. eof' \in {"no", "eof", "error"} /\ finished' \in BOOLEAN
    BY <1>4, <2>1 DEF TransferTypes
  <2> QED
    BY <1>1, <1>2, <2>1, <2>2, <2>3, WriterIdle
<1>6. CASE T!DoneWithoutLength
  <2>1. /\ writer' = "ok" /\ finished' = TRUE /\ eof' = "eof" /\ stopped' = stopped
        /\ framing = "close"
    BY <1>6 DEF T!DoneWithoutLength
  <2>2. WriterPlace'
    BY <1>1, <1>3, <1>4, <2>1 DEF WriterPlace
  <2> QED
    BY <1>1, <1>2, <2>1, <2>2, WriterIdle
<1>7. CASE T!WriteNoChunk
  <2>1. /\ writer' = "ok" /\ finished' = finished /\ eof' = eof /\ stopped' = stopped
        /\ framing = "chunked"
    BY <1>7 DEF T!WriteNoChunk
  <2>2. WriterPlace'
    BY <1>1, <1>3, <1>4, <2>1 DEF WriterPlace
  <2>3. eof' \in {"no", "eof", "error"} /\ finished' \in BOOLEAN
    BY <1>4, <2>1 DEF TransferTypes
  <2> QED
    BY <1>1, <1>2, <2>1, <2>2, <2>3, WriterIdle
<1>8. CASE T!GivesUp
  <2>1. /\ writer' = "failed" /\ finished' = finished /\ eof' = "eof"
        /\ stopped' = stopped \cup {"write"}
    BY <1>8 DEF T!GivesUp, T!Fails
  <2>2. WriterPlace'
    BY <1>1, <1>3, <1>4, <2>1 DEF WriterPlace
  <2>3. finished' \in BOOLEAN /\ stopped \subseteq stopped'
    BY <1>3, <2>1
  <2> QED
    BY <1>1, <1>2, <2>1, <2>2, <2>3, WriterIdle
<1> QED
  BY <1>5, <1>6, <1>7, <1>8

\* Units one after the other.
LEMMA UnitsAssociate ==
    \A s, t, u \in Seq(Units) : (s \o t) \o u = s \o (t \o u)
BY ConcatAssociative

\* done and done_with_trailer, whatever of their writes fails.
LEMMA DoneKeeps ==
    ASSUME ContentAssumption, TransferInv, T!DoneChunked
    PROVE  TransferInv'
<1>1. /\ writer = "writing" /\ framing = "chunked" /\ finished' = TRUE /\ provided' = provided
      /\ UNCHANGED <<framing, length, limit, reader, remaining, got, trailers, verdict>>
  BY DEF T!DoneChunked, T!about, T!rvars
<1>2. ReaderStays
  BY <1>1 DEF ReaderStays
<1>3. /\ finished = FALSE /\ sent = {} /\ (verdict = "reading" => stopped = {})
      /\ provided \in Nat /\ held \in 0 .. provided /\ provided - held \in Nat /\ held \in Nat
      /\ provided - held + held = provided /\ wire \in Seq(Units)
  BY <1>1, Writing
<1>4. TransferTypes /\ WriterPlace
  BY DEF TransferInv
<1>5. IsFiniteSet(Trailers)
  BY SameFinite DEF ContentAssumption, T!TransferAssumption
<1> DEFINE last == T!Chunk(provided - held + 1, held)
<1>6. PICK ts \in T!SetToAllKPermutations(Trailers) :
         \/ /\ wire' = wire \o last \o T!EndOf(ts)
            /\ sent' = T!ToSet(ts) /\ held' = 0
            /\ writer' = "ok" /\ UNCHANGED <<eof, stopped>>
         \/ /\ last # <<>>
            /\ wire' = wire \o SubSeq(last, 1, Len(last) - 1)
            /\ T!Fails("write") /\ UNCHANGED <<held, sent>>
         \/ /\ \E n \in 0 .. Len(T!EndOf(ts)) - 1 :
               \E next \in {2 * (n \div 2) + 3, Len(T!EndOf(ts)) + 1} :
                  wire' = wire \o last \o SubSeq(T!EndOf(ts), 1, n)
                               \o SubSeq(T!EndOf(ts), next, Len(T!EndOf(ts)))
            /\ sent' = T!ToSet(ts) /\ held' = 0
            /\ T!Fails("write")
  BY DEF T!DoneChunked
<1> DEFINE end == T!EndOf(ts)
           names == {ts[i] : i \in 1 .. Len(ts)}
<1>7. /\ ts \in Seq(Trailers) /\ T!ToSet(ts) = names /\ names \subseteq Trailers
      /\ \A i \in 1 .. Len(ts), j \in 1 .. Len(ts) : i # j => ts[i] # ts[j]
  BY <1>5, TrailersAre
<1>8. last \in Seq(Units)
  BY <1>3, ChunkAre
<1>9. /\ end \in Seq(Units)
      /\ \A i \in 1 .. Len(end) : end[i] \in {T!Size(0), T!Eol} \cup {T!Trailer(ts[j]) : j \in 1 .. Len(ts)}
  BY <1>7, EndAre
<1>10. \A i \in 1 .. Len(end) : /\ end[i][1] # "byte"
                                /\ end[i][1] = "trailer" => end[i][2] \in names
  <2>1. /\ T!Size(0)[1] = "size" /\ T!Eol[1] = "eol"
        /\ \A t : T!Trailer(t)[1] = "trailer" /\ T!Trailer(t)[2] = t
    BY DEF T!Size, T!Eol, T!Trailer
  <2>2. \A u \in {T!Size(0), T!Eol} \cup {T!Trailer(ts[j]) : j \in 1 .. Len(ts)} :
           u[1] # "byte" /\ (u[1] = "trailer" => u[2] \in names)
    BY <2>1
  <2> HIDE DEF end, names
  <2> QED
    BY <1>9, <2>2
<1>11. \A total \in Nat : \A who : total = provided =>
          Path(Counting(total, TRUE, who), Nat, last, provided - held, provided)
  <2> TAKE total \in Nat
  <2> TAKE who
  <2> HAVE total = provided
  <2>1. provided - held + held <= total
    BY <1>3
  <2>2. Path(Counting(total, TRUE, who), Nat, last, provided - held, provided - held + held)
    BY <1>3, <2>1, ChunkCounts
  <2> QED
    BY <1>3, <2>2
<1>12. CASE /\ wire' = wire \o last \o end
            /\ sent' = T!ToSet(ts) /\ held' = 0
            /\ writer' = "ok" /\ UNCHANGED <<eof, stopped>>
  <2>1. WriterPlace'
    BY <1>1, <1>3, <1>4, <1>12 DEF WriterPlace
  <2>2. eof' \in {"no", "eof", "error"}
    BY <1>4, <1>12 DEF TransferTypes
  <2>3. Path(Counting(provided, TRUE, names), Nat, end, provided, provided)
    <3> HIDE DEF end, names
    <3> QED
      BY <1>3, <1>9, <1>10, OthersCount
  <2>4. Path(Counting(provided, TRUE, names), Nat, last, provided - held, provided)
    BY <1>3, <1>11
  <2>5. Path(Chunking(names), Places, last, <<"size", 0, provided - held, {}>>,
             <<"size", 0, provided, {}>>)
    BY <1>3, ChunkReads
  <2>6. Path(Chunking(names), Places, end, <<"size", 0, provided, {}>>, <<"end", 0, provided, names>>)
    BY <1>3, <1>7, EndReads
  <2> HIDE DEF last, end, names
  <2>7. last \o end \in Seq(Units) /\ wire' = wire \o (last \o end)
    BY <1>3, <1>8, <1>9, <1>12
  <2>8. Path(Counting(provided, TRUE, names), Nat, last \o end, provided - held, provided)
    BY <1>8, <1>9, <2>3, <2>4, PathJoin
  <2>9. Path(Chunking(names), Places, last \o end, <<"size", 0, provided - held, {}>>,
             <<"end", 0, provided, names>>)
    BY <1>8, <1>9, <2>5, <2>6, PathJoin
  <2>10. \E k \in Nat :
            /\ Path(Counting(provided', finished', sent'), Nat, last \o end, provided - held, k)
            /\ stopped' = {} => k = provided' - held'
    <3>1. provided' - held' = provided
      BY <1>1, <1>3, <1>12
    <3> QED
      BY <1>1, <1>3, <1>7, <1>12, <2>8, <3>1
  <2>11. framing = "chunked" /\ stopped' = {} =>
            Path(Chunking(sent'), Places, last \o end, <<"size", 0, provided - held, {}>>,
                 IF finished' THEN <<"end", 0, provided', sent'>>
                 ELSE <<"size", 0, provided' - held', {}>>)
    BY <1>1, <1>7, <1>12, <2>9
  <2>12. /\ provided' \in Nat /\ provided <= provided' /\ held' \in 0 .. provided'
         /\ sent' \subseteq Trailers /\ stopped \subseteq stopped' /\ finished' \in BOOLEAN
    BY <1>1, <1>3, <1>7, <1>12
  <2>13. writer' \in {"writing", "ok", "failed"}
    BY <1>12
  <2> QED
    BY <1>1, <1>2, <2>1, <2>2, <2>7, <2>10, <2>11, <2>12, <2>13, WriterStep
<1>13. CASE /\ last # <<>>
            /\ wire' = wire \o SubSeq(last, 1, Len(last) - 1)
            /\ T!Fails("write") /\ UNCHANGED <<held, sent>>
  <2>1. writer' = "failed" /\ eof' = "eof" /\ stopped' = stopped \cup {"write"}
    BY <1>13 DEF T!Fails
  <2>2. WriterPlace'
    BY <1>1, <1>3, <1>4, <1>13, <2>1 DEF WriterPlace
  <2>3. Path(Counting(provided, TRUE, {}), Nat, last, provided - held, provided)
    BY <1>3, <1>11
  <2> HIDE DEF last, end, names
  <2>4. Len(last) - 1 \in 0 .. Len(last)
    BY <1>8, <1>13
  <2>5. \E k \in Nat : Path(Counting(provided, TRUE, {}), Nat, SubSeq(last, 1, Len(last) - 1),
                            provided - held, k)
    BY <1>8, <2>3, <2>4, PathCut
  <2>6. \E k \in Nat :
            /\ Path(Counting(provided', finished', sent'), Nat, SubSeq(last, 1, Len(last) - 1),
                    provided - held, k)
            /\ stopped' = {} => k = provided' - held'
    BY <1>1, <1>3, <1>13, <2>1, <2>5
  <2>7. SubSeq(last, 1, Len(last) - 1) \in Seq(Units)
    BY <1>8, <2>4, CutInTwo
  <2>8. /\ provided' \in Nat /\ provided <= provided' /\ held' \in 0 .. provided'
        /\ sent' \subseteq Trailers /\ stopped \subseteq stopped' /\ finished' \in BOOLEAN
        /\ stopped' # {}
    BY <1>1, <1>3, <1>13, <2>1
  <2>9. writer' \in {"writing", "ok", "failed"} /\ eof' \in {"no", "eof", "error"}
    BY <2>1
  <2> QED
    BY <1>1, <1>2, <1>13, <2>2, <2>6, <2>7, <2>8, <2>9, WriterStep
<1>14. CASE /\ \E n \in 0 .. Len(end) - 1 : \E next \in {2 * (n \div 2) + 3, Len(end) + 1} :
                  wire' = wire \o last \o SubSeq(end, 1, n) \o SubSeq(end, next, Len(end))
            /\ sent' = T!ToSet(ts) /\ held' = 0
            /\ T!Fails("write")
  <2>1. writer' = "failed" /\ eof' = "eof" /\ stopped' = stopped \cup {"write"}
    BY <1>14 DEF T!Fails
  <2>2. WriterPlace'
    BY <1>1, <1>3, <1>4, <1>14, <2>1 DEF WriterPlace
  <2>3. Path(Counting(provided, TRUE, names), Nat, last, provided - held, provided)
    BY <1>3, <1>11
  <2> HIDE DEF last, end, names
  <2>4. PICK n \in 0 .. Len(end) - 1 : \E next \in {2 * (n \div 2) + 3, Len(end) + 1} :
                  wire' = wire \o last \o SubSeq(end, 1, n) \o SubSeq(end, next, Len(end))
    BY <1>14
  <2>5. PICK next \in {2 * (n \div 2) + 3, Len(end) + 1} :
                  wire' = wire \o last \o SubSeq(end, 1, n) \o SubSeq(end, next, Len(end))
    BY <2>4
  <2>6. n \in Nat /\ n <= Len(end) /\ next \in Nat /\ next >= 1 /\ Len(end) \in Nat
    <3>1. Len(end) \in Nat
      BY <1>9
    <3>2. n \in Nat /\ n <= Len(end) /\ n \div 2 \in Nat
      BY <3>1
    <3> QED
      BY <3>1, <3>2
  <2> DEFINE a == SubSeq(end, 1, n)
             b == SubSeq(end, next, Len(end))
             good == {u \in Units : u[1] # "byte" /\ (u[1] = "trailer" => u[2] \in names)}
  <2>7. end \in Seq(good)
    BY <1>9, <1>10
  <2> HIDE DEF good
  <2>8. a \in Seq(good) /\ b \in Seq(good)
    BY <2>6, <2>7
  <2> HIDE DEF a, b
  <2>9. a \o b \in Seq(good)
    BY <2>8
  <2>10. a \o b \in Seq(Units) /\ \A i \in 1 .. Len(a \o b) : (a \o b)[i] \in good
    <3>1. good \subseteq Units
      BY DEF good
    <3> QED
      BY <2>9, <3>1, SeqMonotonic
  <2>11. Path(Counting(provided, TRUE, names), Nat, a \o b, provided, provided)
    <3>1. \A i \in 1 .. Len(a \o b) :
             /\ (a \o b)[i][1] # "byte"
             /\ (a \o b)[i][1] = "trailer" => (a \o b)[i][2] \in names
      BY <2>10 DEF good
    <3> QED
      BY <1>3, <2>10, <3>1, OthersCount
  <2>12. Path(Counting(provided, TRUE, names), Nat, last \o (a \o b), provided - held, provided)
    BY <1>8, <2>3, <2>10, <2>11, PathJoin
  <2>13. last \o (a \o b) \in Seq(Units)
    BY <1>8, <2>10
  <2>14. wire' = wire \o (last \o (a \o b))
    <3>1. wire' = wire \o last \o a \o b
      BY <2>5 DEF a, b
    <3>2. a \in Seq(Units) /\ b \in Seq(Units)
      <4>1. good \subseteq Units
        BY DEF good
      <4> QED
        BY <2>8, <4>1, SeqMonotonic
    <3>3. last \o a \in Seq(Units) /\ a \o b \in Seq(Units)
      BY <1>8, <3>2
    <3>4. wire \in Seq(Units) /\ last \in Seq(Units)
      BY <1>3, <1>8
    <3> HIDE DEF a, b
    <3>5. wire \o last \o a = wire \o (last \o a)
      BY <3>2, <3>4, UnitsAssociate, Zenon
    <3>6. (wire \o (last \o a)) \o b = wire \o ((last \o a) \o b)
      <4>1. b \in Seq(Units) /\ wire \in Seq(Units) /\ last \o a \in Seq(Units)
        BY <3>2, <3>3, <3>4
      <4> DEFINE c == last \o a
      <4> HIDE DEF c
      <4>2. (wire \o c) \o b = wire \o (c \o b)
        BY <4>1, UnitsAssociate, Zenon DEF c
      <4> QED
        BY <4>2 DEF c
    <3>7. (last \o a) \o b = last \o (a \o b)
      BY <3>2, <3>4, UnitsAssociate, Zenon
    <3> QED
      BY <3>1, <3>5, <3>6, <3>7
  <2>15. \E k \in Nat :
            /\ Path(Counting(provided', finished', sent'), Nat, last \o (a \o b), provided - held, k)
            /\ stopped' = {} => k = provided' - held'
    BY <1>1, <1>3, <1>7, <1>14, <2>1, <2>12
  <2>16. /\ provided' \in Nat /\ provided <= provided' /\ held' \in 0 .. provided'
         /\ sent' \subseteq Trailers /\ stopped \subseteq stopped' /\ finished' \in BOOLEAN
         /\ stopped' # {}
    BY <1>1, <1>3, <1>7, <1>14, <2>1
  <2>17. writer' \in {"writing", "ok", "failed"} /\ eof' \in {"no", "eof", "error"}
    BY <2>1
  <2> QED
    BY <1>1, <1>2, <2>2, <2>13, <2>14, <2>15, <2>16, <2>17, WriterStep
<1> QED
  BY <1>6, <1>12, <1>13, <1>14

-----------------------------------------------------------------------------
(* The reader                                                               *)

\* What the writer has, and what the message is, is not the reader's.
WriterStays ==
    /\ framing' = framing /\ length' = length /\ limit' = limit
    /\ writer' = writer /\ provided' = provided /\ held' = held /\ finished' = finished
    /\ sent' = sent /\ eof' = eof

\* What the reader knows while it reads.
LEMMA ReaderKnows ==
    ASSUME TransferInv, verdict = "reading"
    PROVE  /\ framing \in {"length", "chunked", "close"}
           /\ framing = "length" => /\ reader = "data" /\ remaining > 0 /\ held = 0
                                    /\ remaining + Len(got) = length
           /\ framing = "close" => reader = "close" /\ held = 0
           /\ framing = "chunked" => reader \in {"size", "data", "trailers"}
           /\ reader = "trailers" => finished /\ Len(got) = provided /\ remaining = 0
           /\ wire \in Seq(Units) /\ remaining \in Nat /\ got \in Seq(Nat) /\ Len(got) \in Nat
           /\ provided \in Nat /\ held \in 0 .. provided /\ sent \subseteq Trailers
           /\ trailers \subseteq sent \cap Allowed
<1>1. TransferTypes /\ WriterPlace /\ ReaderPlace
  BY DEF TransferInv
<1>2. Len(got) \in Nat
  BY <1>1 DEF TransferTypes
<1> QED
  BY <1>1, <1>2 DEF TransferTypes, WriterPlace, ReaderPlace

\* When nothing has failed there is an end of the connection only after a writer
\* without a length.
LEMMA NothingFailed ==
    ASSUME TransferInv, stopped = {}
    PROVE  /\ writer \in {"writing", "ok"} /\ eof \in {"no", "eof"}
           /\ framing # "close" => eof = "no"
           /\ framing = "close" /\ writer = "ok" => eof = "eof"
<1>1. TransferTypes /\ WriterPlace
  BY DEF TransferInv
<1> QED
  BY <1>1 DEF TransferTypes, WriterPlace

\* A step of the reader that reads on, n units, keeps the invariant.
LEMMA ReadOn ==
    ASSUME TransferInv, WriterStays, verdict = "reading", verdict' = "reading", stopped' = stopped,
           ReaderPlace', remaining' \in Nat, got' \in Seq(Nat),
           reader' \in {"size", "data", "trailers", "close"},
           trailers' \subseteq sent \cap Allowed,
           NEW n \in 0 .. Len(wire), wire' = SubSeq(wire, n + 1, Len(wire)),
           \A k \in Nat :
               Path(Counting(provided, finished, sent), Nat, wire, Len(got), k)
               => Path(Counting(provided, finished, sent), Nat, wire', Len(got'), k),
           \A had \in SUBSET Trailers : \A q :
               /\ stopped = {} /\ framing = "chunked" /\ trailers = had \cap Allowed
               /\ Path(Chunking(sent), Places, wire, <<reader, remaining, Len(got), had>>, q)
               => \E more \in SUBSET Trailers :
                      /\ trailers' = more \cap Allowed
                      /\ Path(Chunking(sent), Places, wire',
                              <<reader', remaining', Len(got'), more>>, q)
    PROVE  TransferInv'
<1>1. TransferTypes /\ WriterPlace /\ BytesFollow /\ ChunksFollow
  BY DEF TransferInv
<1>2. TransferTypes'
  <2>1. wire' \in Seq(Units)
    <3>1. wire \in Seq(Units)
      BY <1>1 DEF TransferTypes
    <3> QED
      BY <3>1, CutInTwo
  <2> QED
    BY <1>1, <2>1 DEF TransferTypes, WriterStays, Allowed
<1>3. WriterPlace'
  BY <1>1 DEF WriterPlace, WriterStays
<1>4. VerdictPlace'
  BY DEF VerdictPlace
<1>5. BytesFollow'
  <2>1. PICK k \in Nat : /\ Path(Counting(provided, finished, sent), Nat, wire, Len(got), k)
                         /\ stopped = {} => k = provided - held
    BY <1>1 DEF BytesFollow
  <2>2. Path(Counting(provided, finished, sent), Nat, wire', Len(got'), k)
    BY <2>1
  <2> QED
    BY <2>1, <2>2 DEF BytesFollow, WriterStays
<1>6. ChunksFollow'
  <2> DEFINE q == IF finished THEN <<"end", 0, provided, sent>>
                  ELSE <<"size", 0, provided - held, {}>>
  <2> SUFFICES ASSUME stopped = {}, framing = "chunked"
               PROVE  \E had \in SUBSET Trailers :
                         /\ trailers' = had \cap Allowed
                         /\ Path(Chunking(sent), Places, wire',
                                 <<reader', remaining', Len(got'), had>>, q)
    BY DEF ChunksFollow, WriterStays, Allowed
  <2>1. PICK had \in SUBSET Trailers :
           /\ trailers = had \cap Allowed
           /\ Path(Chunking(sent), Places, wire, <<reader, remaining, Len(got), had>>, q)
    BY <1>1 DEF ChunksFollow
  <2> QED
    BY <2>1
<1> QED
  BY <1>2, <1>3, <1>4, <1>5, <1>6 DEF TransferInv

\* A step that ends the reading keeps it when the verdict is right.
LEMMA ReadEnds ==
    ASSUME TransferInv, WriterStays, verdict = "reading",
           verdict' \in {"ok", "error", "tooLarge"}, reader' = "done",
           ReaderPlace', VerdictPlace', remaining' \in Nat, got' \in Seq(Nat),
           trailers' \subseteq sent \cap Allowed, stopped \subseteq stopped',
           wire' \in Seq(Units)
    PROVE  TransferInv'
<1>1. TransferTypes /\ WriterPlace
  BY DEF TransferInv
<1>2. TransferTypes'
  BY <1>1 DEF TransferTypes, WriterStays, Allowed
<1>3. WriterPlace'
  BY <1>1 DEF WriterPlace, WriterStays
<1>4. BytesFollow' /\ ChunksFollow'
  BY DEF BytesFollow, ChunksFollow
<1> QED
  BY <1>2, <1>3, <1>4 DEF TransferInv

\* Bytes lead the count on, as far as the writer is.
LEMMA BytesLead ==
    ASSUME TransferInv, verdict = "reading", NEW n \in Nat \ {0}, T!Bytes(n)
    PROVE  /\ n <= Len(wire) /\ n \in 0 .. Len(wire) /\ Len(got) + n <= provided
           /\ \A i \in 1 .. n : wire[i] = T!Byte(Len(got) + i)
           /\ \A k \in Nat : Path(Counting(provided, finished, sent), Nat, wire, Len(got), k)
                 => Path(Counting(provided, finished, sent), Nat,
                         SubSeq(wire, n + 1, Len(wire)), Len(got) + n, k)
<1>1. /\ wire \in Seq(Units) /\ Len(got) \in Nat /\ provided \in Nat /\ BytesFollow
      /\ n <= Len(wire) /\ \A i \in 1 .. n : wire[i][1] = "byte"
  BY ReaderKnows DEF TransferInv, T!Bytes
<1>2. Len(wire) \in Nat /\ n \in 0 .. Len(wire)
  BY <1>1
<1> DEFINE rel == Counting(provided, finished, sent)
           f == [i \in 0 .. n |-> Len(got) + i]
<1>3. f[0] = Len(got) /\ f[n] = Len(got) + n
  BY <1>1
<1>4. ASSUME NEW i \in 1 .. n, NEW s, <<f[i - 1], wire[i], s>> \in rel
      PROVE  s = f[i] /\ wire[i][2] = Len(got) + i /\ Len(got) + i <= provided /\ wire[i] \in Units
  <2>1. f[i - 1] = Len(got) + i - 1 /\ f[i] = Len(got) + i /\ Len(got) + i - 1 + 1 = Len(got) + i
    BY <1>1
  <2>2. wire[i][1] = "byte" /\ wire[i] \in Units
    BY <1>1, <1>2
  <2>3. Counts(provided, finished, sent, Len(got) + i - 1, wire[i], s)
    BY <1>4, <2>1, Counted
  <2> QED
    BY <2>1, <2>2, <2>3 DEF Counts
<1> HIDE DEF rel, f
<1>5. \A k \in Nat : Path(rel, Nat, wire, Len(got), k)
         => /\ \A i \in 1 .. n : f[i] \in Nat /\ <<f[i - 1], wire[i], f[i]>> \in rel
            /\ Path(rel, Nat, SubSeq(wire, n + 1, Len(wire)), f[n], k)
  <2> TAKE k \in Nat
  <2> HAVE Path(rel, Nat, wire, Len(got), k)
  <2>1. \A i \in 1 .. n : \A s \in Nat : <<f[i - 1], wire[i], s>> \in rel => s = f[i]
    BY <1>4
  <2> QED
    BY <1>1, <1>2, <1>3, <2>1, PathFollow
<1>6. PICK k \in Nat : Path(rel, Nat, wire, Len(got), k)
  BY <1>1 DEF BytesFollow, rel
<1>7. \A i \in 1 .. n : wire[i][2] = Len(got) + i /\ Len(got) + i <= provided /\ wire[i] \in Units
  BY <1>4, <1>5, <1>6
<1>8. \A i \in 1 .. n : wire[i] = T!Byte(Len(got) + i)
  BY <1>1, <1>7, UnitIs
<1>9. Len(got) + n <= provided
  <2>1. n \in 1 .. n
    OBVIOUS
  <2> QED
    BY <1>7, <2>1
<1> QED
  BY <1>1, <1>2, <1>3, <1>5, <1>8, <1>9 DEF rel

\* They lead a reader of chunks on in its chunk.
LEMMA BytesLeadChunks ==
    ASSUME NEW w \in Seq(Units), NEW k \in Nat, NEW left \in Nat, NEW n \in 0 .. Len(w), n <= left,
           \A i \in 1 .. n : w[i] = T!Byte(k + i),
           NEW names, NEW had, NEW q,
           Path(Chunking(names), Places, w, <<"data", left, k, had>>, q)
    PROVE  Path(Chunking(names), Places, SubSeq(w, n + 1, Len(w)), <<"data", left - n, k + n, had>>, q)
<1> DEFINE rel == Chunking(names)
           f == [i \in 0 .. n |-> <<"data", left - i, k + i, had>>]
<1>1. n \in Nat /\ 0 \in 0 .. n /\ n \in 0 .. n /\ left - 0 = left /\ k + 0 = k
  OBVIOUS
<1>2. f[0] = <<"data", left, k, had>> /\ f[n] = <<"data", left - n, k + n, had>>
  BY <1>1
<1>3. ASSUME NEW i \in 1 .. n, NEW s \in Places, <<f[i - 1], w[i], s>> \in rel PROVE s = f[i]
  <2>1. /\ i - 1 \in 0 .. n /\ i \in 0 .. n
        /\ left - (i - 1) - 1 = left - i /\ k + (i - 1) + 1 = k + i
    BY <1>1
  <2>2. f[i - 1] = <<"data", left - (i - 1), k + (i - 1), had>> /\ f[i] = <<"data", left - i, k + i, had>>
    BY <2>1
  <2>3. Chunks(names, <<"data", left - (i - 1), k + (i - 1), had>>, w[i], s)
    BY <1>3, <2>2, Chunked
  <2>4. w[i][1] = "byte" /\ w[i] # T!Eol
    BY <1>1 DEF T!Byte, T!Eol
  <2>5. s = <<"data", left - (i - 1) - 1, k + (i - 1) + 1, had>>
    BY <2>3, <2>4 DEF Chunks
  <2> QED
    BY <2>1, <2>2, <2>5
<1> HIDE DEF f, rel
<1>4. Path(rel, Places, w, <<"data", left, k, had>>, q)
  BY DEF rel
<1>5. Path(rel, Places, SubSeq(w, n + 1, Len(w)), f[n], q)
  BY <1>2, <1>3, <1>4, PathFollow
<1> QED
  BY <1>2, <1>5 DEF rel

\* Two units, or one, that leave no choice.
LEMMA PathFirst ==
    ASSUME NEW rel, NEW A, NEW w \in Seq(Units), NEW a, NEW b, NEW c, Len(w) >= 1,
           Path(rel, A, w, a, c), \A s \in A : <<a, w[1], s>> \in rel => s = b
    PROVE  /\ b \in A /\ <<a, w[1], b>> \in rel
           /\ Path(rel, A, SubSeq(w, 2, Len(w)), b, c)
<1> DEFINE f == [i \in 0 .. 1 |-> IF i = 0 THEN a ELSE b]
<1>1. f[0] = a /\ f[1] = b /\ 1 \in 0 .. Len(w) /\ 1 + 1 = 2 /\ 1 - 1 = 0
  OBVIOUS
<1> HIDE DEF f
<1>2. \A i \in 1 .. 1 : i = 1
  OBVIOUS
<1>3. \A i \in 1 .. 1 : \A s \in A : <<f[i - 1], w[i], s>> \in rel => s = f[i]
  BY <1>1, <1>2
<1>4. /\ \A i \in 1 .. 1 : f[i] \in A /\ <<f[i - 1], w[i], f[i]>> \in rel
      /\ Path(rel, A, SubSeq(w, 1 + 1, Len(w)), f[1], c)
  BY <1>1, <1>3, PathFollow
<1>5. 1 \in 1 .. 1
  OBVIOUS
<1> QED
  BY <1>1, <1>4, <1>5

LEMMA PathTwo ==
    ASSUME NEW rel, NEW A, NEW w \in Seq(Units), NEW a, NEW b, NEW d, NEW c, Len(w) >= 2,
           Path(rel, A, w, a, c), \A s \in A : <<a, w[1], s>> \in rel => s = b,
           \A s \in A : <<b, w[2], s>> \in rel => s = d
    PROVE  /\ b \in A /\ <<a, w[1], b>> \in rel /\ d \in A /\ <<b, w[2], d>> \in rel
           /\ Path(rel, A, SubSeq(w, 3, Len(w)), d, c)
<1>1. Len(w) >= 1 /\ Len(w) \in Nat
  OBVIOUS
<1>2. /\ b \in A /\ <<a, w[1], b>> \in rel
      /\ Path(rel, A, SubSeq(w, 2, Len(w)), b, c)
  BY <1>1, PathFirst
<1> DEFINE v == SubSeq(w, 2, Len(w))
<1>3. v \in Seq(Units) /\ Len(v) = Len(w) - 1 /\ v[1] = w[2] /\ SubSeq(v, 2, Len(v)) = SubSeq(w, 3, Len(w))
  <2>1. v \in Seq(Units) /\ Len(v) = Len(w) - 1 /\ v[1] = w[2]
    BY <1>1
  <2>2. SubSeq(v, 2, Len(v)) \in Seq(Units) /\ SubSeq(w, 3, Len(w)) \in Seq(Units)
    BY <1>1, <2>1
  <2>3. Len(SubSeq(v, 2, Len(v))) = Len(w) - 2 /\ Len(SubSeq(w, 3, Len(w))) = Len(w) - 2
    BY <1>1, <2>1
  <2>4. ASSUME NEW i \in 1 .. Len(w) - 2
        PROVE  SubSeq(v, 2, Len(v))[i] = SubSeq(w, 3, Len(w))[i]
    BY <1>1, <2>1
  <2> HIDE DEF v
  <2> QED
    BY <2>1, <2>2, <2>3, <2>4, SeqEqual
<1> HIDE DEF v
<1>4. Len(v) >= 1 /\ Path(rel, A, v, b, c)
  BY <1>1, <1>2, <1>3 DEF v
<1>5. d \in A /\ <<b, v[1], d>> \in rel /\ Path(rel, A, SubSeq(v, 2, Len(v)), d, c)
  BY <1>3, <1>4, PathFirst
<1> QED
  BY <1>2, <1>3, <1>5

\* Where no unit can follow, none does.
LEMMA PathStops ==
    ASSUME NEW rel, NEW A, NEW w \in Seq(Units), NEW a, NEW c,
           Path(rel, A, w, a, c), \A u, s : <<a, u, s>> \notin rel
    PROVE  c = a
<1>1. PICK run \in [0 .. Len(w) -> A] :
         /\ run[0] = a /\ run[Len(w)] = c
         /\ \A i \in 1 .. Len(w) : <<run[i - 1], w[i], run[i]>> \in rel
  BY DEF Path
<1>2. Len(w) = 0
  <2> SUFFICES ASSUME Len(w) # 0 PROVE FALSE
    OBVIOUS
  <2>1. 1 \in 1 .. Len(w) /\ 1 - 1 = 0
    OBVIOUS
  <2>2. <<a, w[1], run[1]>> \in rel
    BY <1>1, <2>1
  <2> QED
    BY <2>2
<1> QED
  BY <1>1, <1>2

\* What the receiver is given are the next bytes.
LEMMA GivesNext ==
    ASSUME TransferInv, verdict = "reading", NEW n \in Nat \ {0}, T!Bytes(n), T!Gives(n)
    PROVE  /\ got' \in Seq(Nat) /\ Len(got') = Len(got) + n
           /\ \A i \in 1 .. Len(got') : got'[i] = i
           /\ wire' = SubSeq(wire, n + 1, Len(wire))
<1>1. got \in Seq(Nat) /\ Len(got) \in Nat /\ \A i \in 1 .. Len(got) : got[i] = i
  BY ReaderKnows DEF TransferInv, ReaderPlace
<1>2. \A i \in 1 .. n : wire[i] = T!Byte(Len(got) + i)
  BY BytesLead
<1>3. \A i \in 1 .. n : wire[i][2] = Len(got) + i
  BY <1>2 DEF T!Byte
<1> DEFINE piece == [i \in 1 .. n |-> wire[i][2]]
<1>4. \A i \in 1 .. n : piece[i] = Len(got) + i /\ piece[i] \in Nat
  BY <1>1, <1>3
<1>5. piece \in [1 .. n -> Nat]
  BY <1>1, <1>3
<1>6. got' = got \o piece /\ wire' = SubSeq(wire, n + 1, Len(wire))
  BY DEF T!Gives, T!Take
<1> HIDE DEF piece
<1>7. piece \in Seq(Nat) /\ Len(piece) = n
  BY <1>5
<1>8. got' \in Seq(Nat) /\ Len(got') = Len(got) + n
  <2>1. got \o piece \in Seq(Nat) /\ Len(got \o piece) = Len(got) + Len(piece)
    BY <1>1, <1>7, JoinTwo
  <2> QED
    BY <1>6, <1>7, <2>1
<1>9. ASSUME NEW i \in 1 .. Len(got') PROVE got'[i] = i
  <2>1. CASE i <= Len(got)
    BY <1>1, <1>6, <1>7, <1>8, <2>1
  <2>2. CASE ~(i <= Len(got))
    <3>1. i - Len(got) \in 1 .. n /\ Len(got) + (i - Len(got)) = i
      BY <1>1, <1>8, <2>2
    <3>2. got'[i] = piece[i - Len(got)]
      BY <1>1, <1>6, <1>7, <1>8, <2>2, <3>1
    <3> QED
      BY <1>4, <3>1, <3>2
  <2> QED
    BY <2>1, <2>2
<1> QED
  BY <1>6, <1>8, <1>9

\* Bytes of a body with a length, or of a chunk.
LEMMA ReadBytesKeeps ==
    ASSUME ContentAssumption, TransferInv, T!ReadBytes
    PROVE  TransferInv'
<1>1. /\ verdict = "reading" /\ reader = "data" /\ WriterStays
      /\ trailers' = trailers /\ stopped' = stopped
  BY DEF T!ReadBytes, T!Reading, T!about, T!wvars, WriterStays
<1>2. PICK n \in 1 .. MaxPiece :
           /\ n <= remaining /\ T!Bytes(n)
           /\ IF T!Over(n) THEN T!Ends("tooLarge") /\ UNCHANGED got /\ T!Take(n)
              ELSE /\ T!Gives(n)
                   /\ IF framing = "length" /\ n = remaining THEN T!Ends("ok")
                      ELSE UNCHANGED <<reader, verdict>>
           /\ remaining' = remaining - n
  BY DEF T!ReadBytes
<1>3. n \in Nat \ {0}
  BY DEF ContentAssumption, T!TransferAssumption
<1>4. /\ framing \in {"length", "chunked"} /\ remaining \in Nat /\ wire \in Seq(Units)
      /\ framing = "length" => remaining + Len(got) = length
      /\ got \in Seq(Nat) /\ Len(got) \in Nat /\ trailers \subseteq sent \cap Allowed
      /\ provided \in Nat
  BY <1>1, ReaderKnows
<1>5. /\ n \in 0 .. Len(wire) /\ Len(got) + n <= provided
      /\ \A i \in 1 .. n : wire[i] = T!Byte(Len(got) + i)
      /\ \A k \in Nat : Path(Counting(provided, finished, sent), Nat, wire, Len(got), k)
            => Path(Counting(provided, finished, sent), Nat,
                    SubSeq(wire, n + 1, Len(wire)), Len(got) + n, k)
  BY <1>1, <1>2, <1>3, BytesLead
<1>6. remaining' \in Nat /\ remaining' = remaining - n
  BY <1>2, <1>3, <1>4
<1>7. SubSeq(wire, n + 1, Len(wire)) \in Seq(Units)
  BY <1>4, <1>5, CutInTwo
<1>8. ReaderPlace /\ VerdictPlace /\ TransferTypes
  BY DEF TransferInv
<1>9. CASE T!Over(n)
  <2>1. verdict' = "tooLarge" /\ reader' = "done" /\ got' = got /\ wire' = SubSeq(wire, n + 1, Len(wire))
    BY <1>2, <1>9 DEF T!Ends, T!Take
  <2>2. provided > limit
    BY <1>3, <1>4, <1>5, <1>8, <1>9 DEF T!Over, TransferTypes
  <2>3. ReaderPlace'
    BY <1>1, <1>8, <2>1 DEF ReaderPlace, WriterStays
  <2>4. VerdictPlace'
    BY <1>1, <2>1, <2>2 DEF VerdictPlace, WriterStays
  <2> QED
    BY <1>1, <1>4, <1>6, <1>7, <2>1, <2>3, <2>4, ReadEnds
<1>10. CASE ~T!Over(n)
  <2>1. /\ got' \in Seq(Nat) /\ Len(got') = Len(got) + n /\ \A i \in 1 .. Len(got') : got'[i] = i
        /\ wire' = SubSeq(wire, n + 1, Len(wire))
    BY <1>1, <1>2, <1>3, <1>10, GivesNext
  <2>2. Len(got') <= limit
    BY <1>3, <1>4, <1>8, <1>10, <2>1 DEF T!Over, TransferTypes
  <2>3. CASE framing = "length" /\ n = remaining
    <3>1. verdict' = "ok" /\ reader' = "done"
      BY <1>2, <1>10, <2>3 DEF T!Ends
    <3>2. ReaderPlace'
      BY <1>1, <2>1, <2>2, <3>1 DEF ReaderPlace, WriterStays
    <3>3. Len(got') = length
      BY <1>3, <1>4, <2>1, <2>3
    <3>4. VerdictPlace'
      BY <1>1, <2>3, <3>1, <3>3 DEF VerdictPlace, WriterStays
    <3> QED
      BY <1>1, <1>4, <1>6, <1>7, <2>1, <3>1, <3>2, <3>4, ReadEnds
  <2>4. CASE ~(framing = "length" /\ n = remaining)
    <3>1. verdict' = "reading" /\ reader' = "data"
      BY <1>1, <1>2, <1>10, <2>4
    <3>2. framing = "length" => remaining' > 0 /\ remaining' + Len(got') = length
      BY <1>2, <1>3, <1>4, <1>6, <2>1, <2>4
    <3>3. ReaderPlace'
      BY <1>1, <1>4, <2>1, <2>2, <3>1, <3>2 DEF ReaderPlace, WriterStays
    <3>4. ASSUME NEW had \in SUBSET Trailers, NEW q,
                 stopped = {}, framing = "chunked", trailers = had \cap Allowed,
                 Path(Chunking(sent), Places, wire, <<reader, remaining, Len(got), had>>, q)
          PROVE  \E more \in SUBSET Trailers :
                      /\ trailers' = more \cap Allowed
                      /\ Path(Chunking(sent), Places, wire', <<reader', remaining', Len(got'), more>>, q)
      <4>1. Path(Chunking(sent), Places, wire, <<"data", remaining, Len(got), had>>, q)
        BY <1>1, <3>4
      <4>2. Path(Chunking(sent), Places, SubSeq(wire, n + 1, Len(wire)),
                 <<"data", remaining - n, Len(got) + n, had>>, q)
        BY <1>2, <1>4, <1>5, <4>1, BytesLeadChunks
      <4> QED
        BY <1>1, <1>6, <2>1, <3>1, <3>4, <4>2
    <3>5. \A k \in Nat :
             Path(Counting(provided, finished, sent), Nat, wire, Len(got), k)
             => Path(Counting(provided, finished, sent), Nat, wire', Len(got'), k)
      BY <1>5, <2>1
    <3> QED
      BY <1>1, <1>4, <1>5, <1>6, <2>1, <3>1, <3>3, <3>4, <3>5, ReadOn
  <2> QED
    BY <2>3, <2>4
<1> QED
  BY <1>9, <1>10

\* Bytes of a body without framing, and its end.
LEMMA ReadUntilCloseKeeps ==
    ASSUME ContentAssumption, TransferInv, T!ReadUntilClose
    PROVE  TransferInv'
<1>1. /\ verdict = "reading" /\ reader = "close" /\ WriterStays
      /\ trailers' = trailers /\ stopped' = stopped /\ remaining' = remaining
  BY DEF T!ReadUntilClose, T!Reading, T!about, T!wvars, WriterStays
<1>2. /\ framing = "close" /\ remaining \in Nat /\ wire \in Seq(Units)
      /\ got \in Seq(Nat) /\ Len(got) \in Nat /\ trailers \subseteq sent \cap Allowed
      /\ provided \in Nat
  BY <1>1, ReaderKnows
<1>3. ReaderPlace /\ VerdictPlace /\ TransferTypes
  BY DEF TransferInv
<1>4. CASE \E n \in 1 .. MaxPiece :
             /\ T!Bytes(n)
             /\ IF T!Over(n) THEN T!Ends("tooLarge") /\ UNCHANGED got /\ T!Take(n)
                ELSE T!Gives(n) /\ UNCHANGED <<reader, verdict>>
  <2>1. PICK n \in 1 .. MaxPiece :
             /\ T!Bytes(n)
             /\ IF T!Over(n) THEN T!Ends("tooLarge") /\ UNCHANGED got /\ T!Take(n)
                ELSE T!Gives(n) /\ UNCHANGED <<reader, verdict>>
    BY <1>4
  <2>2. n \in Nat \ {0}
    BY DEF ContentAssumption, T!TransferAssumption
  <2>3. /\ n \in 0 .. Len(wire) /\ Len(got) + n <= provided
        /\ \A k \in Nat : Path(Counting(provided, finished, sent), Nat, wire, Len(got), k)
              => Path(Counting(provided, finished, sent), Nat,
                      SubSeq(wire, n + 1, Len(wire)), Len(got) + n, k)
    BY <1>1, <2>1, <2>2, BytesLead
  <2>4. SubSeq(wire, n + 1, Len(wire)) \in Seq(Units)
    BY <1>2, <2>3, CutInTwo
  <2>5. CASE T!Over(n)
    <3>1. verdict' = "tooLarge" /\ reader' = "done" /\ got' = got /\ wire' = SubSeq(wire, n + 1, Len(wire))
      BY <2>1, <2>5 DEF T!Ends, T!Take
    <3>2. provided > limit
      BY <1>2, <1>3, <2>2, <2>3, <2>5 DEF T!Over, TransferTypes
    <3>3. ReaderPlace'
      BY <1>1, <1>3, <3>1 DEF ReaderPlace, WriterStays
    <3>4. VerdictPlace'
      BY <1>1, <3>1, <3>2 DEF VerdictPlace, WriterStays
    <3> QED
      BY <1>1, <1>2, <2>4, <3>1, <3>3, <3>4, ReadEnds
  <2>6. CASE ~T!Over(n)
    <3>1. /\ got' \in Seq(Nat) /\ Len(got') = Len(got) + n /\ \A i \in 1 .. Len(got') : got'[i] = i
          /\ wire' = SubSeq(wire, n + 1, Len(wire)) /\ verdict' = "reading" /\ reader' = "close"
      BY <1>1, <2>1, <2>2, <2>6, GivesNext
    <3>2. Len(got') <= limit
      BY <1>2, <1>3, <2>2, <2>6, <3>1 DEF T!Over, TransferTypes
    <3>3. ReaderPlace'
      BY <1>1, <1>2, <3>1, <3>2 DEF ReaderPlace, WriterStays
    <3>4. \A k \in Nat :
             Path(Counting(provided, finished, sent), Nat, wire, Len(got), k)
             => Path(Counting(provided, finished, sent), Nat, wire', Len(got'), k)
      BY <2>3, <3>1
    <3> QED
      BY <1>1, <1>2, <2>3, <3>1, <3>3, <3>4, ReadOn
  <2> QED
    BY <2>5, <2>6
<1>5. CASE T!NoByte /\ T!Ends(IF eof = "eof" THEN "ok" ELSE "error") /\ UNCHANGED <<got, wire>>
  <2>1. /\ verdict' = (IF eof = "eof" THEN "ok" ELSE "error") /\ reader' = "done"
        /\ got' = got /\ wire' = wire
    BY <1>5 DEF T!Ends
  <2>2. ReaderPlace'
    BY <1>1, <1>3, <2>1 DEF ReaderPlace, WriterStays
  <2>3. stopped = {} => verdict' = "ok"
    <3> SUFFICES ASSUME stopped = {} PROVE eof = "eof"
      BY <2>1
    <3>1. eof # "no" \/ writer # "writing"
      BY <1>5 DEF T!NoByte
    <3> QED
      BY <1>2, <3>1, NothingFailed
  <2>4. VerdictPlace'
    BY <1>1, <1>2, <2>1, <2>3 DEF VerdictPlace, WriterStays
  <2> QED
    BY <1>1, <1>2, <2>1, <2>2, <2>4, ReadEnds
<1> QED
  BY <1>4, <1>5 DEF T!ReadUntilClose

\* A line, up to its end or that of the connection, leaves the count as it is.
LEMMA LineCounts ==
    ASSUME TransferInv, verdict = "reading", wire # <<>>, wire[1][1] # "byte", T!LineAt(1) > 0
    PROVE  /\ T!LineAt(1) \in {1, 2} /\ T!LineAt(1) \in 0 .. Len(wire)
           /\ T!LineAt(1) = 1 => eof = "eof"
           /\ T!LineAt(1) = 2 => Len(wire) >= 2 /\ wire[2] = T!Eol
           /\ Head(wire) = wire[1] /\ wire[1] \in Units /\ Len(wire) >= 1
           /\ wire[1] = T!Size(0) => finished /\ Len(got) = provided
           /\ wire[1][1] = "trailer" => wire[1][2] \in sent
           /\ \A k \in Nat : Path(Counting(provided, finished, sent), Nat, wire, Len(got), k)
                 => Path(Counting(provided, finished, sent), Nat,
                         SubSeq(wire, T!LineAt(1) + 1, Len(wire)), Len(got), k)
<1>1. wire \in Seq(Units) /\ Len(got) \in Nat /\ BytesFollow
  BY ReaderKnows DEF TransferInv
<1>2. Len(wire) \in Nat /\ Len(wire) >= 1 /\ Head(wire) = wire[1] /\ wire[1] \in Units
  BY <1>1
<1> DEFINE m == T!LineAt(1)
<1>3. /\ m \in {1, 2} /\ m \in 0 .. Len(wire) /\ (m = 1 => eof = "eof")
      /\ m = 2 => Len(wire) >= 2 /\ wire[2] = T!Eol
  <2>1. CASE Len(wire) > 1 /\ wire[2] = T!Eol
    <3>1. m = 2
      BY <2>1 DEF T!LineAt
    <3> QED
      BY <1>2, <2>1, <3>1
  <2>2. CASE ~(Len(wire) > 1 /\ wire[2] = T!Eol) /\ Len(wire) = 1 /\ eof = "eof"
    <3>1. m = 1
      BY <2>2 DEF T!LineAt
    <3> QED
      BY <1>2, <2>2, <3>1
  <2>3. CASE ~(Len(wire) > 1 /\ wire[2] = T!Eol) /\ ~(Len(wire) = 1 /\ eof = "eof")
    <3>1. m = 0
      BY <2>3 DEF T!LineAt
    <3> QED
      BY <3>1
  <2> QED
    BY <2>1, <2>2, <2>3
<1> HIDE DEF m
<1> DEFINE rel == Counting(provided, finished, sent)
<1>4. \A s \in Nat : <<Len(got), wire[1], s>> \in rel => s = Len(got)
  BY Counted DEF Counts
<1>5. <<Len(got), wire[1], Len(got)>> \in rel
      => /\ wire[1] = T!Size(0) => finished /\ Len(got) = provided
         /\ wire[1][1] = "trailer" => wire[1][2] \in sent
  BY Counted DEF Counts
<1>6. wire[2] = T!Eol => \A s \in Nat : <<Len(got), wire[2], s>> \in rel => s = Len(got)
  <2>1. T!Eol[1] # "byte"
    BY DEF T!Eol
  <2> QED
    BY <2>1, Counted DEF Counts
<1> HIDE DEF rel
<1>7. ASSUME NEW k \in Nat, Path(rel, Nat, wire, Len(got), k)
      PROVE  /\ <<Len(got), wire[1], Len(got)>> \in rel
             /\ Path(rel, Nat, SubSeq(wire, m + 1, Len(wire)), Len(got), k)
  <2>1. CASE m = 1
    <3>1. m + 1 = 2
      BY <2>1
    <3> QED
      BY <1>1, <1>2, <1>4, <1>7, <3>1, PathFirst
  <2>2. CASE m = 2
    <3>1. m + 1 = 3 /\ Len(wire) >= 2
      BY <1>3, <2>2
    <3>2. \A s \in Nat : <<Len(got), wire[2], s>> \in rel => s = Len(got)
      BY <1>3, <1>6, <2>2
    <3>3. /\ <<Len(got), wire[1], Len(got)>> \in rel
          /\ Path(rel, Nat, SubSeq(wire, 3, Len(wire)), Len(got), k)
      BY <1>1, <1>4, <1>7, <3>1, <3>2, PathTwo
    <3> QED
      BY <3>1, <3>3
  <2> QED
    BY <1>3, <2>1, <2>2
<1>8. PICK k \in Nat : Path(rel, Nat, wire, Len(got), k)
  BY <1>1 DEF BytesFollow, rel
<1> QED
  BY <1>2, <1>3, <1>5, <1>7, <1>8 DEF rel, m

\* The size of a chunk.
LEMMA ReadSizeKeeps ==
    ASSUME TransferInv, T!ReadSize
    PROVE  TransferInv'
<1>1. /\ verdict = "reading" /\ verdict' = "reading" /\ reader = "size" /\ WriterStays
      /\ trailers' = trailers /\ stopped' = stopped /\ got' = got
      /\ wire # <<>> /\ Head(wire)[1] = "size" /\ T!LineAt(1) > 0
      /\ reader' = (IF Head(wire)[2] = 0 THEN "trailers" ELSE "data")
      /\ remaining' = Head(wire)[2]
      /\ wire' = SubSeq(wire, T!LineAt(1) + 1, Len(wire))
  BY DEF T!ReadSize, T!Reading, T!about, T!wvars, T!Take, WriterStays
<1>2. /\ framing = "chunked" /\ wire \in Seq(Units) /\ remaining \in Nat
      /\ got \in Seq(Nat) /\ Len(got) \in Nat /\ trailers \subseteq sent \cap Allowed
  BY <1>1, ReaderKnows
<1>3. Head(wire) = wire[1]
  BY <1>1, <1>2
<1>4. wire[1][1] # "byte"
  BY <1>1, <1>3
<1> DEFINE m == T!LineAt(1)
           n == wire[1][2]
<1>5. /\ m \in {1, 2} /\ m \in 0 .. Len(wire) /\ (m = 1 => eof = "eof")
      /\ m = 2 => Len(wire) >= 2 /\ wire[2] = T!Eol
      /\ wire[1] \in Units /\ Len(wire) >= 1
      /\ wire[1] = T!Size(0) => finished /\ Len(got) = provided
      /\ \A k \in Nat : Path(Counting(provided, finished, sent), Nat, wire, Len(got), k)
            => Path(Counting(provided, finished, sent), Nat,
                    SubSeq(wire, m + 1, Len(wire)), Len(got), k)
  BY <1>1, <1>4, LineCounts
<1> HIDE DEF m
<1>6. n \in Nat /\ wire[1] = T!Size(n)
  BY <1>1, <1>3, <1>5, UnitIs
<1> HIDE DEF n
<1>7. remaining' = n /\ reader' = (IF n = 0 THEN "trailers" ELSE "data")
  BY <1>1, <1>3 DEF n
<1>8. ReaderPlace'
  <2>1. n = 0 => finished /\ Len(got) = provided
    BY <1>5, <1>6
  <2>2. ReaderPlace
    BY DEF TransferInv
  <2> QED
    BY <1>1, <1>2, <1>7, <2>1, <2>2 DEF ReaderPlace, WriterStays
<1>9. ASSUME NEW had \in SUBSET Trailers, NEW q,
             stopped = {}, framing = "chunked", trailers = had \cap Allowed,
             Path(Chunking(sent), Places, wire, <<reader, remaining, Len(got), had>>, q)
      PROVE  \E more \in SUBSET Trailers :
                  /\ trailers' = more \cap Allowed
                  /\ Path(Chunking(sent), Places, wire', <<reader', remaining', Len(got'), more>>, q)
  <2>1. m = 2
    BY <1>2, <1>5, <1>9, NothingFailed
  <2> DEFINE a == <<"size", remaining, Len(got), had>>
             b == IF n = 0 THEN <<"last", 0, Len(got), had>> ELSE <<"sized", n, Len(got), had>>
             d == IF n = 0 THEN <<"trailers", 0, Len(got), had>> ELSE <<"data", n, Len(got), had>>
  <2>2. ASSUME NEW s \in Places, <<a, wire[1], s>> \in Chunking(sent) PROVE s = b
    <3>1. Chunks(sent, a, wire[1], s)
      BY <2>2, Chunked
    <3>2. wire[1][1] = "size" /\ wire[1][2] = n
      BY <1>6 DEF T!Size
    <3>3. n > 0 => wire[1] # T!Size(0)
      BY <1>6 DEF T!Size
    <3> QED
      BY <1>6, <3>1, <3>2, <3>3 DEF Chunks
  <2>3. ASSUME NEW s \in Places, <<b, wire[2], s>> \in Chunking(sent) PROVE s = d
    <3>1. Chunks(sent, b, wire[2], s)
      BY <2>3, Chunked
    <3>2. wire[2] = T!Eol /\ T!Eol[1] = "eol"
      BY <1>5, <2>1 DEF T!Eol
    <3>3. CASE n = 0
      <4>1. Chunks(sent, <<"last", 0, Len(got), had>>, T!Eol, s)
        BY <3>1, <3>2, <3>3
      <4>2. s = <<"trailers", 0, Len(got), had>>
        BY <4>1 DEF Chunks
      <4> QED
        BY <3>3, <4>2
    <3>4. CASE n # 0
      <4>1. Chunks(sent, <<"sized", n, Len(got), had>>, T!Eol, s)
        BY <3>1, <3>2, <3>4
      <4>2. s = <<"data", n, Len(got), had>>
        BY <4>1 DEF Chunks
      <4> QED
        BY <3>4, <4>2
    <3> QED
      BY <3>3, <3>4
  <2>4. Path(Chunking(sent), Places, wire, a, q)
    BY <1>1, <1>9
  <2> HIDE DEF a, b, d
  <2>5. Path(Chunking(sent), Places, SubSeq(wire, 3, Len(wire)), d, q)
    <3>1. Len(wire) >= 2 /\ wire \in Seq(Units)
      BY <1>2, <1>5, <2>1
    <3> QED
      BY <2>2, <2>3, <2>4, <3>1, PathTwo
  <2>6. wire' = SubSeq(wire, 3, Len(wire))
    BY <1>1, <2>1 DEF m
  <2>7. d = <<reader', remaining', Len(got'), had>>
    BY <1>1, <1>7 DEF d
  <2> QED
    BY <1>1, <1>9, <2>5, <2>6, <2>7
<1>10. wire' = SubSeq(wire, m + 1, Len(wire))
  BY <1>1 DEF m
<1>11. /\ remaining' \in Nat /\ reader' \in {"size", "data", "trailers", "close"}
       /\ got' \in Seq(Nat) /\ trailers' \subseteq sent \cap Allowed
  BY <1>1, <1>2, <1>6, <1>7
<1>12. \A k \in Nat : Path(Counting(provided, finished, sent), Nat, wire, Len(got), k)
         => Path(Counting(provided, finished, sent), Nat, wire', Len(got'), k)
  BY <1>1, <1>5, <1>10
<1> QED
  BY <1>1, <1>5, <1>8, <1>9, <1>10, <1>11, <1>12, ReadOn

\* The end of a line, alone, leaves the count as it is.
LEMMA EolCounts ==
    ASSUME TransferInv, verdict = "reading", wire # <<>>, Head(wire) = T!Eol
    PROVE  /\ wire[1] = T!Eol /\ 1 \in 0 .. Len(wire) /\ Len(wire) >= 1
           /\ \A k \in Nat : Path(Counting(provided, finished, sent), Nat, wire, Len(got), k)
                 => Path(Counting(provided, finished, sent), Nat,
                         SubSeq(wire, 2, Len(wire)), Len(got), k)
<1>1. wire \in Seq(Units) /\ Len(got) \in Nat
  BY ReaderKnows
<1>2. wire[1] = T!Eol /\ 1 \in 0 .. Len(wire) /\ Len(wire) >= 1
  BY <1>1
<1>3. \A s \in Nat : <<Len(got), wire[1], s>> \in Counting(provided, finished, sent) => s = Len(got)
  <2>1. T!Eol[1] # "byte"
    BY DEF T!Eol
  <2> QED
    BY <1>2, <2>1, Counted DEF Counts
<1>4. ASSUME NEW k \in Nat, Path(Counting(provided, finished, sent), Nat, wire, Len(got), k)
      PROVE  Path(Counting(provided, finished, sent), Nat, SubSeq(wire, 2, Len(wire)), Len(got), k)
  BY <1>1, <1>2, <1>3, <1>4, PathFirst
<1> QED
  BY <1>2, <1>4

\* The line end after a chunk.
LEMMA ChunkEndsKeeps ==
    ASSUME TransferInv, T!ChunkEnds
    PROVE  TransferInv'
<1>1. /\ verdict = "reading" /\ verdict' = "reading" /\ reader = "data" /\ remaining = 0
      /\ framing = "chunked" /\ WriterStays
      /\ trailers' = trailers /\ stopped' = stopped /\ got' = got
      /\ wire # <<>> /\ Head(wire) = T!Eol
      /\ reader' = "size" /\ remaining' = remaining
      /\ wire' = SubSeq(wire, 1 + 1, Len(wire))
  BY DEF T!ChunkEnds, T!Reading, T!about, T!wvars, T!Take, WriterStays
<1>2. /\ wire \in Seq(Units) /\ got \in Seq(Nat) /\ Len(got) \in Nat
      /\ trailers \subseteq sent \cap Allowed
  BY <1>1, ReaderKnows
<1>3. /\ wire[1] = T!Eol /\ 1 \in 0 .. Len(wire) /\ Len(wire) >= 1
      /\ \A k \in Nat : Path(Counting(provided, finished, sent), Nat, wire, Len(got), k)
            => Path(Counting(provided, finished, sent), Nat, SubSeq(wire, 2, Len(wire)), Len(got), k)
  BY <1>1, EolCounts
<1>4. ReaderPlace'
  <2>1. ReaderPlace
    BY DEF TransferInv
  <2> QED
    BY <1>1, <2>1 DEF ReaderPlace, WriterStays
<1>5. wire' = SubSeq(wire, 2, Len(wire))
  BY <1>1
<1>6. ASSUME NEW had \in SUBSET Trailers, NEW q,
             stopped = {}, framing = "chunked", trailers = had \cap Allowed,
             Path(Chunking(sent), Places, wire, <<reader, remaining, Len(got), had>>, q)
      PROVE  \E more \in SUBSET Trailers :
                  /\ trailers' = more \cap Allowed
                  /\ Path(Chunking(sent), Places, wire', <<reader', remaining', Len(got'), more>>, q)
  <2> DEFINE a == <<"data", 0, Len(got), had>>
             b == <<"size", 0, Len(got), had>>
  <2>1. ASSUME NEW s \in Places, <<a, wire[1], s>> \in Chunking(sent) PROVE s = b
    <3>1. Chunks(sent, a, T!Eol, s)
      BY <1>3, <2>1, Chunked
    <3> QED
      BY <3>1 DEF Chunks
  <2>2. Path(Chunking(sent), Places, wire, a, q)
    BY <1>1, <1>6
  <2> HIDE DEF a, b
  <2>3. Path(Chunking(sent), Places, SubSeq(wire, 2, Len(wire)), b, q)
    BY <1>2, <1>3, <2>1, <2>2, PathFirst
  <2>4. b = <<reader', remaining', Len(got'), had>>
    BY <1>1 DEF b
  <2> QED
    BY <1>1, <1>5, <1>6, <2>3, <2>4
<1>7. \A k \in Nat : Path(Counting(provided, finished, sent), Nat, wire, Len(got), k)
         => Path(Counting(provided, finished, sent), Nat, wire', Len(got'), k)
  BY <1>1, <1>3, <1>5
<1>8. /\ remaining' \in Nat /\ reader' \in {"size", "data", "trailers", "close"}
      /\ got' \in Seq(Nat) /\ trailers' \subseteq sent \cap Allowed
  BY <1>1, <1>2
<1> QED
  BY <1>1, <1>3, <1>4, <1>6, <1>7, <1>8, ReadOn

\* A trailer, when nothing has failed, is one that was sent and not had before.
LEMMA TrailerIsNew ==
    ASSUME NEW names, NEW had, NEW left, NEW k, NEW s, NEW u,
           u[1] = "trailer",
           << <<"trailers", left, k, had>>, u, s>> \in Chunking(names)
    PROVE  u[2] \in names \ had /\ s = <<"trailer", 0, k, had \cup {u[2]}>>
<1>1. Chunks(names, <<"trailers", left, k, had>>, u, s)
  BY Chunked
<1>2. u # T!Eol
  BY DEF T!Eol
<1> QED
  BY <1>1, <1>2 DEF Chunks

\* A trailer.
LEMMA ReadTrailerKeeps ==
    ASSUME ContentAssumption, TransferInv, T!ReadTrailer
    PROVE  TransferInv'
<1> DEFINE m == T!LineAt(1)
           t == wire[1][2]
<1>1. /\ verdict = "reading" /\ reader = "trailers" /\ WriterStays
      /\ stopped' = stopped /\ got' = got /\ remaining' = remaining
      /\ wire # <<>> /\ Head(wire)[1] = "trailer" /\ T!LineAt(1) > 0
      /\ wire' = SubSeq(wire, T!LineAt(1) + 1, Len(wire))
      /\ IF Cardinality(trailers) >= MaxTrailers
         THEN verdict' = "error" /\ reader' = "done" /\ trailers' = trailers
         ELSE /\ trailers' = trailers \cup ({Head(wire)[2]} \cap Allowed)
              /\ reader' = reader /\ verdict' = verdict
  BY SameCardinality
     DEF T!ReadTrailer, T!Reading, T!about, T!wvars, T!Take, T!Ends, WriterStays, Allowed
<1>2. /\ framing = "chunked" /\ wire \in Seq(Units) /\ remaining \in Nat
      /\ got \in Seq(Nat) /\ Len(got) \in Nat /\ trailers \subseteq sent \cap Allowed
      /\ finished /\ Len(got) = provided /\ remaining = 0 /\ sent \subseteq Trailers
  BY <1>1, ReaderKnows
<1>3. Head(wire) = wire[1] /\ Head(wire)[2] = t
  BY <1>1, <1>2
<1>4. wire[1][1] # "byte" /\ wire[1][1] = "trailer"
  BY <1>1, <1>3
<1>5. /\ m \in {1, 2} /\ m \in 0 .. Len(wire) /\ (m = 1 => eof = "eof")
      /\ m = 2 => Len(wire) >= 2 /\ wire[2] = T!Eol
      /\ wire[1] \in Units /\ Len(wire) >= 1 /\ t \in sent
      /\ \A k \in Nat : Path(Counting(provided, finished, sent), Nat, wire, Len(got), k)
            => Path(Counting(provided, finished, sent), Nat,
                    SubSeq(wire, m + 1, Len(wire)), Len(got), k)
  BY <1>1, <1>4, LineCounts
<1> HIDE DEF m, t
<1>6. wire' = SubSeq(wire, m + 1, Len(wire))
  BY <1>1 DEF m
<1>7. ReaderPlace
  BY DEF TransferInv
<1>8. ASSUME NEW had \in SUBSET Trailers, NEW q, stopped = {},
             Path(Chunking(sent), Places, wire, <<reader, remaining, Len(got), had>>, q)
      PROVE  /\ t \in sent \ had
             /\ Path(Chunking(sent), Places, wire', <<"trailers", 0, Len(got), had \cup {t}>>, q)
  <2>1. m = 2
    BY <1>2, <1>5, <1>8, NothingFailed
  <2> DEFINE a == <<"trailers", remaining, Len(got), had>>
             b == <<"trailer", 0, Len(got), had \cup {t}>>
             d == <<"trailers", 0, Len(got), had \cup {t}>>
  <2>2. ASSUME NEW s, <<a, wire[1], s>> \in Chunking(sent) PROVE t \in sent \ had /\ s = b
    BY <1>4, <2>2, TrailerIsNew DEF t
  <2>3. ASSUME NEW s \in Places, <<b, wire[2], s>> \in Chunking(sent) PROVE s = d
    <3>1. Chunks(sent, b, T!Eol, s)
      BY <1>5, <2>1, <2>3, Chunked
    <3> QED
      BY <3>1 DEF Chunks
  <2>4. Path(Chunking(sent), Places, wire, a, q)
    BY <1>1, <1>8
  <2> HIDE DEF a, b, d
  <2>5. <<a, wire[1], b>> \in Chunking(sent) /\ Path(Chunking(sent), Places, SubSeq(wire, 3, Len(wire)), d, q)
    <3>1. Len(wire) >= 2 /\ wire \in Seq(Units)
      BY <1>2, <1>5, <2>1
    <3>2. \A s \in Places : <<a, wire[1], s>> \in Chunking(sent) => s = b
      BY <2>2
    <3>3. \A s \in Places : <<b, wire[2], s>> \in Chunking(sent) => s = d
      BY <2>3
    <3>4. Path(Chunking(sent), Places, SubSeq(wire, 3, Len(wire)), d, q)
      BY <2>4, <3>1, <3>2, <3>3, PathTwo
    <3>5. <<a, wire[1], b>> \in Chunking(sent)
      BY <2>4, <3>1, <3>2, PathFirst
    <3> QED
      BY <3>4, <3>5
  <2>6. wire' = SubSeq(wire, 3, Len(wire))
    BY <1>6, <2>1
  <2> QED
    BY <2>2, <2>5, <2>6 DEF d
<1>9. CASE Cardinality(trailers) >= MaxTrailers
  <2>1. verdict' = "error" /\ reader' = "done" /\ trailers' = trailers
    BY <1>1, <1>9
  <2>2. ReaderPlace'
    BY <1>1, <1>7, <2>1 DEF ReaderPlace, WriterStays
  <2>3. ASSUME stopped = {} PROVE Cardinality(sent) > MaxTrailers
    <3>1. PICK had \in SUBSET Trailers :
             /\ trailers = had \cap Allowed
             /\ Path(Chunking(sent), Places, wire, <<reader, remaining, Len(got), had>>,
                     IF finished THEN <<"end", 0, provided, sent>>
                     ELSE <<"size", 0, provided - held, {}>>)
      BY <1>1, <1>2, <2>3 DEF TransferInv, ChunksFollow
    <3>2. t \in sent \ had
      BY <1>8, <2>3, <3>1
    <3>3. IsFiniteSet(Trailers) /\ MaxTrailers \in Nat
      BY SameFinite DEF ContentAssumption, T!TransferAssumption
    <3>4. IsFiniteSet(sent) /\ IsFiniteSet(trailers) /\ t \notin trailers /\ trailers \cup {t} \subseteq sent
      BY <1>2, <3>1, <3>2, <3>3, FS_Subset
    <3>5. Cardinality(trailers \cup {t}) = Cardinality(trailers) + 1
      BY <3>4, FS_AddElement
    <3>6. Cardinality(trailers \cup {t}) <= Cardinality(sent)
      BY <3>4, FS_Subset
    <3>7. Cardinality(trailers) \in Nat /\ Cardinality(sent) \in Nat
      BY <3>4, FS_CardinalityType
    <3> QED
      BY <1>9, <3>3, <3>5, <3>6, <3>7
  <2>4. VerdictPlace'
    BY <1>1, <1>2, <2>1, <2>3 DEF VerdictPlace, WriterStays
  <2>5. wire' \in Seq(Units)
    BY <1>2, <1>5, <1>6, CutInTwo
  <2> QED
    BY <1>1, <1>2, <2>1, <2>2, <2>4, <2>5, ReadEnds
<1>10. CASE ~(Cardinality(trailers) >= MaxTrailers)
  <2>1. trailers' = trailers \cup ({t} \cap Allowed) /\ reader' = "trailers" /\ verdict' = "reading"
    BY <1>1, <1>3, <1>10
  <2>2. ReaderPlace'
    BY <1>1, <1>2, <1>7, <2>1 DEF ReaderPlace, WriterStays
  <2>3. trailers' \subseteq sent \cap Allowed
    BY <1>2, <1>5, <2>1
  <2>4. ASSUME NEW had \in SUBSET Trailers, NEW q,
               stopped = {}, framing = "chunked", trailers = had \cap Allowed,
               Path(Chunking(sent), Places, wire, <<reader, remaining, Len(got), had>>, q)
        PROVE  \E more \in SUBSET Trailers :
                    /\ trailers' = more \cap Allowed
                    /\ Path(Chunking(sent), Places, wire', <<reader', remaining', Len(got'), more>>, q)
    <3>1. t \in sent /\ Path(Chunking(sent), Places, wire', <<"trailers", 0, Len(got), had \cup {t}>>, q)
      BY <1>8, <2>4
    <3>2. (had \cup {t}) \in SUBSET Trailers /\ trailers' = (had \cup {t}) \cap Allowed
      BY <1>2, <2>1, <2>4, <3>1
    <3>3. remaining' = 0
      BY <1>1, <1>2
    <3> QED
      BY <1>1, <2>1, <3>1, <3>2, <3>3
  <2>5. \A k \in Nat : Path(Counting(provided, finished, sent), Nat, wire, Len(got), k)
           => Path(Counting(provided, finished, sent), Nat, wire', Len(got'), k)
    BY <1>1, <1>5, <1>6
  <2> QED
    BY <1>1, <1>2, <1>5, <1>6, <2>1, <2>2, <2>3, <2>4, <2>5, ReadOn
<1> QED
  BY <1>9, <1>10

\* The empty line after the trailers.
LEMMA TrailersEndKeeps ==
    ASSUME TransferInv, T!TrailersEnd
    PROVE  TransferInv'
<1>1. /\ verdict = "reading" /\ verdict' = "ok" /\ reader = "trailers" /\ reader' = "done"
      /\ WriterStays /\ trailers' = trailers /\ stopped' = stopped /\ got' = got
      /\ remaining' = remaining /\ wire # <<>> /\ Head(wire) = T!Eol
      /\ wire' = SubSeq(wire, 1 + 1, Len(wire))
  BY DEF T!TrailersEnd, T!Reading, T!about, T!wvars, T!Take, T!Ends, WriterStays
<1>2. /\ framing = "chunked" /\ wire \in Seq(Units) /\ remaining \in Nat
      /\ got \in Seq(Nat) /\ Len(got) \in Nat /\ trailers \subseteq sent \cap Allowed
      /\ finished /\ Len(got) = provided
  BY <1>1, ReaderKnows
<1>3. wire[1] = T!Eol /\ 1 \in 0 .. Len(wire) /\ Len(wire) >= 1
  BY <1>1, EolCounts
<1>4. wire' \in Seq(Units)
  BY <1>1, <1>2, <1>3, CutInTwo
<1>5. ReaderPlace'
  <2>1. ReaderPlace
    BY DEF TransferInv
  <2> QED
    BY <1>1, <2>1 DEF ReaderPlace, WriterStays
<1>6. ASSUME stopped = {} PROVE trailers = sent \cap Allowed
  <2>1. PICK had \in SUBSET Trailers :
           /\ trailers = had \cap Allowed
           /\ Path(Chunking(sent), Places, wire, <<reader, remaining, Len(got), had>>,
                   IF finished THEN <<"end", 0, provided, sent>>
                   ELSE <<"size", 0, provided - held, {}>>)
    BY <1>1, <1>2, <1>6 DEF TransferInv, ChunksFollow
  <2> DEFINE a == <<"trailers", remaining, Len(got), had>>
             b == <<"end", 0, Len(got), had>>
             c == <<"end", 0, provided, sent>>
  <2>2. Path(Chunking(sent), Places, wire, a, c)
    BY <1>1, <1>2, <2>1
  <2>3. ASSUME NEW s \in Places, <<a, wire[1], s>> \in Chunking(sent) PROVE s = b
    <3>1. Chunks(sent, a, T!Eol, s)
      BY <1>3, <2>3, Chunked
    <3>2. T!Eol[1] # "trailer"
      BY DEF T!Eol
    <3> QED
      BY <3>1, <3>2 DEF Chunks
  <2>4. ASSUME NEW u, NEW s PROVE <<b, u, s>> \notin Chunking(sent)
    <3>1. ~Chunks(sent, b, u, s)
      BY DEF Chunks
    <3> HIDE DEF b
    <3> QED
      BY <3>1, Chunked
  <2> HIDE DEF a, b, c
  <2>5. Path(Chunking(sent), Places, SubSeq(wire, 2, Len(wire)), b, c)
    BY <1>2, <1>3, <2>2, <2>3, PathFirst
  <2>6. SubSeq(wire, 2, Len(wire)) \in Seq(Units)
    BY <1>1, <1>4
  <2>7. c = b
    BY <2>4, <2>5, <2>6, PathStops
  <2>8. had = sent
    BY <2>7 DEF b, c
  <2> QED
    BY <2>1, <2>8
<1>7. VerdictPlace'
  BY <1>1, <1>2, <1>6 DEF VerdictPlace, WriterStays, Allowed
<1> QED
  BY <1>1, <1>2, <1>4, <1>5, <1>7, ReadEnds

\* Nothing on the wire, and nothing failed: a reader of chunks is where the
\* writer is.
LEMMA NoneLeft ==
    ASSUME TransferInv, verdict = "reading", stopped = {}, wire = <<>>
    PROVE  /\ framing = "chunked" => ~finished /\ reader = "size"
           /\ Len(got) = provided - held
<1>1. /\ framing \in {"length", "chunked", "close"} /\ remaining \in Nat /\ Len(got) \in Nat
      /\ framing = "chunked" => reader \in {"size", "data", "trailers"}
  BY ReaderKnows
<1>2. Len(got) = provided - held
  BY <1>1, PathNone DEF TransferInv, BytesFollow
<1>3. ASSUME framing = "chunked" PROVE ~finished /\ reader = "size"
  <2>1. PICK had \in SUBSET Trailers :
           Path(Chunking(sent), Places, <<>>, <<reader, remaining, Len(got), had>>,
                IF finished THEN <<"end", 0, provided, sent>>
                ELSE <<"size", 0, provided - held, {}>>)
    BY <1>3 DEF TransferInv, ChunksFollow
  <2>2. <<reader, remaining, Len(got), had>> \in Places
    BY <1>1, <1>3 DEF Places
  <2>3. (IF finished THEN <<"end", 0, provided, sent>> ELSE <<"size", 0, provided - held, {}>>)
        = <<reader, remaining, Len(got), had>>
    BY <2>1, <2>2, PathNone
  <2>4. reader # "end"
    BY <1>1, <1>3
  <2> QED
    BY <2>3, <2>4
<1> QED
  BY <1>2, <1>3

\* No byte where one is due.
LEMMA DataEndsKeeps ==
    ASSUME TransferInv, T!DataEnds
    PROVE  TransferInv'
<1>1. /\ verdict = "reading" /\ verdict' = "error" /\ reader = "data" /\ reader' = "done"
      /\ WriterStays /\ trailers' = trailers /\ stopped' = stopped /\ got' = got
      /\ remaining' = remaining /\ wire' = wire /\ wire = <<>> /\ remaining > 0
      /\ eof # "no" \/ writer # "writing" \/ "cut" \in stopped
  BY DEF T!DataEnds, T!Reading, T!NoByte, T!about, T!wvars, T!Ends, WriterStays
<1>2. /\ framing \in {"length", "chunked"} /\ wire \in Seq(Units) /\ remaining \in Nat
      /\ framing = "length" => remaining + Len(got) = length /\ held = 0
      /\ got \in Seq(Nat) /\ Len(got) \in Nat /\ trailers \subseteq sent \cap Allowed
      /\ provided \in Nat
  BY <1>1, ReaderKnows
<1>3. stopped # {}
  <2> SUFFICES ASSUME stopped = {} PROVE FALSE
    OBVIOUS
  <2>1. framing = "length" /\ Len(got) = provided - held
    BY <1>1, <1>2, NoneLeft
  <2>2. provided < length
    BY <1>1, <1>2, <2>1
  <2>3. writer = "ok"
    BY <1>1, <2>1, NothingFailed
  <2>4. provided = length
    BY <2>1, <2>3 DEF TransferInv, WriterPlace
  <2>5. length \in Nat
    BY DEF TransferInv, TransferTypes
  <2> QED
    BY <1>2, <2>2, <2>4, <2>5
<1>4. ReaderPlace'
  <2>1. ReaderPlace
    BY DEF TransferInv
  <2> QED
    BY <1>1, <2>1 DEF ReaderPlace, WriterStays
<1>5. VerdictPlace'
  BY <1>1, <1>3 DEF VerdictPlace, WriterStays
<1> QED
  BY <1>1, <1>2, <1>4, <1>5, ReadEnds

\* No line where one is due.
LEMMA LineFailsKeeps ==
    ASSUME TransferInv, T!LineFails
    PROVE  TransferInv'
<1>1. /\ verdict = "reading" /\ verdict' = "error" /\ reader' = "done"
      /\ WriterStays /\ trailers' = trailers /\ stopped' = stopped /\ got' = got
      /\ remaining' = remaining /\ wire' = wire
      /\ reader \in {"size", "trailers"} \/ (reader = "data" /\ remaining = 0)
      /\ \/ wire = <<>> /\ (eof # "no" \/ writer # "writing" \/ "cut" \in stopped)
         \/ /\ reader = "size" /\ wire # <<>>
            /\ Head(wire)[1] # "size" \/ (Len(wire) = 1 /\ eof = "error")
         \/ eof = "error"
  BY DEF T!LineFails, T!Reading, T!NoByte, T!about, T!wvars, T!Ends, WriterStays
<1>2. /\ framing = "chunked" /\ wire \in Seq(Units) /\ remaining \in Nat
      /\ got \in Seq(Nat) /\ Len(got) \in Nat /\ trailers \subseteq sent \cap Allowed
  BY <1>1, ReaderKnows
<1>3. ASSUME stopped = {} PROVE writer = "ok" /\ ~finished
  <2>1. writer \in {"writing", "ok"} /\ eof = "no"
    BY <1>2, <1>3, NothingFailed
  <2>2. CASE wire = <<>> /\ (eof # "no" \/ writer # "writing" \/ "cut" \in stopped)
    BY <1>1, <1>2, <1>3, <2>1, <2>2, NoneLeft
  <2>3. CASE reader = "size" /\ wire # <<>> /\ Head(wire)[1] # "size"
    <3>1. PICK had \in SUBSET Trailers :
             Path(Chunking(sent), Places, wire, <<reader, remaining, Len(got), had>>,
                  IF finished THEN <<"end", 0, provided, sent>>
                  ELSE <<"size", 0, provided - held, {}>>)
      BY <1>1, <1>2, <1>3 DEF TransferInv, ChunksFollow
    <3>2. Len(wire) >= 1 /\ wire[1][1] # "size"
      BY <1>2, <2>3
    <3> DEFINE a == <<reader, remaining, Len(got), had>>
    <3>3. ASSUME NEW s \in Places PROVE <<a, wire[1], s>> \notin Chunking(sent)
      <4>1. wire[1] # T!Size(0)
        BY <3>2 DEF T!Size
      <4>2. ~Chunks(sent, a, wire[1], s)
        BY <2>3, <3>2, <4>1 DEF Chunks
      <4> HIDE DEF a
      <4> QED
        BY <4>2, Chunked
    <3> HIDE DEF a
    <3>4. <<a, wire[1], a>> \in Chunking(sent) /\ a \in Places
      BY <1>2, <3>1, <3>2, <3>3, PathFirst DEF a
    <3> QED
      BY <3>3, <3>4
  <2> QED
    BY <1>1, <2>1, <2>2, <2>3
<1>4. ReaderPlace'
  <2>1. ReaderPlace
    BY DEF TransferInv
  <2> QED
    BY <1>1, <2>1 DEF ReaderPlace, WriterStays
<1>5. VerdictPlace'
  BY <1>1, <1>2, <1>3 DEF VerdictPlace, WriterStays
<1> QED
  BY <1>1, <1>2, <1>4, <1>5, ReadEnds

\* The receiver refuses what it is given.
LEMMA RefusesKeeps ==
    ASSUME TransferInv, T!Refuses
    PROVE  TransferInv'
<1>1. /\ verdict = "reading" /\ verdict' = "error" /\ reader' = "done"
      /\ WriterStays /\ trailers' = trailers /\ stopped' = stopped \cup {"refused"}
      /\ got' = got /\ remaining' = remaining /\ wire' = wire
  BY DEF T!Refuses, T!Reading, T!about, T!wvars, T!Ends, WriterStays
<1>2. /\ wire \in Seq(Units) /\ remaining \in Nat /\ got \in Seq(Nat)
      /\ trailers \subseteq sent \cap Allowed
  BY <1>1, ReaderKnows
<1>3. ReaderPlace'
  <2>1. ReaderPlace
    BY DEF TransferInv
  <2> QED
    BY <1>1, <2>1 DEF ReaderPlace, WriterStays
<1>4. VerdictPlace'
  BY <1>1 DEF VerdictPlace, WriterStays
<1>5. stopped \subseteq stopped'
  BY <1>1
<1> QED
  BY <1>1, <1>2, <1>3, <1>4, <1>5, ReadEnds

\* The network loses the rest.
LEMMA CutKeeps ==
    ASSUME TransferInv, T!Cut
    PROVE  TransferInv'
<1>1. /\ eof = "no" /\ eof' \in {"eof", "error"}
      /\ writer' = (IF writer = "writing" THEN "failed" ELSE writer)
      /\ stopped' = stopped \cup {"cut"}
      /\ UNCHANGED <<framing, length, limit, provided, held, finished, sent,
                     reader, remaining, got, trailers, verdict>>
  BY DEF T!Cut, T!about, T!rvars
<1>2. PICK n \in 0 .. (Len(wire) - 1) : wire' = SubSeq(wire, 1, n)
  BY DEF T!Cut
<1>3. TransferTypes /\ WriterPlace /\ ReaderPlace /\ VerdictPlace /\ BytesFollow
  BY DEF TransferInv
<1>4. wire \in Seq(Units) /\ n \in 0 .. Len(wire)
  <2>1. wire \in Seq(Units)
    BY <1>3 DEF TransferTypes
  <2>2. Len(wire) \in Nat
    BY <2>1
  <2> QED
    BY <2>1, <2>2
<1>5. TransferTypes'
  <2>1. wire' \in Seq(Units)
    BY <1>2, <1>4, CutInTwo
  <2> QED
    BY <1>1, <1>3, <2>1 DEF TransferTypes, Allowed
<1>6. WriterPlace'
  BY <1>1, <1>3 DEF WriterPlace, TransferTypes
<1>7. ReaderPlace'
  BY <1>1, <1>3 DEF ReaderPlace
<1>8. VerdictPlace'
  BY <1>1, <1>3 DEF VerdictPlace, Allowed
<1>9. BytesFollow'
  <2> SUFFICES ASSUME verdict = "reading"
               PROVE  \E k \in Nat : Path(Counting(provided, finished, sent), Nat, wire', Len(got), k)
    BY <1>1 DEF BytesFollow
  <2>1. PICK k \in Nat : Path(Counting(provided, finished, sent), Nat, wire, Len(got), k)
    BY <1>3 DEF BytesFollow
  <2> QED
    BY <1>2, <1>4, <2>1, PathCut
<1>10. ChunksFollow'
  BY <1>1 DEF ChunksFollow
<1> QED
  BY <1>5, <1>6, <1>7, <1>8, <1>9, <1>10 DEF TransferInv

-----------------------------------------------------------------------------
(* The theorems about bodies                                                *)

\* It holds at first.
LEMMA InitTransfer ==
    ASSUME ContentAssumption, T!Init PROVE TransferInv
<1>1. /\ framing \in {"length", "chunked", "close"} /\ limit \in Nat /\ MaxBody \in Nat
  BY DEF T!Init, ContentAssumption, T!TransferAssumption
<1>2. length \in Nat /\ (framing # "length" => length = 0)
  BY <1>1 DEF T!Init
<1>3. /\ writer = "writing" /\ provided = 0 /\ held = 0 /\ finished = FALSE /\ sent = {}
      /\ wire = <<>> /\ eof = "no" /\ stopped = {} /\ got = <<>> /\ trailers = {}
      /\ remaining = length
  BY DEF T!Init
<1>4. /\ verdict = (IF framing = "length" /\ length = 0 THEN "ok" ELSE "reading")
      /\ framing = "length" => reader = (IF length = 0 THEN "done" ELSE "data")
      /\ framing = "chunked" => reader = "size"
      /\ framing = "close" => reader = "close"
  BY DEF T!Init
<1>5. Len(got) = 0 /\ wire \in Seq(Units) /\ got \in Seq(Nat)
  BY <1>3
<1>6. TransferTypes
  <2>1. reader \in {"size", "data", "trailers", "close", "done"} /\ verdict \in {"reading", "ok", "error", "tooLarge"}
    BY <1>1, <1>4
  <2>2. trailers \subseteq sent \cap Allowed /\ sent \subseteq Trailers /\ held \in 0 .. provided
    BY <1>3
  <2> QED
    BY <1>1, <1>2, <1>3, <1>5, <2>1, <2>2 DEF TransferTypes
<1>7. WriterPlace
  BY <1>1, <1>2, <1>3 DEF WriterPlace
<1>8. ReaderPlace
  BY <1>1, <1>2, <1>3, <1>4, <1>5 DEF ReaderPlace
<1>9. VerdictPlace
  BY <1>1, <1>2, <1>3, <1>4, <1>5 DEF VerdictPlace
<1>10. BytesFollow
  <2>1. Path(Counting(provided, finished, sent), Nat, <<>>, 0, 0)
    BY PathNone
  <2>2. provided - held = 0
    BY <1>3
  <2> QED
    BY <1>3, <1>5, <2>1, <2>2 DEF BytesFollow
<1>11. ChunksFollow
  <2>1. <<"size", 0, 0, {}>> \in Places
    BY DEF Places
  <2>2. Path(Chunking(sent), Places, <<>>, <<"size", 0, 0, {}>>, <<"size", 0, 0, {}>>)
    BY <2>1, PathNone
  <2>3. provided - held = 0 /\ {} \in SUBSET Trailers /\ trailers = {} \cap Allowed
    BY <1>3
  <2>4. framing = "chunked" => reader = "size" /\ remaining = 0 /\ Len(got) = 0
    BY <1>2, <1>3, <1>4, <1>5
  <2> QED
    BY <1>3, <2>2, <2>3, <2>4 DEF ChunksFollow
<1> QED
  BY <1>6, <1>7, <1>8, <1>9, <1>10, <1>11 DEF TransferInv

\* Every step keeps it.
LEMMA NextTransfer ==
    ASSUME ContentAssumption, TransferInv, T!Next \/ UNCHANGED transferVars
    PROVE  TransferInv'
<1>1. CASE T!WriteWithLength \/ T!WriteWithoutLength
  BY <1>1, PlainKeeps
<1>2. CASE T!WriteChunk
  BY <1>2, ChunkKeeps
<1>3. CASE T!LengthWritten \/ T!DoneWithoutLength \/ T!WriteNoChunk \/ T!GivesUp
  BY <1>3, StopKeeps
<1>4. CASE T!DoneChunked
  BY <1>4, DoneKeeps
<1>5. CASE T!Cut
  BY <1>5, CutKeeps
<1>6. CASE T!ReadBytes
  BY <1>6, ReadBytesKeeps
<1>7. CASE T!ReadUntilClose
  BY <1>7, ReadUntilCloseKeeps
<1>8. CASE T!ReadSize
  BY <1>8, ReadSizeKeeps
<1>9. CASE T!ChunkEnds
  BY <1>9, ChunkEndsKeeps
<1>10. CASE T!ReadTrailer
  BY <1>10, ReadTrailerKeeps
<1>11. CASE T!TrailersEnd
  BY <1>11, TrailersEndKeeps
<1>12. CASE T!DataEnds
  BY <1>12, DataEndsKeeps
<1>13. CASE T!LineFails
  BY <1>13, LineFailsKeeps
<1>14. CASE T!Refuses
  BY <1>14, RefusesKeeps
<1>15. CASE UNCHANGED transferVars
  <2>1. /\ framing' = framing /\ length' = length /\ limit' = limit /\ writer' = writer
        /\ provided' = provided /\ held' = held /\ finished' = finished /\ wire' = wire
        /\ eof' = eof /\ reader' = reader /\ remaining' = remaining /\ got' = got
        /\ trailers' = trailers /\ sent' = sent /\ stopped' = stopped /\ verdict' = verdict
    BY <1>15 DEF transferVars
  <2>2. TransferTypes' /\ WriterPlace' /\ ReaderPlace'
    BY <2>1 DEF TransferInv, TransferTypes, WriterPlace, ReaderPlace, Allowed
  <2>3. VerdictPlace' /\ BytesFollow' /\ ChunksFollow'
    BY <2>1 DEF TransferInv, VerdictPlace, BytesFollow, ChunksFollow, Allowed
  <2> QED
    BY <2>2, <2>3 DEF TransferInv
<1> QED
  BY <1>1, <1>2, <1>3, <1>4, <1>5, <1>6, <1>7, <1>8, <1>9, <1>10, <1>11, <1>12, <1>13, <1>14,
     <1>15 DEF T!Next, T!Write, T!Read

\* The inductive invariant holds whenever the behaviour is about a body on its
\* way (write_content, read_content).
THEOREM TransferInvariant == ContentSpec => [](part = "transfer" => TransferInv)
<1> USE ContentAssumption
<1>1. ContentInit => (part = "transfer" => TransferInv)
  BY InitTransfer DEF ContentInit
<1>2. (part = "transfer" => TransferInv) /\ [ContentNext]_contentVars
      => (part = "transfer" => TransferInv)'
  <2> SUFFICES ASSUME part = "transfer" => TransferInv, [ContentNext]_contentVars,
                      part' = "transfer"
               PROVE  TransferInv'
    OBVIOUS
  <2>1. part = "transfer"
    BY DEF ContentNext, contentVars
  <2>2. T!Next \/ UNCHANGED transferVars
    BY <2>1 DEF ContentNext, contentVars
  <2> QED
    BY <2>1, <2>2, NextTransfer
<1> QED
  BY <1>1, <1>2, PTL DEF ContentSpec

\* For every size of body, piece and limit, every framing and set of trailers,
\* wherever the connection ends and whichever write fails: a framed body that is
\* accepted is all that was written, what was written with success is read
\* without an error, within payload_max_length, and with the trailers that were
\* declared and are allowed.
\* (write_content_with_progress, write_content_chunked, read_content,
\* ChunkedDecoder, parse_trailers.)
THEOREM BodiesArriveAlways == ContentSpec => []BodiesArrive
<1>1. (part = "transfer" => TransferInv) => BodiesArrive
  <2> SUFFICES ASSUME TransferInv
               PROVE  T!NeverTruncated /\ T!SuccessIsRead /\ T!LimitKept /\ T!TrailersFiltered
    BY DEF BodiesArrive
  <2>1. TransferTypes /\ WriterPlace /\ ReaderPlace /\ VerdictPlace
    BY DEF TransferInv
  <2>2. T!NeverTruncated
    <3> SUFFICES ASSUME verdict = "ok", framing # "close"
                 PROVE  /\ got = [i \in 1 .. (IF framing = "length" THEN length ELSE provided) |-> i]
                        /\ framing = "chunked" => finished
      BY DEF T!NeverTruncated
    <3> DEFINE n == IF framing = "length" THEN length ELSE provided
    <3>1. framing = "length" \/ framing = "chunked"
      BY <2>1 DEF TransferTypes
    <3>2. Len(got) = n /\ (framing = "chunked" => finished)
      BY <2>1, <3>1 DEF VerdictPlace
    <3>3. got \in Seq(Nat) /\ \A i \in 1 .. Len(got) : got[i] = i
      BY <2>1 DEF TransferTypes, ReaderPlace
    <3> HIDE DEF n
    <3>4. got = [i \in 1 .. n |-> i]
      BY <3>2, <3>3
    <3> QED
      BY <3>2, <3>4 DEF n
  <2>3. T!SuccessIsRead
    <3>1. T!Cardinality(sent) = Cardinality(sent)
      BY SameCardinality
    <3> QED
      BY <2>1, <3>1 DEF VerdictPlace, T!SuccessIsRead
  <2>4. T!LimitKept
    BY <2>1 DEF ReaderPlace, T!LimitKept
  <2>5. T!TrailersFiltered
    BY <2>1 DEF TransferTypes, VerdictPlace, T!TrailersFiltered, Allowed
  <2> QED
    BY <2>2, <2>3, <2>4, <2>5
<1> QED
  BY TransferInvariant, <1>1, PTL

-----------------------------------------------------------------------------
(* Ranges (Content, Ranges): first what coalesce_ranges makes of a list of   *)
(* ranges, then how the list gets from the header to what is written.        *)

\* A range after range_error has resolved it: first and last position.
Spans == {r \in Int \X Int : r[1] <= r[2]}

In(r, p) == r[1] <= p /\ p <= r[2]

Covers(rs, p) == \E i \in 1 .. Len(rs) : In(rs[i], p)

Twins(rs) == \E i, j \in 1 .. Len(rs) : i # j /\ rs[i] = rs[j]

Upwards(rs) == \A i, j \in 1 .. Len(rs) : i < j => rs[i][1] <= rs[j][1]

\* Between two of them there is a position that neither contains.
Apart(rs) == \A i, j \in 1 .. Len(rs) : i < j => rs[i][2] + 1 < rs[j][1]

\* What coalesce_ranges has made of the first k of rs: the same positions, in
\* ranges that go upwards and are apart, unless two of rs are the same.  The
\* last one ends where one of rs does, which begins no earlier.
Coalesced(js, rs, k) ==
    /\ js \in Seq(Spans) /\ (k > 0 => js # <<>>)
    /\ \A p \in Int : Covers(js, p) <=> \E i \in 1 .. k : In(rs[i], p)
    /\ Upwards(js)
    /\ Apart(js) \/ Twins(rs)
    /\ js # <<>> => \E i \in 1 .. k :
                       rs[i][2] = js[Len(js)][2] /\ js[Len(js)][1] <= rs[i][1]

\* What Join does to the list: it ends with r, or its last range goes further.
Grown(js, r, ks) ==
    /\ js # <<>> => r[1] > js[Len(js)][2] + 1 \/ r = js[Len(js)]
    /\ Len(ks) = Len(js) + 1 /\ ks[Len(ks)] = r
    /\ \A i \in 1 .. Len(js) : ks[i] = js[i]

Extended(js, r, ks) ==
    /\ js # <<>> /\ r[1] <= js[Len(js)][2] + 1
    /\ Len(ks) = Len(js)
    /\ \A i \in 1 .. Len(js) - 1 : ks[i] = js[i]
    /\ ks[Len(js)][1] = js[Len(js)][1]
    /\ ks[Len(js)][2] = IF r[2] > js[Len(js)][2] THEN r[2] ELSE js[Len(js)][2]

\* Ranges are pairs of integers.
LEMMA SpanIs ==
    /\ \A r \in Spans : r[1] \in Int /\ r[2] \in Int /\ r[1] <= r[2] /\ r = <<r[1], r[2]>>
    /\ \A a, b \in Int : a <= b => <<a, b>> \in Spans
BY DEF Spans

\* Changing where one ends.
LEMMA SpanEnds ==
    ASSUME NEW r \in Spans, NEW b PROVE [r EXCEPT ![2] = b] = <<r[1], b>>
BY DEF Spans

\* Join is one or the other.
LEMMA JoinIs ==
    ASSUME NEW js \in Seq(Spans), NEW r \in Spans
    PROVE  /\ R!Join(js, r) \in Seq(Spans)
           /\ Grown(js, r, R!Join(js, r)) \/ Extended(js, r, R!Join(js, r))
<1> DEFINE n == Len(js)
           prev == js[n]
           hi == IF r[2] > prev[2] THEN r[2] ELSE prev[2]
<1>1. n \in Nat /\ DOMAIN js = 1 .. n /\ (js # <<>> => n \in 1 .. n)
  BY EmptySeq, LenProperties
<1>2. CASE js # <<>> /\ r[1] <= prev[2] + 1 /\ r # prev
  <2> DEFINE ks == [js EXCEPT ![n][2] = hi]
  <2>1. R!Join(js, r) = ks
    BY <1>2 DEF R!Join
  <2>2. prev \in Spans
    BY <1>1, <1>2, ElementOfSeq
  <2>3. [prev EXCEPT ![2] = hi] = <<prev[1], hi>> /\ <<prev[1], hi>> \in Spans
    <3>1. [prev EXCEPT ![2] = hi] = <<prev[1], hi>>
      BY <2>2, SpanEnds
    <3>2. prev[1] <= hi /\ prev[1] \in Int /\ hi \in Int
      BY <2>2, SpanIs
    <3> QED
      BY <3>1, <3>2, SpanIs
  <2>4. ks = [js EXCEPT ![n] = <<prev[1], hi>>]
    BY <2>3
  <2> HIDE DEF hi
  <2>5. /\ ks \in Seq(Spans) /\ Len(ks) = n
        /\ \A i \in 1 .. n - 1 : ks[i] = js[i]
        /\ ks[n] = <<prev[1], hi>>
    <3> DEFINE e == <<prev[1], hi>>
    <3>1. n \in 1 .. n /\ e \in Spans /\ ks = [js EXCEPT ![n] = e]
      BY <1>1, <1>2, <2>3, <2>4
    <3> HIDE DEF e, ks
    <3>2. /\ [js EXCEPT ![n] = e] \in Seq(Spans) /\ Len([js EXCEPT ![n] = e]) = n
          /\ \A i \in 1 .. n : [js EXCEPT ![n] = e][i] = IF i = n THEN e ELSE js[i]
      BY <3>1, ExceptSeq
    <3>3. \A i \in 1 .. n - 1 : i \in 1 .. n /\ i # n
      <4>1. n \in Nat
        BY <1>1
      <4> HIDE DEF n
      <4> QED
        BY <4>1
    <3> QED
      BY <3>1, <3>2, <3>3 DEF e
  <2> USE DEF hi
  <2> QED
    BY <1>2, <2>1, <2>5 DEF Extended
<1>3. CASE ~(js # <<>> /\ r[1] <= prev[2] + 1 /\ r # prev)
  <2>1. R!Join(js, r) = Append(js, r)
    BY <1>3 DEF R!Join
  <2>2. /\ Append(js, r) \in Seq(Spans) /\ Len(Append(js, r)) = n + 1
        /\ \A i \in 1 .. n : Append(js, r)[i] = js[i]
        /\ Append(js, r)[n + 1] = r
    BY AppendProperties
  <2>3. js # <<>> => prev \in Spans
    BY <1>1, ElementOfSeq
  <2>4. js # <<>> => r[1] > prev[2] + 1 \/ r = prev
    BY <1>3, <2>3 DEF Spans
  <2> QED
    BY <2>1, <2>2, <2>4 DEF Grown
<1> QED
  BY <1>2, <1>3

\* One more range, that begins no earlier than those before it.
LEMMA JoinKeeps ==
    ASSUME NEW rs \in Seq(Spans), Upwards(rs), NEW k \in 1 .. Len(rs),
           NEW js, Coalesced(js, rs, k - 1)
    PROVE  Coalesced(R!Join(js, rs[k]), rs, k)
<1> DEFINE n == Len(js)
           r == rs[k]
           ks == R!Join(js, r)
<1>1. Len(rs) \in Nat /\ \A i \in 1 .. Len(rs) : rs[i] \in Spans
  BY LenProperties, ElementOfSeq
<1>a. \A s \in Spans : s[1] \in Int /\ s[2] \in Int /\ s[1] <= s[2] /\ s = <<s[1], s[2]>>
  BY SpanIs
<1>2. js \in Seq(Spans) /\ r \in Spans /\ n \in Nat
  BY <1>1, LenProperties DEF Coalesced
<1>3. \A i \in 1 .. n : js[i] \in Spans
  BY <1>2, ElementOfSeq
<1>4. ks \in Seq(Spans) /\ (Grown(js, r, ks) \/ Extended(js, r, ks))
  BY <1>2, JoinIs
<1> HIDE DEF ks
<1>5. Len(ks) \in Nat /\ \A i \in 1 .. Len(ks) : ks[i] \in Spans
  BY <1>4, LenProperties, ElementOfSeq
<1>6. ks # <<>>
  BY <1>2, <1>4, EmptySeq DEF Grown, Extended
<1>7. js # <<>> => n \in 1 .. n
  BY <1>2, EmptySeq
<1>8. ASSUME js # <<>>
      PROVE  \E i \in 1 .. k - 1 : /\ rs[i][2] = js[n][2] /\ js[n][1] <= rs[i][1]
                                   /\ rs[i][1] <= r[1] /\ js[n][1] <= r[1]
  <2>1. PICK i \in 1 .. k - 1 : rs[i][2] = js[n][2] /\ js[n][1] <= rs[i][1]
    BY <1>8 DEF Coalesced
  <2>2. rs[i][1] <= r[1]
    BY <1>1, <2>1 DEF Upwards
  <2>3. /\ js[n] \in Spans /\ rs[i] \in Spans /\ i \in 1 .. Len(rs)
    BY <1>1, <1>2, <1>3, <1>7, <1>8
  <2>4. js[n][1] <= r[1]
    <3>1. js[n][1] \in Int /\ rs[i][1] \in Int /\ r[1] \in Int
      BY <1>a, <1>2, <2>3
    <3> QED
      BY <2>1, <2>2, <3>1
  <2> QED
    BY <2>1, <2>2, <2>4
<1>9. ASSUME NEW p \in Int
      PROVE  (\E i \in 1 .. k : In(rs[i], p)) <=> Covers(js, p) \/ In(r, p)
  <2>1. \A i \in 1 .. k : i = k \/ i \in 1 .. k - 1
    BY <1>1
  <2> QED
    BY <1>1, <1>9, <2>1 DEF Coalesced
<1>10. CASE Grown(js, r, ks)
  <2>1. \A i \in 1 .. Len(ks) : i = n + 1 \/ i \in 1 .. n
    BY <1>2, <1>10 DEF Grown
  <2>2. ASSUME NEW p \in Int PROVE Covers(ks, p) <=> Covers(js, p) \/ In(r, p)
    <3>1. Len(ks) = n + 1 /\ ks[n + 1] = r /\ \A i \in 1 .. n : ks[i] = js[i]
      BY <1>10 DEF Grown
    <3>2. 1 .. n \subseteq 1 .. n + 1 /\ n + 1 \in 1 .. n + 1
      BY <1>2
    <3> QED
      BY <2>1, <3>1, <3>2 DEF Covers
  <2>3. ASSUME NEW i \in 1 .. n
        PROVE  /\ js[i][1] <= r[1]
               /\ js[n] # r /\ Apart(js) => js[i][2] + 1 < r[1]
    <3>1. js # <<>> /\ n \in 1 .. n
      BY <1>2, EmptySeq
    <3>2. js[n][1] <= r[1]
      BY <1>8, <3>1
    <3>3. i = n \/ (i < n /\ js[i][1] <= js[n][1])
      BY <1>2, <3>1 DEF Coalesced, Upwards
    <3>4. js[i] \in Spans /\ js[n] \in Spans
      BY <1>3, <3>1
    <3>5. js[i][1] <= r[1]
      <4>1. js[i][1] \in Int /\ js[n][1] \in Int /\ r[1] \in Int
        BY <1>a, <1>2, <3>4
      <4> QED
        BY <3>2, <3>3, <4>1
    <3>6. js[n] # r => js[n][2] + 1 < r[1]
      BY <1>10, <3>1 DEF Grown
    <3>7. i < n /\ Apart(js) => js[i][2] + 1 < js[n][1]
      BY <1>2, <3>1 DEF Apart
    <3> QED
      <4>1. ASSUME js[n] # r, Apart(js) PROVE js[i][2] + 1 < r[1]
        <5>1. /\ js[i][2] \in Int /\ js[n][1] \in Int /\ js[n][2] \in Int /\ r[1] \in Int
              /\ js[n][1] <= js[n][2]
          BY <1>a, <1>2, <3>4
        <5>2. js[n][2] + 1 < r[1] /\ (i < n => js[i][2] + 1 < js[n][1])
          BY <3>6, <3>7, <4>1
        <5> QED
          BY <3>3, <5>1, <5>2
      <4> QED
        BY <3>5, <4>1
  <2>4. Upwards(ks)
    BY <1>2, <1>10, <2>1, <2>3 DEF Grown, Upwards, Coalesced
  <2>5. js # <<>> /\ js[n] = r => Twins(rs)
    <3> SUFFICES ASSUME js # <<>>, js[n] = r PROVE Twins(rs)
      OBVIOUS
    <3>1. PICK i \in 1 .. k - 1 : /\ rs[i][2] = js[n][2] /\ js[n][1] <= rs[i][1]
                                  /\ rs[i][1] <= r[1]
      BY <1>8
    <3>2. i \in 1 .. Len(rs) /\ rs[i] \in Spans /\ i # k
      BY <1>1
    <3>3. rs[i] = r
      <4>1. js[n] \in Spans /\ js[n] = r
        BY <1>2
      <4>2. rs[i][1] = r[1] /\ rs[i][2] = r[2]
        <5>1. rs[i][1] \in Int /\ r[1] \in Int
          BY <1>a, <1>2, <3>2
        <5> QED
          BY <3>1, <4>1, <5>1
      <4> QED
        BY <1>a, <1>2, <3>2, <4>2
    <3> QED
      BY <3>2, <3>3 DEF Twins
  <2>6. Apart(ks) \/ Twins(rs)
    <3> SUFFICES ASSUME ~Twins(rs) PROVE Apart(ks)
      OBVIOUS
    <3>1. Apart(js) /\ \A i \in 1 .. n : js[n] # r
      BY <1>2, <2>5, EmptySeq DEF Coalesced
    <3> QED
      BY <1>2, <1>10, <2>1, <2>3, <3>1 DEF Grown, Apart
  <2>7. rs[k][2] = ks[Len(ks)][2] /\ ks[Len(ks)][1] <= rs[k][1]
    BY <1>a, <1>2, <1>10 DEF Grown
  <2> QED
    <3>1. \A p \in Int : Covers(ks, p) <=> \E i \in 1 .. k : In(rs[i], p)
      BY <1>9, <2>2
    <3>2. k \in 1 .. k
      BY <1>1
    <3> QED
      BY <1>4, <1>6, <2>4, <2>6, <2>7, <3>1, <3>2 DEF Coalesced, ks
<1>11. CASE Extended(js, r, ks)
  <2>1. /\ js # <<>> /\ r[1] <= js[n][2] + 1 /\ Len(ks) = n
        /\ \A i \in 1 .. n - 1 : ks[i] = js[i]
        /\ ks[n][1] = js[n][1]
        /\ ks[n][2] = IF r[2] > js[n][2] THEN r[2] ELSE js[n][2]
    BY <1>11 DEF Extended
  <2>2. n \in 1 .. n /\ js[n] \in Spans /\ \A i \in 1 .. n : i = n \/ i \in 1 .. n - 1
    BY <1>2, <1>3, <1>7, <2>1
  <2>3. PICK i \in 1 .. k - 1 : /\ rs[i][2] = js[n][2] /\ js[n][1] <= rs[i][1]
                                /\ rs[i][1] <= r[1] /\ js[n][1] <= r[1]
    BY <1>8, <2>1
  <2>4. ASSUME NEW p \in Int PROVE In(ks[n], p) <=> In(js[n], p) \/ In(r, p)
    <3> DEFINE a == js[n][1]
               b == js[n][2]
    <3>1. a \in Int /\ b \in Int /\ a <= b /\ r[1] \in Int /\ r[2] \in Int /\ r[1] <= r[2]
      BY <1>a, <1>2, <2>2
    <3>2. a <= r[1] /\ r[1] <= b + 1
      BY <2>1, <2>3
    <3>3. ks[n][1] = a /\ ks[n][2] = IF r[2] > b THEN r[2] ELSE b
      BY <2>1
    <3> HIDE DEF a, b
    <3>4. In(ks[n], p) <=> (a <= p /\ p <= b) \/ In(r, p)
      BY <2>4, <3>1, <3>2, <3>3 DEF In
    <3> QED
      BY <3>4 DEF In, a, b
  <2>5. ASSUME NEW p \in Int PROVE Covers(ks, p) <=> Covers(js, p) \/ In(r, p)
    <3>1. Covers(js, p) <=> In(js[n], p) \/ \E m \in 1 .. n - 1 : In(js[m], p)
      BY <1>2, <2>2 DEF Covers
    <3>2. Covers(ks, p) <=> In(ks[n], p) \/ \E m \in 1 .. n - 1 : In(ks[m], p)
      BY <1>2, <2>1, <2>2 DEF Covers
    <3>3. \A m \in 1 .. n - 1 : ks[m] = js[m]
      BY <2>1
    <3> QED
      BY <2>4, <3>1, <3>2, <3>3
  <2>6. Upwards(ks)
    BY <1>2, <2>1, <2>2 DEF Upwards, Coalesced
  <2>7. Apart(js) => Apart(ks)
    <3>1. ASSUME Apart(js), NEW a \in 1 .. n, NEW b \in 1 .. n, a < b
          PROVE  ks[a][2] + 1 < ks[b][1]
      <4>1. a \in 1 .. n - 1 /\ ks[a] = js[a] /\ js[a][2] + 1 < js[b][1]
        BY <1>2, <2>1, <3>1 DEF Apart
      <4>2. ks[b][1] = js[b][1]
        BY <2>1, <2>2
      <4> QED
        BY <4>1, <4>2
    <3> QED
      BY <2>1, <3>1 DEF Apart
  <2>8. \E m \in 1 .. k : rs[m][2] = ks[n][2] /\ ks[n][1] <= rs[m][1]
    <3>1. CASE r[2] > js[n][2]
      BY <1>1, <2>1, <2>3, <3>1
    <3>2. CASE ~(r[2] > js[n][2])
      <4>1. i \in 1 .. k
        BY <1>1, <2>3
      <4> QED
        BY <2>1, <2>3, <3>2, <4>1
    <3> QED
      BY <3>1, <3>2
  <2> QED
    <3>1. \A p \in Int : Covers(ks, p) <=> \E m \in 1 .. k : In(rs[m], p)
      BY <1>9, <2>5
    <3>2. Apart(ks) \/ Twins(rs)
      BY <2>7 DEF Coalesced
    <3> QED
      BY <1>4, <1>6, <2>1, <2>6, <2>8, <3>1, <3>2 DEF Coalesced, ks
<1> QED
  BY <1>4, <1>10, <1>11

\* The function that Joined is written with exists, for the ranges cut off at
\* every length: else there were a shortest one without it.
JoinedSoFar(g, rs, m) ==
    g = [n \in 0 .. m |-> IF n = 0 THEN <<>> ELSE R!Join(g[n - 1], rs[n])]

LEMMA JoinedExists ==
    ASSUME NEW rs, NEW m \in Nat
    PROVE  \E g : JoinedSoFar(g, rs, m)
<1> DEFINE Without(n) == ~\E g : JoinedSoFar(g, rs, n)
           Bad == {n \in Nat : Without(n)}
<1> SUFFICES ASSUME Bad # {} PROVE FALSE
  OBVIOUS
<1> HIDE DEF Without
<1>1. PICK n \in Bad : \A k \in Bad : n <= k
  BY Least
<1> USE DEF Without
<1>2. n # 0
  <2>1. JoinedSoFar([k \in 0 .. 0 |-> <<>>], rs, 0)
    BY DEF JoinedSoFar
  <2> QED
    BY <2>1
<1>3. n - 1 \in Nat /\ n - 1 \notin Bad
  BY <1>1, <1>2
<1>4. PICK g : JoinedSoFar(g, rs, n - 1)
  BY <1>3
<1> DEFINE next(k, f) == R!Join(f[k - 1], rs[k])
           h == [k \in 0 .. n |-> IF k = n THEN next(n, g) ELSE g[k]]
<1>5. \A k \in 0 .. n - 1 : h[k] = g[k]
  BY <1>3
<1>6. g = [k \in 0 .. n - 1 |-> IF k = 0 THEN <<>> ELSE next(k, g)]
  BY <1>4 DEF JoinedSoFar
<1>7. ASSUME NEW k \in 0 .. n, k # 0 PROVE next(k, g) = next(k, h)
  BY <1>5, <1>7
<1>8. h = [k \in 0 .. n |-> IF k = 0 THEN <<>> ELSE next(k, g)]
  <2>1. \A k \in 0 .. n - 1 : g[k] = IF k = 0 THEN <<>> ELSE next(k, g)
    BY <1>6, Zenon
  <2> HIDE DEF next
  <2>2. \A k \in 0 .. n : k = n \/ k \in 0 .. n - 1
    OBVIOUS
  <2> QED
    BY <1>2, <2>1, <2>2
<1>9. h = [k \in 0 .. n |-> IF k = 0 THEN <<>> ELSE next(k, h)]
  <2> HIDE DEF h, next
  <2> QED
    BY <1>7, <1>8
<1>10. JoinedSoFar(h, rs, n)
  BY <1>9, Zenon DEF JoinedSoFar
<1> QED
  BY <1>10

\* What coalesce_ranges makes of ranges that go upwards.
LEMMA JoinedIs ==
    ASSUME NEW rs \in Seq(Spans), Upwards(rs)
    PROVE  Coalesced(R!Joined(rs), rs, Len(rs))
<1> DEFINE f == CHOOSE g : JoinedSoFar(g, rs, Len(rs))
           Bad == {n \in 0 .. Len(rs) : ~Coalesced(f[n], rs, n)}
<1>1. Len(rs) \in Nat
  BY LenProperties
<1>2. R!Joined(rs) = f[Len(rs)]
  BY DEF R!Joined, JoinedSoFar
<1>3. JoinedSoFar(f, rs, Len(rs))
  BY <1>1, JoinedExists
<1> HIDE DEF f
<1>4. f[0] = <<>> /\ \A n \in 1 .. Len(rs) : f[n] = R!Join(f[n - 1], rs[n])
  <2> DEFINE next(n) == R!Join(f[n - 1], rs[n])
  <2>1. \A n \in 0 .. Len(rs) : f[n] = IF n = 0 THEN <<>> ELSE next(n)
    BY <1>3, Zenon DEF JoinedSoFar
  <2> HIDE DEF next
  <2>2. f[0] = <<>> /\ \A n \in 1 .. Len(rs) : f[n] = next(n)
    BY <1>1, <2>1
  <2> QED
    BY <2>2 DEF next
<1>5. ASSUME NEW n \in Bad, \A k \in Bad : n <= k PROVE FALSE
  <2>1. n # 0
    <3>1. Coalesced(<<>>, rs, 0)
      BY DEF Coalesced, Covers, Upwards, Apart
    <3> QED
      BY <1>4, <3>1
  <2>2. n \in 1 .. Len(rs) /\ n - 1 \in 0 .. Len(rs) /\ n - 1 \notin Bad
    BY <1>1, <1>5, <2>1
  <2>3. Coalesced(f[n - 1], rs, n - 1)
    BY <2>2
  <2>4. Coalesced(R!Join(f[n - 1], rs[n]), rs, n)
    BY <2>2, <2>3, JoinKeeps
  <2> QED
    BY <1>4, <2>2, <2>4
<1>6. Bad = {}
  <2>1. Bad \subseteq Nat
    BY <1>1
  <2> QED
    BY <1>5, <2>1, Least
<1> QED
  BY <1>1, <1>2, <1>6

\* What std::sort makes of them: the same ranges, in an order that goes upwards.
LEMMA SortedIs ==
    ASSUME NEW rs \in Seq(Spans), NEW s \in R!Sorted(rs)
    PROVE  /\ s \in Seq(Spans) /\ Len(s) = Len(rs) /\ Upwards(s)
           /\ \A p : Covers(s, p) <=> Covers(rs, p)
           /\ Twins(s) => Twins(rs)
<1> DEFINE D == 1 .. Len(rs)
<1>1. Len(rs) \in Nat /\ DOMAIN rs = D /\ \A i \in D : rs[i] \in Spans
  BY LenProperties, ElementOfSeq
<1>2. PICK q \in [D -> D] : /\ \A i, j \in D : i # j => q[i] # q[j]
                            /\ s = [i \in D |-> rs[q[i]]]
  <2>1. s \in {[i \in DOMAIN rs |-> rs[q[i]]] :
                  q \in {f \in [DOMAIN rs -> DOMAIN rs] :
                            \A i, j \in DOMAIN rs : i # j => f[i] # f[j]}}
    BY Zenon DEF R!Sorted
  <2>2. s \in {[i \in D |-> rs[q[i]]] :
                  q \in {f \in [D -> D] : \A i, j \in D : i # j => f[i] # f[j]}}
    <3>1. DOMAIN rs = D
      BY <1>1
    <3> HIDE DEF D
    <3> QED
      BY <2>1, <3>1, Zenon
  <2> HIDE DEF D
  <2> QED
    BY <2>2
<1>3. \A i, j \in D : i < j => s[i][1] <= s[j][1]
  BY <1>1 DEF R!Sorted
<1>4. \A j \in D : \E i \in D : q[i] = j
  <2>1. IsFiniteSet(D)
    BY <1>1, FS_Interval
  <2>2. q \in Injection(D, D)
    BY <1>2 DEF Injection, IsInjective
  <2> HIDE DEF D
  <2>3. q \in Surjection(D, D)
    BY <2>1, <2>2, FS_Injection
  <2> QED
    BY <2>3 DEF Surjection
<1>5. s \in Seq(Spans) /\ Len(s) = Len(rs)
  <2>1. \A i \in D : s[i] \in Spans
    BY <1>1, <1>2
  <2>2. s = [i \in D |-> s[i]]
    BY <1>2
  <2> QED
    BY <1>1, <2>1, <2>2
<1>6. Upwards(s)
  BY <1>3, <1>5 DEF Upwards
<1>7. ASSUME NEW p PROVE Covers(s, p) <=> Covers(rs, p)
  <2>1. Covers(s, p) <=> \E i \in D : In(rs[q[i]], p)
    BY <1>2, <1>5 DEF Covers
  <2> QED
    BY <1>2, <1>4, <2>1 DEF Covers
<1>8. Twins(s) => Twins(rs)
  <2>1. ASSUME NEW i \in D, NEW j \in D, i # j, s[i] = s[j] PROVE Twins(rs)
    <3>1. q[i] \in D /\ q[j] \in D /\ q[i] # q[j] /\ rs[q[i]] = rs[q[j]]
      BY <1>2, <2>1
    <3> QED
      BY <3>1 DEF Twins
  <2> QED
    BY <1>5, <2>1 DEF Twins
<1> QED
  BY <1>5, <1>6, <1>7, <1>8

\* What coalesce_ranges promises of some ranges.
Tidied(js, rs) ==
    /\ js \in Seq(Spans) /\ js # <<>>
    /\ \A p \in Int : Covers(js, p) <=> Covers(rs, p)
    /\ Upwards(js)
    /\ Apart(js) \/ Twins(rs)

LEMMA CoalesceTidies ==
    ASSUME NEW rs \in Seq(Spans), rs # <<>>, NEW js,
           IF Len(rs) <= 1 THEN js = rs
           ELSE \E s \in R!Sorted(rs) : js = R!Joined(s)
    PROVE  Tidied(js, rs)
<1>1. Len(rs) \in Nat \ {0}
  BY LenProperties, EmptySeq
<1>2. CASE Len(rs) <= 1
  <2>1. Len(rs) = 1 /\ js = rs
    BY <1>1, <1>2
  <2>2. ASSUME NEW i \in 1 .. Len(js), NEW j \in 1 .. Len(js) PROVE ~(i < j)
    <3>1. Len(js) = 1
      BY <2>1, Zenon
    <3>2. i = 1 /\ j = 1
      BY <3>1
    <3> QED
      BY <3>2
  <2>3. Upwards(js) /\ Apart(js)
    BY <2>2 DEF Upwards, Apart
  <2> QED
    BY <2>1, <2>3 DEF Tidied
<1>3. CASE ~(Len(rs) <= 1)
  <2>1. PICK s \in R!Sorted(rs) : js = R!Joined(s)
    BY <1>3
  <2>2. /\ s \in Seq(Spans) /\ Len(s) = Len(rs) /\ Upwards(s)
        /\ \A p : Covers(s, p) <=> Covers(rs, p)
        /\ Twins(s) => Twins(rs)
    BY SortedIs
  <2>3. Coalesced(js, s, Len(s))
    BY <2>1, <2>2, JoinedIs
  <2>4. \A p : Covers(s, p) <=> \E i \in 1 .. Len(s) : In(s[i], p)
    BY DEF Covers
  <2> QED
    BY <1>1, <2>2, <2>3, <2>4 DEF Tidied, Coalesced
<1> QED
  BY <1>2, <1>3

\* The sums that are announced: of nothing, and of one piece.
LEMMA SumIs ==
    /\ R!Sum(<<>>) = 0
    /\ \A a, b \in Int : R!Sum(<< <<a, b>> >>) = b
<1> DEFINE Upto(g, ps) == g = [n \in 0 .. Len(ps) |-> IF n = 0 THEN 0 ELSE g[n - 1] + ps[n][2]]
<1>1. ASSUME NEW ps PROVE R!Sum(ps) = (CHOOSE g : Upto(g, ps))[Len(ps)]
  BY DEF R!Sum
<1>2. R!Sum(<<>>) = 0
  <2> DEFINE f == CHOOSE g : Upto(g, <<>>)
  <2>1. Upto([n \in 0 .. 0 |-> 0], <<>>)
    OBVIOUS
  <2>2. Upto(f, <<>>)
    BY <2>1
  <2> HIDE DEF f
  <2>3. f[0] = 0
    BY <2>2
  <2> QED
    BY <1>1, <2>3 DEF f
<1>3. ASSUME NEW a \in Int, NEW b \in Int PROVE R!Sum(<< <<a, b>> >>) = b
  <2> DEFINE ps == << <<a, b>> >>
             f == CHOOSE g : Upto(g, ps)
             h == [n \in 0 .. 1 |-> IF n = 0 THEN 0 ELSE b]
  <2>1. Len(ps) = 1 /\ ps[1][2] = b
    OBVIOUS
  <2> HIDE DEF ps
  <2>2. h = [n \in 0 .. 1 |-> IF n = 0 THEN 0 ELSE h[n - 1] + ps[n][2]]
    <3>1. \A n \in 0 .. 1 : n = 0 \/ (n = 1 /\ h[n - 1] = 0 /\ ps[n][2] = b)
      BY <2>1
    <3> QED
      BY <1>3, <3>1
  <2>3. Upto(f, ps)
    BY <2>1, <2>2
  <2> HIDE DEF f
  <2>4. f[0] = 0 /\ f[1] = f[0] + ps[1][2]
    BY <2>1, <2>3
  <2>5. f[Len(ps)] = b
    BY <2>1, <2>4
  <2> QED
    BY <1>1, <2>5 DEF f, ps
<1> QED
  BY <1>2, <1>3

-----------------------------------------------------------------------------
(* The steps of a request with ranges                                        *)

\* A handler that gives a content provider leaves the status to the library, or
\* sets 206: any other status lets ranges through that were never checked, or
\* announces more than is written.
ProvidersArePartial ==
    \A h \in Handlers : h.content = "provider" => h.status \in {R!None, 206}

\* No first position has more digits than fit: parse_range_header takes such a
\* range for a suffix.
FirstsFit == \A h \in RangeHeaders : \A i \in DOMAIN h : h[i][1] # R!Huge

Spots == Nat \cup {R!None, R!Huge, R!Junk}

Contents == {"body", "provider", "stream", "none"}

\* The ranges are those of the header, which is a good one.
Parsed ==
    /\ ranges = [i \in DOMAIN header |-> <<R!Position(header[i][1]), R!Position(header[i][2])>>]
    /\ \A i \in DOMAIN header : R!ValidSpec(header[i])

\* The ranges are those of the content that the header asks for.
Served ==
    /\ ranges \in Seq(Spans) /\ ranges # <<>>
    /\ \A i \in 1 .. Len(ranges) : 0 <= ranges[i][1] /\ ranges[i][2] < range_length
    /\ \A p \in Int : Covers(ranges, p) <=> p \in R!Asked
    /\ Upwards(ranges)
    /\ \/ Apart(ranges)
       \/ \E i, j \in DOMAIN header : i # j /\ R!Asks(header[i]) = R!Asks(header[j])

RangeTypes ==
    /\ header \in RangeHeaders /\ range_length \in Lengths
    /\ content \in Contents
    /\ step \in {"parse", "handle", "check", "apply", "write", "done"}
    /\ step # "done" => written = <<>>

\* What has been made of the ranges at each step.
RangesPlace ==
    /\ step = "parse" => content = "none" /\ contentRange = <<>>
    /\ step \in {"handle", "check"} => Parsed
    /\ step \in {"check", "apply", "write"} /\ content = "provider" => ranges = <<>> \/ status = 206
    /\ step \in {"apply", "write"} =>
          /\ ranges = <<>> => header = <<>>
          /\ status \in 200 .. 299 /\ ranges # <<>> => content \in {"body", "provider"} /\ Served

\* What the headers announce, as apply_ranges sets it.
Announces ==
    /\ announced = IF content = "stream" THEN R!None
                   ELSE IF content = "none" THEN 0
                   ELSE IF R!Partial THEN R!Sum(R!Pieces) ELSE range_length
    /\ contentRange = IF R!Partial /\ content \in {"body", "provider"} /\ Len(ranges) = 1
                      THEN ranges[1] ELSE <<>>

RangesInv ==
    /\ RangeTypes /\ RangesPlace
    /\ step = "write" => Announces
    /\ R!PartsAreWhatWasAsked /\ R!OtherwiseWhole /\ R!AnnouncedIsWritten

\* What the assumption says of a header and a handler.
LEMMA HeaderIs ==
    ASSUME RangeTypes
    PROVE  /\ header \in Seq(Spots \X Spots) /\ range_length \in Nat
           /\ DOMAIN header = 1 .. Len(header) /\ Len(header) \in Nat
           /\ \A i \in 1 .. Len(header) : /\ header[i] \in Spots \X Spots
                                          /\ header[i][1] \in Spots /\ header[i][2] \in Spots
<1>1. header \in Seq(Spots \X Spots) /\ range_length \in Nat
  BY ContentAssumption DEF RangeTypes, ContentAssumption, R!RangesAssumption, Spots
<1>2. DOMAIN header = 1 .. Len(header) /\ Len(header) \in Nat
  BY <1>1, LenProperties
<1>3. \A i \in 1 .. Len(header) : header[i] \in Spots \X Spots
  BY <1>1, ElementOfSeq
<1> QED
  BY <1>1, <1>2, <1>3

\* A handler says what content there is, and maybe the status.
LEMMA HandlerIs ==
    ASSUME NEW h \in Handlers
    PROVE  h.content \in Contents /\ h.status \in Nat \cup {R!None}
BY ContentAssumption DEF ContentAssumption, R!RangesAssumption, Contents

\* The initial states.
LEMMA InitRanges == R!Init => RangesInv
<1> SUFFICES ASSUME R!Init PROVE RangesInv
  OBVIOUS
<1> QED
  BY DEF R!Init, RangesInv, RangeTypes, RangesPlace, Contents, R!PartsAreWhatWasAsked,
         R!OtherwiseWhole, R!AnnouncedIsWritten

\* A bad header is answered at once.
LEMMA ParseKeeps ==
    ASSUME RangesInv, R!parse_range_header PROVE RangesInv'
<1>1. /\ step = "parse" /\ written = <<>> /\ content = "none" /\ contentRange = <<>>
      /\ RangeTypes
      /\ UNCHANGED <<header, range_length, content, contentRange, written>>
  BY DEF RangesInv, RangeTypes, RangesPlace, R!parse_range_header
<1>2. CASE \A i \in DOMAIN header : R!ValidSpec(header[i])
  <2>1. step' = "handle" /\ Parsed'
    <3>1. /\ step' = "handle"
          /\ ranges' = [i \in DOMAIN header |->
                           <<R!Position(header[i][1]), R!Position(header[i][2])>>]
      BY <1>2 DEF R!parse_range_header
    <3>2. header' = header
      BY <1>1
    <3>3. \A i \in DOMAIN header : R!ValidSpec(header'[i])
      BY <1>2, <3>2
    <3> QED
      BY <3>1, <3>2, <3>3 DEF Parsed
  <2> QED
    BY <1>1, <2>1 DEF RangesInv, RangeTypes, RangesPlace, R!PartsAreWhatWasAsked,
                      R!OtherwiseWhole, R!AnnouncedIsWritten
<1>3. CASE ~ \A i \in DOMAIN header : R!ValidSpec(header[i])
  <2>1. step' = "done" /\ status' = 416 /\ announced' = 0
    BY <1>3 DEF R!parse_range_header
  <2>2. R!Sum(written)' = 0
    <3>1. written' = <<>>
      BY <1>1
    <3>2. R!Sum(written') = 0
      BY <3>1, SumIs
    <3> QED
      BY <3>2
  <2>3. RangeTypes' /\ RangesPlace'
    BY <1>1, <2>1 DEF RangeTypes, RangesPlace
  <2> QED
    BY <1>1, <2>1, <2>2, <2>3 DEF RangesInv, R!PartsAreWhatWasAsked, R!OtherwiseWhole,
                                  R!AnnouncedIsWritten
<1> QED
  BY <1>2, <1>3

\* The handler sets content and status; the library 206 if there are ranges.
LEMMA HandleKeeps ==
    ASSUME ProvidersArePartial, RangesInv, R!Handle PROVE RangesInv'
<1>1. /\ step = "handle" /\ step' = "check" /\ RangeTypes /\ Parsed /\ written = <<>>
      /\ UNCHANGED <<header, range_length, ranges, announced, contentRange, written>>
  BY DEF RangesInv, RangeTypes, RangesPlace, R!Handle
<1>2. PICK h \in Handlers : /\ content' = h.content
                            /\ status' = IF h.status # R!None THEN h.status
                                         ELSE IF ranges = <<>> THEN 200 ELSE 206
  BY DEF R!Handle
<1>3. content' \in Contents
  BY <1>2, HandlerIs
<1>4. content' = "provider" => ranges = <<>> \/ status' = 206
  BY <1>2 DEF ProvidersArePartial
<1>5. Parsed'
  BY <1>1 DEF Parsed, R!ValidSpec
<1> QED
  BY <1>1, <1>3, <1>4, <1>5 DEF RangesInv, RangeTypes, RangesPlace, R!PartsAreWhatWasAsked,
                                R!OtherwiseWhole, R!AnnouncedIsWritten

\* What a range of the header asks for, resolved against the content.
LEMMA ResolvesTo ==
    ASSUME FirstsFit, RangeTypes, Parsed, content \in {"body", "provider"},
           NEW i \in 1 .. Len(header), R!Within(R!Resolved[i])
    PROVE  /\ R!Resolved[i] \in Spans
           /\ 0 <= R!Resolved[i][1] /\ R!Resolved[i][2] < range_length
           /\ R!Asks(header[i]) = {p \in Int : In(R!Resolved[i], p)}
<1> DEFINE a == header[i][1]
           b == header[i][2]
           r == R!Resolved[i]
<1>1. /\ range_length \in Nat /\ DOMAIN header = 1 .. Len(header)
      /\ a \in Spots /\ b \in Spots
  BY HeaderIs
<1>2. a # R!Huge
  BY <1>1 DEF FirstsFit, RangeTypes
<1>3. /\ a # R!Junk /\ b # R!Junk
      /\ a # R!None \/ R!Position(b) # R!None
  BY <1>1, <1>2 DEF Parsed, R!ValidSpec, R!Position
<1>4. ranges[i] = <<a, R!Position(b)>> /\ i \in DOMAIN ranges
  BY <1>1, <1>2 DEF Parsed, R!Position
<1>5. R!KnownLength = range_length
  BY DEF R!KnownLength
<1>6. r = IF a = R!None THEN <<range_length - R!Position(b), range_length - 1>>
          ELSE <<a, R!Clip(R!Position(b))>>
  BY <1>4, <1>5 DEF R!Resolved, R!Resolve
<1>7. R!Clip(R!Position(b)) = IF R!Position(b) = R!None \/ R!Position(b) >= range_length
                              THEN range_length - 1 ELSE R!Position(b)
  BY <1>5 DEF R!Clip
<1>8. R!Asks(header[i]) = IF a = R!None THEN (range_length - b) .. (range_length - 1)
                          ELSE {p \in 0 .. (range_length - 1) :
                                   p >= a /\ (b \in {R!None, R!Huge} \/ p <= b)}
  BY DEF R!Asks
<1>9. 0 <= r[1] /\ r[1] <= r[2] /\ r[2] <= range_length - 1
  BY <1>5 DEF R!Within
<1> HIDE DEF a, b, r
<1>10. CASE a = R!None
  <2>1. b \in Nat /\ R!Position(b) = b
    BY <1>1, <1>3, <1>10 DEF Spots, R!Position, R!None, R!Huge, R!Junk
  <2>2. r = <<range_length - b, range_length - 1>>
    BY <1>6, <1>10, <2>1
  <2>3. r[1] = range_length - b /\ r[2] = range_length - 1 /\ r \in Spans
    BY <1>1, <1>9, <2>1, <2>2 DEF Spans
  <2>4. R!Asks(header[i]) = r[1] .. r[2]
    BY <1>8, <1>10, <2>3
  <2>5. r[1] .. r[2] = {p \in Int : In(r, p)}
    BY <1>1, <2>1, <2>3 DEF In
  <2> QED
    BY <1>1, <1>9, <2>3, <2>4, <2>5 DEF r
<1>11. CASE a # R!None
  <2>1. a \in Nat
    BY <1>1, <1>2, <1>3, <1>11 DEF Spots
  <2> DEFINE z == R!Clip(R!Position(b))
  <2>2. b \in Nat \/ b \in {R!None, R!Huge}
    BY <1>1, <1>3 DEF Spots
  <2>3. R!Position(b) = IF b = R!Huge THEN R!None ELSE b
    BY DEF R!Position
  <2>4. z \in Int /\ z = IF b \in {R!None, R!Huge} \/ b >= range_length THEN range_length - 1 ELSE b
    <3>1. CASE b \in {R!None, R!Huge}
      <4>1. R!Position(b) = R!None
        BY <2>3, <3>1
      <4> QED
        BY <1>1, <1>7, <3>1, <4>1
    <3>2. CASE b \notin {R!None, R!Huge}
      <4>1. R!Position(b) = b /\ b \in Nat
        BY <2>2, <2>3, <3>2
      <4>2. b # R!None
        BY <3>2
      <4> QED
        BY <1>1, <1>7, <3>2, <4>1, <4>2
    <3> QED
      BY <3>1, <3>2
  <2> HIDE DEF z
  <2>5. r = <<a, z>>
    BY <1>6, <1>11 DEF z
  <2>6. r[1] = a /\ r[2] = z /\ r \in Spans
    BY <1>9, <2>1, <2>4, <2>5 DEF Spans
  <2>7. \A p \in Int : In(r, p) <=> a <= p /\ p <= z
    BY <2>6 DEF In
  <2>8. R!Asks(header[i]) = {p \in 0 .. (range_length - 1) :
                                p >= a /\ (b \in {R!None, R!Huge} \/ p <= b)}
    BY <1>8, <1>11
  <2>9. \A p \in Int : p \in R!Asks(header[i]) <=> a <= p /\ p <= z
    BY <1>1, <1>9, <2>1, <2>2, <2>4, <2>6, <2>8
  <2>10. \A p \in R!Asks(header[i]) : p \in Int
    BY <1>1, <2>8
  <2> QED
    <3>1. R!Asks(header[i]) = {p \in Int : In(r, p)}
      BY <2>7, <2>9, <2>10
    <3>2. r \in Spans /\ 0 <= r[1] /\ r[2] < range_length
      BY <1>1, <1>9, <2>1, <2>4, <2>6
    <3> QED
      BY <3>1, <3>2 DEF r
<1> QED
  BY <1>10, <1>11

\* range_error lets through what lies in the content, coalesce_ranges tidies it.
LEMMA CheckServes ==
    ASSUME FirstsFit, RangeTypes, Parsed, ranges # <<>>, ~R!RangeError, R!coalesce_ranges,
           UNCHANGED <<header, range_length, content>>
    PROVE  content \in {"body", "provider"} /\ Served' /\ ranges' # <<>>
<1> DEFINE rs == R!Resolved
           n == Len(header)
<1>1. /\ range_length \in Nat /\ n \in Nat /\ DOMAIN header = 1 .. n
      /\ header' = header /\ range_length' = range_length
  BY HeaderIs
<1>2. DOMAIN ranges = 1 .. n /\ n # 0 /\ Len(ranges) = n
  <2>1. ranges = [i \in 1 .. n |-> <<R!Position(header[i][1]), R!Position(header[i][2])>>]
    BY <1>1 DEF Parsed
  <2>2. DOMAIN ranges = 1 .. n /\ Len(ranges) = n
    BY <1>1, <2>1
  <2>3. n = 0 => ranges = <<>>
    <3>1. SUFFICES ASSUME n = 0 PROVE ranges = <<>>
      OBVIOUS
    <3>2. 1 .. n = {}
      BY <3>1
    <3> QED
      BY <2>1, <3>2
  <2> QED
    BY <2>2, <2>3
<1>3. \A i \in 1 .. n : R!Within(rs[i])
  BY <1>2 DEF R!RangeError
<1>4. content \in {"body", "provider"}
  <2>1. 1 \in 1 .. n
    BY <1>1, <1>2
  <2>2. R!Within(rs[1])
    BY <1>3, <2>1
  <2>3. rs[1][1] \in Int /\ rs[1][2] \in Int
    <3>1. /\ R!Position(header[1][1]) \in Int /\ R!Position(header[1][2]) \in Int
      <4>1. header[1][1] \in Spots /\ header[1][2] \in Spots
        BY <2>1, HeaderIs
      <4>2. \A p \in Spots : R!Position(p) \in Int
        BY DEF Spots, R!Position, R!None, R!Huge, R!Junk
      <4> QED
        BY <4>1, <4>2
    <3>2. ranges[1] = <<R!Position(header[1][1]), R!Position(header[1][2])>>
      BY <1>1, <2>1 DEF Parsed
    <3>3. rs[1] = R!Resolve(ranges[1])
      BY <1>2, <2>1 DEF R!Resolved
    <3>4. R!KnownLength \in Int /\ R!Clip(ranges[1][2]) \in Int
      BY <1>1, <3>1, <3>2 DEF R!KnownLength, R!Clip
    <3> QED
      BY <3>1, <3>2, <3>3, <3>4 DEF R!Resolve
  <2>4. R!KnownLength > 0
    <3>1. R!KnownLength \in Int
      BY <1>1 DEF R!KnownLength
    <3> QED
      BY <2>2, <2>3, <3>1 DEF R!Within
  <2> QED
    BY <2>4 DEF R!KnownLength
<1>5. ASSUME NEW i \in 1 .. n
      PROVE  /\ rs[i] \in Spans /\ 0 <= rs[i][1] /\ rs[i][2] < range_length
             /\ R!Asks(header[i]) = {p \in Int : In(rs[i], p)}
  BY <1>3, <1>4, <1>5, ResolvesTo
<1>6. rs = [i \in 1 .. n |-> R!Resolve(ranges[i])]
  BY <1>2 DEF R!Resolved
<1>7. IF Len(ranges) <= 1 THEN ranges' = rs
      ELSE \E s \in R!Sorted(rs) : ranges' = R!Joined(s)
  BY DEF R!coalesce_ranges
<1>8. R!Asked' = R!Asked /\ R!Asked = UNION {R!Asks(header[i]) : i \in 1 .. n}
  BY <1>1 DEF R!Asked, R!Asks
<1>9. \A i \in 1 .. n : R!Asks(header[i])' = R!Asks(header[i])
  BY <1>1 DEF R!Asks
<1> HIDE DEF rs, n
<1>10. rs \in Seq(Spans) /\ Len(rs) = n /\ rs # <<>>
  <2>1. rs = [i \in 1 .. n |-> rs[i]]
    BY <1>6
  <2>2. rs \in Seq(Spans) /\ Len(rs) = n
    BY <1>1, <1>5, <2>1
  <2> QED
    BY <1>1, <1>2, <2>2, EmptySeq
<1>11. Tidied(ranges', rs)
  BY <1>2, <1>7, <1>10, CoalesceTidies
<1>12. ASSUME NEW p \in Int PROVE Covers(rs, p) <=> p \in R!Asked
  <2>1. Covers(rs, p) <=> \E i \in 1 .. n : In(rs[i], p)
    BY <1>10 DEF Covers
  <2>2. \A i \in 1 .. n : In(rs[i], p) <=> p \in R!Asks(header[i])
    BY <1>5, <1>12
  <2> QED
    BY <1>8, <2>1, <2>2
<1>13. ASSUME NEW i \in 1 .. Len(ranges')
       PROVE  0 <= ranges'[i][1] /\ ranges'[i][2] < range_length
  <2> DEFINE r == ranges'[i]
  <2>1. r \in Spans
    BY <1>11, <1>13, ElementOfSeq DEF Tidied
  <2>2. r[1] \in Int /\ r[2] \in Int /\ r[1] <= r[2]
    BY <2>1, SpanIs
  <2>3. In(r, r[1]) /\ In(r, r[2])
    BY <2>2 DEF In
  <2>4. Covers(ranges', r[1]) /\ Covers(ranges', r[2])
    BY <1>13, <2>3 DEF Covers
  <2>5. Covers(rs, r[1]) /\ Covers(rs, r[2])
    BY <1>11, <2>2, <2>4 DEF Tidied
  <2> HIDE DEF r
  <2>6. PICK j \in 1 .. n : In(rs[j], r[1])
    BY <1>10, <2>5 DEF Covers
  <2>7. PICK k \in 1 .. n : In(rs[k], r[2])
    BY <1>10, <2>5 DEF Covers
  <2>8. /\ rs[j][1] \in Int /\ rs[k][2] \in Int /\ 0 <= rs[j][1] /\ rs[k][2] < range_length
        /\ rs[j][1] <= r[1] /\ r[2] <= rs[k][2]
    BY <1>5, <2>6, <2>7, SpanIs DEF In
  <2>9. 0 <= r[1] /\ r[2] < range_length
    BY <1>1, <2>2, <2>8
  <2> QED
    BY <2>9 DEF r
<1>14. Twins(rs) => \E i, j \in DOMAIN header : i # j /\ R!Asks(header[i]) = R!Asks(header[j])
  <2>1. ASSUME NEW i \in 1 .. n, NEW j \in 1 .. n, i # j, rs[i] = rs[j]
        PROVE  R!Asks(header[i]) = R!Asks(header[j])
    <3>1. /\ R!Asks(header[i]) = {p \in Int : In(rs[i], p)}
          /\ R!Asks(header[j]) = {p \in Int : In(rs[j], p)}
      BY <1>5, <2>1
    <3> QED
      BY <2>1, <3>1
  <2> QED
    BY <1>1, <1>10, <2>1 DEF Twins
<1>15. ranges' \in Seq(Spans) /\ ranges' # <<>> /\ Upwards(ranges')
       /\ \A p \in Int : Covers(ranges', p) <=> p \in R!Asked
  BY <1>11, <1>12 DEF Tidied
<1>16. Apart(ranges')
       \/ \E i, j \in DOMAIN header : i # j /\ R!Asks(header[i]) = R!Asks(header[j])
  BY <1>11, <1>14 DEF Tidied
<1>17. Apart(ranges')
       \/ \E i, j \in DOMAIN header' : i # j /\ R!Asks(header[i])' = R!Asks(header[j])'
  BY <1>1, <1>9, <1>16
<1>18. Served'
  <2>1. \A p \in Int : Covers(ranges', p) <=> p \in R!Asked'
    BY <1>8, <1>15
  <2>2. \A i \in 1 .. Len(ranges') : 0 <= ranges'[i][1] /\ ranges'[i][2] < range_length'
    BY <1>1, <1>13
  <2> QED
    BY <1>15, <1>17, <2>1, <2>2 DEF Served
<1> QED
  BY <1>4, <1>15, <1>18

\* Ranges are looked at for a 2xx only; refused ones lose their content.
LEMMA CheckKeeps ==
    ASSUME FirstsFit, RangesInv, R!Check PROVE RangesInv'
<1>1. /\ step = "check" /\ step' = "apply" /\ RangeTypes /\ RangesPlace /\ Parsed /\ written = <<>>
      /\ UNCHANGED <<header, range_length, announced, contentRange, written>>
  BY DEF RangesInv, RangeTypes, RangesPlace, R!Check
<1>2. ASSUME ranges = <<>> PROVE header = <<>>
  <2>1. Len(header) \in Nat /\ DOMAIN header = 1 .. Len(header)
    BY <1>1, HeaderIs
  <2>2. DOMAIN ranges = DOMAIN header
    BY <1>1 DEF Parsed
  <2>3. Len(header) = 0
    BY <1>2, <2>1, <2>2, NoElement
  <2> QED
    BY <1>1, <2>3, HeaderIs, EmptySeq
<1>3. SUFFICES RangeTypes' /\ RangesPlace'
  BY <1>1 DEF RangesInv, R!PartsAreWhatWasAsked, R!OtherwiseWhole, R!AnnouncedIsWritten
<1>4. CASE ranges = <<>> \/ status \notin 200 .. 299
  <2>1. UNCHANGED <<ranges, content, status>>
    BY <1>4 DEF R!Check
  <2> QED
    BY <1>1, <1>2, <1>4, <2>1 DEF RangeTypes, RangesPlace
<1>5. CASE ranges # <<>> /\ status \in 200 .. 299 /\ R!RangeError
  <2>1. status' = 416 /\ content' = "none" /\ ranges' = ranges
    BY <1>5 DEF R!Check
  <2>2. status' \notin 200 .. 299
    BY <2>1
  <2> QED
    BY <1>1, <1>2, <2>1, <2>2 DEF RangeTypes, RangesPlace, Contents
<1>6. CASE ranges # <<>> /\ status \in 200 .. 299 /\ ~R!RangeError
  <2>1. R!coalesce_ranges /\ UNCHANGED <<content, status>>
    BY <1>6 DEF R!Check
  <2>2. content \in {"body", "provider"} /\ Served' /\ ranges' # <<>>
    BY <1>1, <1>6, <2>1, CheckServes
  <2>3. content = "provider" => status = 206
    BY <1>1, <1>6 DEF RangesPlace
  <2> QED
    BY <1>1, <2>1, <2>2, <2>3 DEF RangeTypes, RangesPlace
<1> QED
  BY <1>4, <1>5, <1>6

\* What is announced.
LEMMA ApplyKeeps ==
    ASSUME RangesInv, R!apply_ranges PROVE RangesInv'
<1>1. /\ step = "apply" /\ step' = "write" /\ RangeTypes /\ RangesPlace
      /\ UNCHANGED <<header, range_length, content, ranges, status, written>>
  BY DEF RangesInv, R!apply_ranges
<1>2. Announces'
  BY <1>1 DEF R!apply_ranges, Announces, R!Partial, R!Pieces
<1>3. Served => Served'
  <2>1. ranges' = ranges /\ header' = header /\ range_length' = range_length
    BY <1>1
  <2>2. Served' = Served
    BY <2>1 DEF Served, R!Asked, R!Asks
  <2> QED
    BY <2>2
<1>4. RangeTypes' /\ RangesPlace'
  BY <1>1, <1>3 DEF RangeTypes, RangesPlace
<1> QED
  BY <1>1, <1>2, <1>4 DEF RangesInv, R!PartsAreWhatWasAsked, R!OtherwiseWhole,
                          R!AnnouncedIsWritten

\* The pieces of served ranges are what was asked for.
LEMMA PiecesAre ==
    ASSUME RangeTypes, Served
    PROVE  /\ UNION {R!Bytes(R!Pieces[i]) : i \in DOMAIN R!Pieces} = R!Asked
           /\ DOMAIN R!Pieces = 1 .. Len(ranges) /\ Len(R!Pieces) = Len(ranges)
           /\ \A i, j \in DOMAIN R!Pieces : i < j =>
                 /\ R!Pieces[i][1] <= R!Pieces[j][1]
                 /\ \/ R!Pieces[i][1] + R!Pieces[i][2] < R!Pieces[j][1]
                    \/ \E a, b \in DOMAIN header : a # b /\ R!Asks(header[a]) = R!Asks(header[b])
           /\ range_length > 0
<1> DEFINE n == Len(ranges)
           ps == R!Pieces
<1>1. n \in Nat \ {0} /\ DOMAIN ranges = 1 .. n /\ range_length \in Nat
  BY LenProperties, EmptySeq, HeaderIs DEF Served
<1>2. ASSUME NEW i \in 1 .. n
      PROVE  /\ ranges[i][1] \in Int /\ ranges[i][2] \in Int /\ ranges[i][1] <= ranges[i][2]
             /\ 0 <= ranges[i][1] /\ ranges[i][2] < range_length
  <2>1. ranges[i] \in Spans
    BY <1>1, <1>2, ElementOfSeq DEF Served
  <2> QED
    BY <1>2, <2>1, SpanIs DEF Served
<1>3. ps = [i \in 1 .. n |-> <<ranges[i][1], ranges[i][2] - ranges[i][1] + 1>>]
  BY <1>1 DEF R!Pieces, R!Piece
<1> HIDE DEF n, ps
<1>4. /\ DOMAIN ps = 1 .. n /\ Len(ps) = n
      /\ \A i \in 1 .. n : ps[i][1] = ranges[i][1] /\ ps[i][2] = ranges[i][2] - ranges[i][1] + 1
  BY <1>1, <1>3
<1>5. ASSUME NEW i \in 1 .. n
      PROVE  /\ \A p \in Int : p \in R!Bytes(ps[i]) <=> In(ranges[i], p)
             /\ R!Bytes(ps[i]) \subseteq Int
  <2> DEFINE a == ranges[i][1]
             b == ranges[i][2]
  <2>1. a \in Int /\ b \in Int /\ a <= b
    BY <1>2
  <2>2. R!Bytes(ps[i]) = a .. a + (b - a + 1) - 1
    BY <1>4 DEF R!Bytes
  <2> HIDE DEF a, b
  <2>3. \A p \in Int : p \in R!Bytes(ps[i]) <=> a <= p /\ p <= b
    BY <2>1, <2>2
  <2>4. R!Bytes(ps[i]) \subseteq Int
    BY <2>1, <2>2
  <2> QED
    BY <2>3, <2>4 DEF In, a, b
<1>6. \A i \in DOMAIN header : R!Asks(header[i]) \subseteq Int
  <2>1. ASSUME NEW i \in 1 .. Len(header) PROVE R!Asks(header[i]) \subseteq Int
    <3>1. header[i][1] \in Spots /\ header[i][2] \in Spots
      BY HeaderIs
    <3>2. header[i][2] \in Int
      BY <3>1 DEF Spots, R!None, R!Huge, R!Junk
    <3>3. (range_length - header[i][2]) .. (range_length - 1) \subseteq Int
      BY <1>1, <3>2
    <3>4. 0 .. (range_length - 1) \subseteq Int
      OBVIOUS
    <3> QED
      BY <3>3, <3>4 DEF R!Asks
  <2> QED
    BY <2>1, HeaderIs
<1>7. UNION {R!Bytes(ps[i]) : i \in DOMAIN ps} = R!Asked
  <2>1. \A p \in Int : p \in R!Asked <=> \E i \in 1 .. n : In(ranges[i], p)
    BY DEF Served, Covers, n
  <2>2. \A p \in Int : p \in R!Asked <=> \E i \in 1 .. n : p \in R!Bytes(ps[i])
    BY <1>5, <2>1
  <2>3. R!Asked \subseteq Int
    BY <1>6 DEF R!Asked
  <2>4. \A i \in 1 .. n : R!Bytes(ps[i]) \subseteq Int
    BY <1>5
  <2> QED
    BY <1>4, <2>2, <2>3, <2>4
<1>8. ASSUME NEW i \in 1 .. n, NEW j \in 1 .. n, i < j
      PROVE  /\ ps[i][1] <= ps[j][1]
             /\ \/ ps[i][1] + ps[i][2] < ps[j][1]
                \/ \E a, b \in DOMAIN header : a # b /\ R!Asks(header[a]) = R!Asks(header[b])
  <2>1. ps[i][1] <= ps[j][1]
    BY <1>4, <1>8 DEF Served, Upwards, n
  <2>2. ASSUME Apart(ranges) PROVE ps[i][1] + ps[i][2] < ps[j][1]
    <3>1. ranges[i][2] + 1 < ranges[j][1]
      BY <1>8, <2>2 DEF Apart, n
    <3>2. ps[i][1] + ps[i][2] = ranges[i][2] + 1 /\ ps[j][1] = ranges[j][1]
      <4>1. ranges[i][1] \in Int /\ ranges[i][2] \in Int
        BY <1>2
      <4>2. /\ ps[i][1] = ranges[i][1] /\ ps[i][2] = ranges[i][2] - ranges[i][1] + 1
            /\ ps[j][1] = ranges[j][1]
        BY <1>4
      <4> QED
        BY <4>1, <4>2
    <3> QED
      BY <3>1, <3>2
  <2> QED
    BY <2>1, <2>2 DEF Served
<1>9. range_length > 0
  <2>1. 1 \in 1 .. n
    BY <1>1
  <2> QED
    <3>1. 0 <= ranges[1][1] /\ ranges[1][1] <= ranges[1][2] /\ ranges[1][2] < range_length
          /\ ranges[1][1] \in Int /\ ranges[1][2] \in Int
      BY <1>2, <2>1
    <3> QED
      BY <1>1, <3>1
<1> QED
  BY <1>4, <1>7, <1>8, <1>9 DEF n, ps

\* All the content is as much as it is long.
LEMMA WholeIs == ASSUME range_length \in Nat PROVE R!Sum(R!Whole) = range_length
<1>1. CASE range_length = 0
  BY <1>1, SumIs DEF R!Whole
<1>2. CASE range_length # 0
  <2>1. R!Whole = << <<0, range_length>> >>
    BY <1>2 DEF R!Whole
  <2>2. 0 \in Int /\ range_length \in Int
    OBVIOUS
  <2>3. R!Sum(<< <<0, range_length>> >>) = range_length
    BY <2>2, SumIs
  <2> QED
    BY <2>1, <2>3
<1> QED
  BY <1>1, <1>2

\* What is written is what is announced, and what was asked for.
LEMMA RangesWriteKeeps ==
    ASSUME RangesInv, R!Write PROVE RangesInv'
<1>1. /\ step = "write" /\ step' = "done" /\ RangeTypes /\ RangesPlace /\ Announces
      /\ UNCHANGED <<header, range_length, content, ranges, status, announced, contentRange>>
      /\ R!WriteProvider \/ R!WriteBody \/ R!WriteStream \/ R!WriteNothing
      /\ written = <<>>
  BY DEF RangesInv, R!Write, RangeTypes
<1>2. range_length \in Nat
  BY <1>1, HeaderIs
<1>3. R!Partial => Served /\ content \in {"body", "provider"} /\ status = 206
  BY <1>1 DEF R!Partial, RangesPlace
<1>4. /\ content \in {"body", "provider"} =>
            written' = IF R!Partial THEN R!Pieces ELSE R!Whole
      /\ content = "stream" => written' = R!Whole
      /\ content = "none" => written' = <<>>
  <2>1. CASE content = "provider"
    <3>1. written' = IF ranges = <<>> \/ range_length = 0 THEN R!Whole ELSE R!Pieces
      BY <1>1, <2>1 DEF R!WriteProvider, R!WriteBody, R!WriteStream, R!WriteNothing
    <3>2. ranges = <<>> \/ R!Partial
      BY <1>1, <2>1 DEF RangesPlace, R!Partial
    <3>3. R!Partial => range_length # 0 /\ ranges # <<>>
      <4>1. R!Partial => range_length > 0 /\ ranges # <<>>
        BY <1>1, <1>3, PiecesAre DEF R!Partial
      <4> QED
        BY <1>2, <4>1
    <3> QED
      BY <2>1, <3>1, <3>2, <3>3
  <2>2. CASE content # "provider"
    BY <1>1, <2>2 DEF R!WriteProvider, R!WriteBody, R!WriteStream, R!WriteNothing, RangeTypes
  <2> QED
    BY <2>1, <2>2
<1>5. content \in {"body", "provider", "stream", "none"}
  BY <1>1 DEF RangeTypes, Contents
<1>6. R!OtherwiseWhole'
  <2> SUFFICES ASSUME status # 206, content # "none" PROVE written' = R!Whole'
    BY <1>1 DEF R!OtherwiseWhole
  <2>1. R!Whole' = R!Whole /\ ~R!Partial
    BY <1>1 DEF R!Whole, R!Partial
  <2> QED
    BY <1>4, <1>5, <2>1
<1>7. R!PartsAreWhatWasAsked'
  <2> SUFFICES ASSUME status = 206, header # <<>>
               PROVE  /\ UNION {R!Bytes(written'[i]) : i \in DOMAIN written'} = R!Asked'
                      /\ \A i, j \in DOMAIN written' : i < j =>
                            /\ written'[i][1] <= written'[j][1]
                            /\ \/ written'[i][1] + written'[i][2] < written'[j][1]
                               \/ \E a, b \in DOMAIN header' :
                                     a # b /\ R!Asks(header[a])' = R!Asks(header[b])'
    BY <1>1 DEF R!PartsAreWhatWasAsked, R!Bytes
  <2>1. R!Partial
    BY <1>1 DEF RangesPlace, R!Partial
  <2>2. written' = R!Pieces /\ Served
    BY <1>3, <1>4, <2>1
  <2>3. R!Asked' = R!Asked /\ header' = header
        /\ \A a \in DOMAIN header : R!Asks(header[a])' = R!Asks(header[a])
    BY <1>1 DEF R!Asked, R!Asks
  <2> QED
    BY <1>1, <2>2, <2>3, PiecesAre
<1>8. R!AnnouncedIsWritten'
  <2>1. announced # R!None => announced = R!Sum(written')
    <3>1. R!Sum(R!Whole) = range_length /\ R!Sum(<<>>) = 0
      BY <1>2, WholeIs, SumIs
    <3>2. CASE content \in {"body", "provider"}
      BY <1>1, <1>4, <3>1, <3>2 DEF Announces
    <3>3. CASE content \in {"stream", "none"}
      BY <1>1, <1>4, <3>1, <3>3 DEF Announces
    <3> QED
      BY <1>5, <3>2, <3>3
  <2>2. contentRange # <<>> => written' = << R!Piece(contentRange) >>
    <3> SUFFICES ASSUME contentRange # <<>> PROVE written' = << R!Piece(contentRange) >>
      OBVIOUS
    <3>1. /\ R!Partial /\ content \in {"body", "provider"} /\ Len(ranges) = 1
          /\ contentRange = ranges[1]
      BY <1>1 DEF Announces
    <3>2. written' = R!Pieces
      BY <1>4, <3>1
    <3>3. DOMAIN ranges = 1 .. 1
      BY <1>3, <3>1, LenProperties DEF Served
    <3>4. R!Pieces = [i \in 1 .. 1 |-> R!Piece(ranges[i])]
      BY <3>3 DEF R!Pieces
    <3>5. [i \in 1 .. 1 |-> R!Piece(ranges[i])] = << R!Piece(ranges[1]) >>
      OBVIOUS
    <3> QED
      BY <3>1, <3>2, <3>4, <3>5
  <2>3. announced' = announced /\ contentRange' = contentRange /\ R!Sum(written)' = R!Sum(written')
        /\ R!Piece(contentRange)' = R!Piece(contentRange)
    BY <1>1 DEF R!Sum, R!Piece
  <2> QED
    BY <2>1, <2>2, <2>3 DEF R!AnnouncedIsWritten
<1>9. RangeTypes' /\ RangesPlace'
  BY <1>1 DEF RangeTypes, RangesPlace
<1> QED
  BY <1>1, <1>6, <1>7, <1>8, <1>9 DEF RangesInv

\* A step of the response, or none.
LEMMA NextRanges ==
    ASSUME ProvidersArePartial, FirstsFit, RangesInv, R!Next \/ UNCHANGED rangeVars
    PROVE  RangesInv'
<1>1. CASE R!Next
  BY <1>1, ParseKeeps, HandleKeeps, CheckKeeps, ApplyKeeps, RangesWriteKeeps DEF R!Next
<1>2. CASE UNCHANGED rangeVars
  <2>1. /\ header' = header /\ range_length' = range_length /\ content' = content
        /\ ranges' = ranges /\ status' = status /\ step' = step /\ announced' = announced
        /\ contentRange' = contentRange /\ written' = written
    BY <1>2 DEF rangeVars
  <2>2. Parsed' = Parsed /\ Served' = Served /\ Announces' = Announces
    BY <2>1 DEF Parsed, Served, Announces, R!Asked, R!Asks, R!Partial, R!Pieces, R!ValidSpec
  <2>3. RangeTypes' /\ RangesPlace'
    BY <2>1, <2>2 DEF RangesInv, RangeTypes, RangesPlace
  <2>4. /\ R!PartsAreWhatWasAsked' = R!PartsAreWhatWasAsked
        /\ R!OtherwiseWhole' = R!OtherwiseWhole
        /\ R!AnnouncedIsWritten' = R!AnnouncedIsWritten
    BY <2>1 DEF R!PartsAreWhatWasAsked, R!OtherwiseWhole, R!AnnouncedIsWritten,
                R!Asked, R!Asks, R!Whole, R!Bytes, R!Sum, R!Piece
  <2> QED
    BY <2>1, <2>2, <2>3, <2>4 DEF RangesInv
<1> QED
  BY <1>1, <1>2

\* RangesInv holds of every response, for all headers, lengths and handlers but
\* those named.
\* (parse_range_header, range_error, coalesce_ranges, apply_ranges and the
\* writers of a response.)
THEOREM RangesInvariant ==
    ProvidersArePartial /\ FirstsFit => (ContentSpec => [](part = "range" => RangesInv))
<1> SUFFICES ASSUME ProvidersArePartial, FirstsFit
             PROVE  ContentSpec => [](part = "range" => RangesInv)
  OBVIOUS
<1>1. ContentInit => (part = "range" => RangesInv)
  BY InitRanges DEF ContentInit
<1>2. (part = "range" => RangesInv) /\ [ContentNext]_contentVars
      => (part = "range" => RangesInv)'
  <2> SUFFICES ASSUME part = "range" => RangesInv, [ContentNext]_contentVars, part' = "range"
               PROVE  RangesInv'
    OBVIOUS
  <2>1. part = "range"
    BY DEF ContentNext, contentVars
  <2>2. R!Next \/ UNCHANGED rangeVars
    BY <2>1 DEF ContentNext, contentVars
  <2> QED
    BY <2>1, <2>2, NextRanges
<1> QED
  BY <1>1, <1>2, PTL DEF ContentSpec

\* For every Range header and content, a partial answer carries exactly the
\* bytes asked for, its pieces go forward and two of them touch only when the
\* header asks for a range twice; every other answer carries all its content;
\* as many bytes are written as announced, and get_range_offset_and_length is
\* given positions inside the content.  The hypotheses are where the code does
\* not keep it: a content provider with a status of the handler's own, and a
\* first position of more digits than fit.
\* (parse_range_header, range_error, coalesce_ranges, apply_ranges,
\* write_content_with_provider.)
THEOREM RangesServedAlways ==
    ProvidersArePartial /\ FirstsFit => (ContentSpec => []RangesServed)
<1> SUFFICES ASSUME ProvidersArePartial, FirstsFit PROVE ContentSpec => []RangesServed
  OBVIOUS
<1>1. (part = "range" => RangesInv) => RangesServed
  <2> SUFFICES ASSUME RangesInv
               PROVE  /\ R!PartsAreWhatWasAsked /\ R!OtherwiseWhole
                      /\ R!AnnouncedIsWritten /\ R!RangesAreResolved
    BY DEF RangesServed
  <2>1. R!RangesAreResolved
    <3> SUFFICES ASSUME \/ step = "apply" /\ content \in {"body", "provider"} /\ R!Partial
                        \/ step = "write" /\ content = "provider" /\ range_length > 0,
                        NEW i \in DOMAIN ranges
                 PROVE  R!IsResolved(ranges[i])
      BY DEF R!RangesAreResolved
    <3>1. ranges # <<>>
      BY NoElement
    <3>2. step \in {"apply", "write"} /\ status = 206
      BY <3>1 DEF RangesInv, RangesPlace, R!Partial
    <3>3. Served
      BY <3>1, <3>2 DEF RangesInv, RangesPlace
    <3>4. i \in 1 .. Len(ranges) /\ ranges[i] \in Spans
      BY <3>3, LenProperties, ElementOfSeq DEF Served
    <3>5. /\ ranges[i][1] \in Int /\ ranges[i][2] \in Int /\ ranges[i][1] <= ranges[i][2]
          /\ 0 <= ranges[i][1] /\ ranges[i][2] < range_length
      BY <3>3, <3>4, SpanIs DEF Served
    <3>6. R!None \notin {ranges[i][1], ranges[i][2]}
      BY <3>5 DEF R!None
    <3> QED
      BY <3>5, <3>6 DEF R!IsResolved
  <2> QED
    BY <2>1 DEF RangesInv
<1> QED
  BY RangesInvariant, <1>1, PTL
=============================================================================
