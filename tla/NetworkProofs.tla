---------------------------- MODULE NetworkProofs ----------------------------
(***************************************************************************)
(* Proofs about the parts of Network: Dial, for every set of builds and    *)
(* every number of addresses; TlsServer, for any pool, connections and     *)
(* number of updates; TlsClient, for any number of attempts; TlsStream,    *)
(* for records and buffers of any size; EventStream, for every feed and    *)
(* any limit on reconnections.                                             *)
(***************************************************************************)
EXTENDS Network, QueueLemmas, FiniteSetTheorems

-----------------------------------------------------------------------------
(* Dial.  None of its invariants is inductive alone.  Who owns the list      *)
(* follows from where the caller is and whether the resolver still runs      *)
(* (ListOwner); that in turn needs which of the two may outlive the other in *)
(* each build (ResolverPlace).  The sockets need that the result is set only *)
(* on the way out (SocketPlace), the timeouts that each is the last thing a  *)
(* caller waits for (WaitPlace).                                             *)

\* A resolver runs after Resolve, and outlives its caller only in the builds
\* that let it.
ResolverPlace ==
    /\ caller = "start" => resolver = "off"
    /\ caller \in {"wait", "cancel"} => resolver # "off"
    /\ caller \in {"dial", "bind", "poll", "free"} => resolver = "ended"
    /\ caller = "cancel" => build = "gai"
    /\ resolver = "works" =>
         \/ build = "thread"
         \/ build = "cfhost"
         \/ build = "gai" /\ caller \in {"wait", "cancel"}
         \/ build = "inline" /\ caller = "wait"

\* The list is the caller's while it dials; the resolver's only while a caller
\* is there that will take it or free it.
ListOwner ==
    /\ resolver # "ended" => list = "none"
    /\ caller \in {"dial", "bind", "poll", "free"} => list = "caller"
    /\ list = "resolver" => caller \in {"wait", "cancel"}

\* The address being dialled is one of the name's, and the returned socket is
\* set only on the way out.
SocketPlace ==
    /\ sock \in Nat
    /\ caller \in {"bind", "poll"} => Fd <= MaxAddresses
    /\ caller = "free" => sock # 0
    /\ sock # 0 => caller \in {"free", "done"} /\ error = "Success"

\* No timeout has passed before one is waited for.
WaitPlace ==
    /\ waits \in 0 .. 1
    /\ caller \in {"start", "wait", "dial", "bind", "poll", "free"} => waits = 0

DialInv ==
    /\ TypeOK /\ ResolverPlace /\ ListOwner
    /\ SocketPlace /\ SocketsAccounted /\ WaitPlace

\* Every initial state satisfies the inductive invariant.
LEMMA InitDial == Init => DialInv
BY DialAssumption DEF Init, DialInv, TypeOK, ResolverPlace, ListOwner, SocketPlace,
   SocketsAccounted, WaitPlace, Fd

\* The steps of name resolution keep it.
LEMMA NamesKeep ==
    ASSUME DialInv,
           \/ Resolve \/ ResolverEnds \/ TakeList \/ CopyFails
           \/ Abandon \/ GaiGivesUp \/ CancelEnds \/ Cancelled
    PROVE  DialInv'
<1> USE DialAssumption DEF DialInv, TypeOK, ResolverPlace, ListOwner, SocketPlace,
        SocketsAccounted, WaitPlace, Fd, about
<1>1. CASE Resolve
  BY <1>1 DEF Resolve, ResolveInline, ResolveCfHost, ResolveGai, ResolveThread,
     Works, Refused
<1>2. CASE ResolverEnds
  BY <1>2 DEF ResolverEnds
<1>3. CASE TakeList
  BY <1>3 DEF TakeList
<1>4. CASE CopyFails
  BY <1>4 DEF CopyFails
<1>5. CASE Abandon
  BY <1>5 DEF Abandon
<1>6. CASE GaiGivesUp
  BY <1>6 DEF GaiGivesUp
<1>7. CASE CancelEnds
  BY <1>7 DEF CancelEnds
<1>8. CASE Cancelled
  BY <1>8 DEF Cancelled
<1>9. QED
  BY <1>1, <1>2, <1>3, <1>4, <1>5, <1>6, <1>7, <1>8

\* The steps over the addresses keep it.
LEMMA AddressesKeep ==
    ASSUME DialInv, Socket \/ Listens \/ Connects \/ Polled \/ NoAddress \/ Return
    PROVE  DialInv'
<1> USE DialAssumption DEF DialInv, TypeOK, ResolverPlace, ListOwner, SocketPlace,
        SocketsAccounted, WaitPlace, Fd, about
<1>1. CASE Socket
  BY <1>1 DEF Socket
<1>2. CASE Listens
  BY <1>2 DEF Listens, Accepts, Rejects
<1>3. CASE Connects
  BY <1>3 DEF Connects, Accepts, Rejects
<1>4. CASE Polled
  BY <1>4 DEF Polled, Accepts, Rejects
<1>5. CASE NoAddress
  BY <1>5 DEF NoAddress
<1>6. CASE Return
  BY <1>6 DEF Return
<1>7. QED
  BY <1>1, <1>2, <1>3, <1>4, <1>5, <1>6

\* Every step of the specification keeps the inductive invariant.
LEMMA NextDial == DialInv /\ [Next]_vars => DialInv'
<1> SUFFICES ASSUME DialInv, [Next]_vars PROVE DialInv'
  OBVIOUS
<1>1. CASE Next
  BY <1>1, NamesKeep, AddressesKeep DEF Next, CallerStep
<1>2. CASE UNCHANGED vars
  BY <1>2 DEF vars, about, DialInv, TypeOK, ResolverPlace, ListOwner, SocketPlace,
     SocketsAccounted, WaitPlace, Fd
<1>3. QED
  BY <1>1, <1>2

\* The inductive invariant holds in every reachable state.
LEMMA DialInvariant == Spec => []DialInv
BY InitDial, NextDial, PTL DEF Spec

-----------------------------------------------------------------------------
\* Dial's variables keep their types; the caller owns the list only while it
\* dials or is on its way out.
THEOREM TypeCorrect == Spec => []TypeOK
<1>1. DialInv => TypeOK
  BY DEF DialInv
<1>2. QED
  BY <1>1, DialInvariant, PTL

\* The list of addresses is freed whichever of caller and resolver is last.
THEOREM ListIsFreed == Spec => []ListFreed
<1>1. DialInv => ListFreed
  BY DEF DialInv, TypeOK, ListOwner, ListFreed
<1>2. QED
  BY <1>1, DialInvariant, PTL

\* No socket of a failed address stays open, and a client gets a socket
\* exactly when it gets no error.
THEOREM SocketsAreAccounted == Spec => []SocketsAccounted
<1>1. DialInv => SocketsAccounted
  BY DEF DialInv
<1>2. QED
  BY <1>1, DialInvariant, PTL

\* getaddrinfo_a's request, on the caller's stack, outlives the resolver.
THEOREM RequestIsKept == Spec => []RequestOutlivesResolver
<1>1. DialInv => RequestOutlivesResolver
  BY DEF DialInv, ResolverPlace, RequestOutlivesResolver
<1>2. QED
  BY <1>1, DialInvariant, PTL

\* At most one timeout is waited out, however many addresses a name has.
THEOREM OneTimeout == Spec => []WaitsBounded
<1>1. DialInv => WaitsBounded
  BY DEF DialInv, WaitPlace, WaitsBounded
<1>2. QED
  BY <1>1, DialInvariant, PTL

\* Nothing got for a call of create_socket outlives it, nothing it uses goes
\* before it: the conjunction of the above.
THEOREM CallIsClean == Spec => []CallLeavesNothing
<1>1. DialInv => CallLeavesNothing
  BY DEF DialInv, TypeOK, ListOwner, ListFreed, ResolverPlace, RequestOutlivesResolver,
     WaitPlace, WaitsBounded, CallLeavesNothing
<1>2. QED
  BY <1>1, DialInvariant, PTL

-----------------------------------------------------------------------------
(* TlsServer.  A thread has a connection from Take to Close, nobody else has *)
(* it, and its session lives no longer; with OpenSSL a handshake that is     *)
(* done has used the certificate its session was made with, and the context  *)
(* has one unless a key came that was not its own; with Mbed TLS the name in *)
(* the thread's variable is the session's as long as no handshake that had   *)
(* named a host failed on the thread.                                        *)

Handshake == {"handshake", "certify", "finish"}
ThreadStates == {"idle", "create", "serve", "close"} \cup Handshake
UpdateSteps == {"idle", "cert", "parse", "ca", "unlock"}
Inputs == {"good", "badCert", "badKey", "otherKey", "badCA"}
Sessions ==
    [alive : BOOLEAN, asked : Names \cup {S!NoName}, sni : Names \cup {S!NoName}, cert : Nat,
     used : Nat, done : BOOLEAN, good : BOOLEAN, upgraded : BOOLEAN, goodbye : BOOLEAN]

ServerTypes ==
    /\ server_pc \in [Threads -> ThreadStates]
    /\ conn \in [Threads -> Conns \cup {S!NoConn}]
    /\ pending_sni \in [Threads -> Names \cup {S!NoName}]
    /\ leftOver \in [Threads -> BOOLEAN]
    /\ server_session \in [Conns -> Sessions]
    /\ server_sock \in [Conns -> {"accepted", "open", "closed"}]
    /\ cert \in Nat /\ updates \in Nat
    /\ update \in [step : UpdateSteps, input : Inputs, result : BOOLEAN, keyless : BOOLEAN]

\* One thread for each open connection, one connection for each busy thread.
OneThread ==
    /\ \A t \in Threads : server_pc[t] = "idle" <=> conn[t] = S!NoConn
    /\ \A t \in Threads : conn[t] # S!NoConn => server_sock[conn[t]] = "open"
    /\ \A t, u \in Threads : conn[t] # S!NoConn /\ conn[t] = conn[u] => t = u
    /\ \A c \in Conns : server_sock[c] = "open" => \E t \in Threads : conn[t] = c

\* A session begins on a socket that is open and ends before it closes.
SessionPlace ==
    \A c \in Conns : server_sock[c] # "open" => ~server_session[c].alive

\* The handshake used the session's certificate, and was not done without.
Certified(s) ==
    /\ s.used = 0 \/ s.used = s.cert
    /\ s.done => s.used # 0

Certificates ==
    server_backend = "openssl" =>
        /\ cert # 0 \/ update.keyless
        /\ update.step # "parse"
        /\ \A c \in Conns : Certified(server_session[c])
        /\ \A t \in Threads :
               server_pc[t] = "finish" => server_session[conn[t]].used # 0

\* The thread's variable holds the name of its own handshake, or none.
NamesKept ==
    server_backend = "mbedtls" =>
        \A t \in Threads : ~leftOver[t] =>
            pending_sni[t] = IF server_pc[t] \in {"certify", "finish"}
                             THEN server_session[conn[t]].asked ELSE S!NoName

ServerInv == ServerTypes /\ OneThread /\ SessionPlace /\ Certificates /\ NamesKept

\* Before the first connection all of this holds.
LEMMA InitServer == S!Init => ServerInv
<1> SUFFICES ASSUME S!Init PROVE ServerInv
  OBVIOUS
<1>1. ServerTypes
  BY DEF S!Init, S!Idle, S!NoSession, ServerTypes, ThreadStates, UpdateSteps, Inputs, Sessions
<1>2. OneThread /\ SessionPlace
  BY DEF S!Init, S!NoSession, OneThread, SessionPlace
<1>3. Certificates
  BY DEF S!Init, S!Idle, S!NoSession, Certificates, Certified
<1>4. NamesKept
  BY DEF S!Init, NamesKept
<1> QED
  BY <1>1, <1>2, <1>3, <1>4 DEF ServerInv

\* A step of a thread to another place of its connection: only its own session,
\* name and history change.
LEMMA OwnStepKeeps ==
    ASSUME ServerInv, NEW t \in Threads,
           NEW s \in Sessions, NEW l \in ThreadStates \ {"idle"},
           NEW sni \in Names \cup {S!NoName}, NEW b \in BOOLEAN,
           conn[t] # S!NoConn,
           server_session' = [server_session EXCEPT ![conn[t]] = s],
           server_pc' = [server_pc EXCEPT ![t] = l],
           pending_sni' = [pending_sni EXCEPT ![t] = sni],
           leftOver' = [leftOver EXCEPT ![t] = b],
           UNCHANGED <<server_backend, cert, update, updates, conn, server_sock>>,
           server_backend = "openssl" => Certified(s) /\ (l = "finish" => s.used # 0),
           server_backend = "mbedtls" /\ ~b =>
               /\ l \in {"certify", "finish"} => sni = s.asked
               /\ l \notin {"certify", "finish"} => sni = S!NoName
    PROVE  ServerInv'
<1>0. conn[t] \in Conns
  BY DEF ServerInv, ServerTypes
<1>1. ServerTypes'
  BY <1>0 DEF ServerInv, ServerTypes
<1>2. OneThread'
  BY <1>0 DEF ServerInv, ServerTypes, OneThread, ThreadStates
<1>3. server_sock[conn[t]] = "open"
  BY DEF ServerInv, OneThread
<1>4. SessionPlace'
  BY <1>0, <1>3 DEF ServerInv, ServerTypes, SessionPlace
<1>5. Certificates'
  <2> SUFFICES ASSUME server_backend = "openssl" PROVE Certificates'
    BY DEF Certificates
  <2>1. (cert # 0 \/ update.keyless) /\ update.step # "parse"
    BY DEF ServerInv, Certificates
  <2>2. ASSUME NEW c \in Conns PROVE Certified(server_session'[c])
    BY <1>0 DEF ServerInv, ServerTypes, Certificates
  <2>3. ASSUME NEW u \in Threads, server_pc'[u] = "finish"
        PROVE  server_session'[conn[u]].used # 0
    <3>1. CASE u = t
      BY <1>0, <2>3, <3>1 DEF ServerInv, ServerTypes
    <3>2. CASE u # t
      <4>1. server_pc[u] = "finish"
        BY <2>3, <3>2 DEF ServerInv, ServerTypes
      <4>2. conn[u] # conn[t]
        BY <3>2, <4>1 DEF ServerInv, OneThread
      <4> QED
        BY <1>0, <4>1, <4>2 DEF ServerInv, ServerTypes, Certificates
    <3> QED
      BY <3>1, <3>2
  <2> QED
    BY <2>1, <2>2, <2>3 DEF Certificates
<1>6. NamesKept'
  <2> SUFFICES ASSUME server_backend = "mbedtls", NEW u \in Threads, ~leftOver'[u]
               PROVE  pending_sni'[u] = IF server_pc'[u] \in {"certify", "finish"}
                                        THEN server_session'[conn'[u]].asked ELSE S!NoName
    BY DEF NamesKept
  <2>1. CASE u = t
    BY <1>0, <2>1 DEF ServerInv, ServerTypes
  <2>2. CASE u # t
    <3>1. conn[u] # conn[t] \/ server_pc[u] = "idle"
      BY <2>2 DEF ServerInv, OneThread
    <3> QED
      BY <1>0, <2>2, <3>1 DEF ServerInv, ServerTypes, NamesKept
  <2> QED
    BY <2>1, <2>2
<1> QED
  BY <1>1, <1>2, <1>4, <1>5, <1>6 DEF ServerInv

\* What the threads of the pool do keeps it.
LEMMA HandleKeeps ==
    ASSUME ServerInv, NEW t \in Threads, S!Handle(t)
    PROVE  ServerInv'
<1> DEFINE c == conn[t]
           s == server_session[c]
<1>1. CASE S!Take(t)
  <2>1. PICK d \in Conns : /\ server_sock[d] = "accepted"
                           /\ server_sock' = [server_sock EXCEPT ![d] = "open"]
                           /\ conn' = [conn EXCEPT ![t] = d]
    BY <1>1 DEF S!Take
  <2>2. /\ server_pc[t] = "idle" /\ server_pc' = [server_pc EXCEPT ![t] = "create"]
        /\ UNCHANGED <<server_backend, cert, update, updates, pending_sni, server_session,
                       leftOver>>
    BY <1>1 DEF S!Take, S!Goto, S!updating
  <2>3. d # S!NoConn /\ conn[t] = S!NoConn /\ \A u \in Threads : conn[u] # d
    BY <2>1, <2>2, NetworkAssumption DEF S!ServerAssumption, ServerInv, OneThread
  <2>4. ServerTypes'
    BY <2>1, <2>2 DEF ServerInv, ServerTypes, ThreadStates
  <2>5. OneThread'
    <3>1. /\ \A u \in Threads \ {t} : conn'[u] = conn[u] /\ server_pc'[u] = server_pc[u]
          /\ conn'[t] = d /\ server_pc'[t] = "create"
          /\ server_sock'[d] = "open"
          /\ \A e \in Conns \ {d} : server_sock'[e] = server_sock[e]
      BY <2>1, <2>2 DEF ServerInv, ServerTypes
    <3>2. \A u \in Threads : conn[u] \in Conns \cup {S!NoConn}
      BY DEF ServerInv, ServerTypes
    <3>3. \A u \in Threads : server_pc'[u] = "idle" <=> conn'[u] = S!NoConn
      BY <2>3, <3>1 DEF ServerInv, OneThread
    <3>4. \A u \in Threads : conn'[u] # S!NoConn => server_sock'[conn'[u]] = "open"
      BY <2>3, <3>1, <3>2 DEF ServerInv, OneThread
    <3>5. \A u, v \in Threads : conn'[u] # S!NoConn /\ conn'[u] = conn'[v] => u = v
      BY <2>3, <3>1 DEF ServerInv, OneThread
    <3>6. \A e \in Conns : server_sock'[e] = "open" => \E u \in Threads : conn'[u] = e
      BY <2>3, <3>1, NetworkAssumption DEF S!ServerAssumption, ServerInv, OneThread
    <3> QED
      BY <3>3, <3>4, <3>5, <3>6 DEF OneThread
  <2>6. SessionPlace'
    BY <2>1, <2>2 DEF ServerInv, ServerTypes, SessionPlace
  <2>7. Certificates' /\ NamesKept'
    <3>1. \A u \in Threads : server_pc'[u] = "finish" => server_pc[u] = "finish" /\ conn'[u] = conn[u]
      BY <2>1, <2>2 DEF ServerInv, ServerTypes
    <3>2. Certificates'
      BY <2>2, <3>1 DEF ServerInv, Certificates
    <3>3. NamesKept'
      BY <2>1, <2>2 DEF ServerInv, ServerTypes, NamesKept
    <3> QED
      BY <3>2, <3>3
  <2> QED
    BY <2>4, <2>5, <2>6, <2>7 DEF ServerInv
<1>2. CASE S!CreateSession(t)
  <2>1. /\ server_pc[t] = "create"
        /\ UNCHANGED <<server_backend, cert, update, updates, conn, pending_sni, server_sock,
                       leftOver>>
        /\ \/ /\ server_session' = [server_session EXCEPT ![c] =
                     IF server_backend = "openssl" THEN S!create_session_openssl
                     ELSE S!create_session_mbedtls]
              /\ server_pc' = [server_pc EXCEPT ![t] = "handshake"]
           \/ /\ server_session' = server_session
              /\ server_pc' = [server_pc EXCEPT ![t] = "close"]
    BY <1>2 DEF S!CreateSession, S!Goto, S!updating
  <2>2. c # S!NoConn /\ c \in Conns /\ s \in Sessions
    BY <2>1 DEF ServerInv, ServerTypes, OneThread
  <2>3. /\ leftOver' = [leftOver EXCEPT ![t] = leftOver[t]]
        /\ pending_sni' = [pending_sni EXCEPT ![t] = pending_sni[t]]
        /\ leftOver[t] \in BOOLEAN /\ pending_sni[t] \in Names \cup {S!NoName}
    BY <2>1 DEF ServerInv, ServerTypes
  <2>4. server_backend = "mbedtls" /\ ~leftOver[t] => pending_sni[t] = S!NoName
    BY <2>1 DEF ServerInv, NamesKept
  <2>5. CASE server_session' = server_session
    <3>1. server_session' = [server_session EXCEPT ![c] = s]
      BY <2>2, <2>5 DEF ServerInv, ServerTypes
    <3>2. server_backend = "openssl" => Certified(s)
      BY <2>2 DEF ServerInv, Certificates
    <3>3. PICK l \in {"handshake", "close"} : server_pc' = [server_pc EXCEPT ![t] = l]
      BY <2>1
    <3>4. l \in ThreadStates \ {"idle"} /\ l \notin {"certify", "finish"}
      BY DEF ThreadStates, Handshake
    <3> QED
      BY <2>1, <2>2, <2>3, <2>4, <3>1, <3>2, <3>3, <3>4, OwnStepKeeps
  <2>6. CASE /\ server_session' = [server_session EXCEPT ![c] =
                    IF server_backend = "openssl" THEN S!create_session_openssl
                    ELSE S!create_session_mbedtls]
             /\ server_pc' = [server_pc EXCEPT ![t] = "handshake"]
    <3> DEFINE new == IF server_backend = "openssl" THEN S!create_session_openssl
                      ELSE S!create_session_mbedtls
    <3>1. cert \in Nat
      BY DEF ServerInv, ServerTypes
    <3>2. /\ new \in Sessions
          /\ server_backend = "openssl" => Certified(new)
      BY <3>1 DEF Sessions, S!create_session_openssl, S!create_session_mbedtls, S!NoSession,
                  Certified
    <3> HIDE DEF new
    <3> QED
      BY <2>1, <2>2, <2>3, <2>4, <2>6, <3>2, OwnStepKeeps DEF ThreadStates, Handshake, new
  <2> QED
    BY <2>1, <2>5, <2>6
<1>3. CASE S!Hello(t)
  <2>1. PICK name \in Names \cup {S!NoName} :
            /\ server_session' = [server_session EXCEPT ![c].asked = name]
            /\ pending_sni' = IF name # S!NoName /\ server_backend = "mbedtls"
                              THEN [pending_sni EXCEPT ![t] = name] ELSE pending_sni
    BY <1>3 DEF S!Hello, S!Set
  <2>2. /\ server_pc[t] = "handshake" /\ server_pc' = [server_pc EXCEPT ![t] = "certify"]
        /\ UNCHANGED <<server_backend, cert, update, updates, conn, server_sock, leftOver>>
    BY <1>3 DEF S!Hello, S!Goto, S!updating
  <2>3. c # S!NoConn /\ c \in Conns /\ s \in Sessions
    BY <2>2 DEF ServerInv, ServerTypes, OneThread
  <2> DEFINE new == [s EXCEPT !.asked = name]
             sni == IF name # S!NoName /\ server_backend = "mbedtls" THEN name ELSE pending_sni[t]
  <2>4. /\ new \in Sessions
        /\ new.asked = name
        /\ Certified(s) => Certified(new)
    BY <2>3 DEF Sessions, Certified
  <2>5. server_session' = [server_session EXCEPT ![c] = new]
    BY <2>1, <2>3 DEF ServerInv, ServerTypes
  <2>6. /\ sni \in Names \cup {S!NoName} /\ leftOver[t] \in BOOLEAN
        /\ pending_sni' = [pending_sni EXCEPT ![t] = sni]
        /\ leftOver' = [leftOver EXCEPT ![t] = leftOver[t]]
    BY <2>1, <2>2 DEF ServerInv, ServerTypes
  <2>7. server_backend = "mbedtls" /\ ~leftOver[t] => sni = name
    BY <2>2 DEF ServerInv, NamesKept
  <2>8. server_backend = "openssl" => Certified(s)
    BY <2>3 DEF ServerInv, Certificates
  <2> HIDE DEF new, sni
  <2> QED
    BY <2>2, <2>3, <2>4, <2>5, <2>6, <2>7, <2>8, OwnStepKeeps DEF ThreadStates, Handshake
<1>4. CASE S!Certify(t)
  <2> DEFINE used == IF server_backend = "openssl" THEN s.cert ELSE cert
  <2>1. /\ server_pc[t] = "certify"
        /\ UNCHANGED <<server_backend, cert, update, updates, conn, pending_sni, server_sock>>
        /\ \/ /\ server_session' = [server_session EXCEPT ![c].used = used] /\ used # 0
              /\ server_pc' = [server_pc EXCEPT ![t] = "finish"]
              /\ leftOver' = leftOver
           \/ /\ leftOver' = [leftOver EXCEPT ![t] = @ \/ s.asked # S!NoName]
              /\ server_pc' = [server_pc EXCEPT ![t] = "close"]
              /\ server_session' = server_session
    BY <1>4 DEF S!Certify, S!Goto, S!Set, S!updating
  <2>2. c # S!NoConn /\ c \in Conns /\ s \in Sessions
    BY <2>1 DEF ServerInv, ServerTypes, OneThread
  <2>3. /\ pending_sni' = [pending_sni EXCEPT ![t] = pending_sni[t]]
        /\ leftOver[t] \in BOOLEAN /\ pending_sni[t] \in Names \cup {S!NoName}
    BY <2>1 DEF ServerInv, ServerTypes
  <2>4. server_backend = "mbedtls" /\ ~leftOver[t] => pending_sni[t] = s.asked
    BY <2>1 DEF ServerInv, NamesKept
  <2>5. server_backend = "openssl" => Certified(s)
    BY <2>2 DEF ServerInv, Certificates
  <2>6. CASE /\ server_session' = [server_session EXCEPT ![c].used = used] /\ used # 0
             /\ server_pc' = [server_pc EXCEPT ![t] = "finish"]
             /\ leftOver' = leftOver
    <3> DEFINE new == [s EXCEPT !.used = used]
    <3>1. used \in Nat
      BY <2>2 DEF ServerInv, ServerTypes, Sessions
    <3>2. /\ new \in Sessions /\ new.asked = s.asked
          /\ new.used = used /\ new.used # 0 /\ new.cert = s.cert
      BY <2>2, <2>6, <3>1 DEF Sessions
    <3>3. server_session' = [server_session EXCEPT ![c] = new]
      BY <2>2, <2>6 DEF ServerInv, ServerTypes
    <3>4. leftOver' = [leftOver EXCEPT ![t] = leftOver[t]]
      BY <2>6 DEF ServerInv, ServerTypes
    <3>5. server_backend = "openssl" => Certified(new)
      BY <2>5, <3>2 DEF Certified
    <3>6. server_backend = "mbedtls" /\ ~leftOver[t] => pending_sni[t] = new.asked
      BY <2>4, <3>2
    <3>7. /\ server_pc' = [server_pc EXCEPT ![t] = "finish"]
          /\ "finish" \in ThreadStates \ {"idle"}
          /\ UNCHANGED <<server_backend, cert, update, updates, conn, server_sock>>
      BY <2>1, <2>6 DEF ThreadStates, Handshake
    <3> HIDE DEF new, used
    <3> QED
      BY <2>2, <2>3, <3>2, <3>3, <3>4, <3>5, <3>6, <3>7, OwnStepKeeps
  <2>7. CASE /\ leftOver' = [leftOver EXCEPT ![t] = @ \/ s.asked # S!NoName]
             /\ server_pc' = [server_pc EXCEPT ![t] = "close"]
             /\ server_session' = server_session
    <3>1. server_session' = [server_session EXCEPT ![c] = s]
      BY <2>2, <2>7 DEF ServerInv, ServerTypes
    <3> DEFINE b == leftOver[t] \/ s.asked # S!NoName
    <3>2. b \in BOOLEAN
      OBVIOUS
    <3>3. leftOver' = [leftOver EXCEPT ![t] = b]
      BY <2>7
    <3>4. server_backend = "mbedtls" /\ ~b => pending_sni[t] = S!NoName
      BY <2>3, <2>4
    <3>5. /\ server_pc' = [server_pc EXCEPT ![t] = "close"]
          /\ "close" \in ThreadStates \ {"idle"}
          /\ UNCHANGED <<server_backend, cert, update, updates, conn, server_sock>>
      BY <2>1, <2>7 DEF ThreadStates
    <3> HIDE DEF b
    <3> QED
      BY <2>2, <2>3, <2>5, <3>1, <3>2, <3>3, <3>4, <3>5, OwnStepKeeps
  <2> QED
    BY <2>1, <2>6, <2>7
<1>5. CASE S!Finish(t)
  <2> DEFINE sni == IF server_backend = "openssl" THEN s.sni ELSE pending_sni[t]
             new == [s EXCEPT !.done = TRUE, !.sni = sni]
  <2>1. /\ server_pc[t] = "finish" /\ server_pc' = [server_pc EXCEPT ![t] = "serve"]
        /\ server_session' = [server_session EXCEPT ![c].done = TRUE,
                ![c].sni = IF server_backend = "openssl" THEN @ ELSE pending_sni[t]]
        /\ pending_sni' = [pending_sni EXCEPT ![t] = S!NoName]
        /\ leftOver' = [leftOver EXCEPT ![t] = FALSE]
        /\ UNCHANGED <<server_backend, cert, update, updates, conn, server_sock>>
    BY <1>5 DEF S!Finish, S!Goto, S!updating
  <2>2. c # S!NoConn /\ c \in Conns /\ s \in Sessions
    BY <2>1 DEF ServerInv, ServerTypes, OneThread
  <2>3. /\ new \in Sessions
        /\ Certified(s) /\ s.used # 0 => Certified(new)
    BY <2>2 DEF ServerInv, ServerTypes, Sessions, Certified
  <2>4. server_session' = [server_session EXCEPT ![c] = new]
    BY <2>1, <2>2 DEF ServerInv, ServerTypes, Sessions
  <2>5. server_backend = "openssl" => Certified(s) /\ s.used # 0
    BY <2>1, <2>2 DEF ServerInv, Certificates
  <2> HIDE DEF new
  <2> QED
    BY <2>1, <2>2, <2>3, <2>4, <2>5, OwnStepKeeps DEF ThreadStates
<1>6. CASE S!HandshakeFails(t)
  <2>1. /\ server_pc[t] \in Handshake /\ server_pc' = [server_pc EXCEPT ![t] = "close"]
        /\ leftOver' = [leftOver EXCEPT ![t] = @ \/ s.asked # S!NoName]
        /\ UNCHANGED <<server_backend, cert, update, updates, conn, pending_sni, server_session,
                       server_sock>>
    BY <1>6 DEF S!HandshakeFails, S!Goto, S!updating, Handshake
  <2>2. c # S!NoConn /\ c \in Conns /\ s \in Sessions
    BY <2>1 DEF ServerInv, ServerTypes, OneThread, Handshake
  <2>3. /\ pending_sni' = [pending_sni EXCEPT ![t] = pending_sni[t]]
        /\ server_session' = [server_session EXCEPT ![c] = s]
        /\ pending_sni[t] \in Names \cup {S!NoName}
    BY <2>1, <2>2 DEF ServerInv, ServerTypes
  <2> DEFINE b == leftOver[t] \/ s.asked # S!NoName
  <2>4. b \in BOOLEAN
    OBVIOUS
  <2>5. leftOver' = [leftOver EXCEPT ![t] = b]
    BY <2>1
  <2>6. server_backend = "mbedtls" /\ ~b => pending_sni[t] = S!NoName
    BY <2>1 DEF ServerInv, ServerTypes, NamesKept
  <2>7. server_backend = "openssl" => Certified(s)
    BY <2>2 DEF ServerInv, Certificates
  <2>8. /\ server_pc' = [server_pc EXCEPT ![t] = "close"]
        /\ "close" \in ThreadStates \ {"idle"}
        /\ UNCHANGED <<server_backend, cert, update, updates, conn, server_sock>>
    BY <2>1 DEF ThreadStates
  <2> HIDE DEF b
  <2> QED
    BY <2>2, <2>3, <2>4, <2>5, <2>6, <2>7, <2>8, OwnStepKeeps
<1>7. CASE S!Serve(t)
  <2>1. /\ server_pc[t] = "serve" /\ server_pc' = [server_pc EXCEPT ![t] = "close"]
        /\ UNCHANGED <<server_backend, cert, update, updates, conn, pending_sni, server_sock,
                       leftOver>>
    BY <1>7 DEF S!Serve, S!Goto, S!updating
  <2>2. c # S!NoConn /\ c \in Conns /\ s \in Sessions
    BY <2>1 DEF ServerInv, ServerTypes, OneThread
  <2>3. PICK good, upgraded \in BOOLEAN :
            server_session' = [server_session EXCEPT ![c].good = good, ![c].upgraded = upgraded]
    BY <1>7 DEF S!Serve
  <2> DEFINE new == [s EXCEPT !.good = good, !.upgraded = upgraded]
  <2>4. /\ new \in Sessions
        /\ Certified(s) => Certified(new)
    BY <2>2 DEF Sessions, Certified
  <2>5. server_session' = [server_session EXCEPT ![c] = new]
    BY <2>2, <2>3 DEF ServerInv, ServerTypes, Sessions
  <2>6. /\ leftOver' = [leftOver EXCEPT ![t] = leftOver[t]]
        /\ pending_sni' = [pending_sni EXCEPT ![t] = pending_sni[t]]
        /\ leftOver[t] \in BOOLEAN /\ pending_sni[t] \in Names \cup {S!NoName}
    BY <2>1 DEF ServerInv, ServerTypes
  <2>7. server_backend = "mbedtls" /\ ~leftOver[t] => pending_sni[t] = S!NoName
    BY <2>1 DEF ServerInv, NamesKept
  <2>8. server_backend = "openssl" => Certified(s)
    BY <2>2 DEF ServerInv, Certificates
  <2> HIDE DEF new
  <2> QED
    BY <2>1, <2>2, <2>4, <2>5, <2>6, <2>7, <2>8, OwnStepKeeps DEF ThreadStates
<1>8. CASE S!Close(t)
  <2> DEFINE new == [S!NoSession EXCEPT !.goodbye = S!Graceful(s)]
  <2>1. /\ server_pc[t] = "close" /\ server_pc' = [server_pc EXCEPT ![t] = "idle"]
        /\ server_session' = [server_session EXCEPT ![c] = new]
        /\ server_sock' = [server_sock EXCEPT ![c] = "closed"]
        /\ conn' = [conn EXCEPT ![t] = S!NoConn]
        /\ UNCHANGED <<server_backend, cert, update, updates, pending_sni, leftOver>>
    BY <1>8 DEF S!Close, S!Goto, S!updating
  <2>2. c # S!NoConn /\ c \in Conns /\ s \in Sessions
    BY <2>1 DEF ServerInv, ServerTypes, OneThread
  <2>3. new \in Sessions /\ ~new.alive /\ Certified(new)
    BY <2>2 DEF Sessions, S!NoSession, S!Graceful, Certified
  <2> HIDE DEF new
  <2>4. ServerTypes'
    BY <2>1, <2>2, <2>3 DEF ServerInv, ServerTypes, ThreadStates
  <2>5. OneThread'
    BY <2>1, <2>2 DEF ServerInv, ServerTypes, OneThread
  <2>6. SessionPlace'
    BY <2>1, <2>2, <2>3 DEF ServerInv, ServerTypes, SessionPlace
  <2>7. Certificates'
    <3> SUFFICES ASSUME server_backend = "openssl" PROVE Certificates'
      BY <2>1 DEF Certificates
    <3>1. (cert' # 0 \/ update'.keyless) /\ update'.step # "parse"
      BY <2>1 DEF ServerInv, Certificates
    <3>2. \A d \in Conns : Certified(server_session'[d])
      BY <2>1, <2>2, <2>3 DEF ServerInv, ServerTypes, Certificates
    <3>3. ASSUME NEW u \in Threads, server_pc'[u] = "finish"
          PROVE  server_session'[conn'[u]].used # 0
      <4>1. u # t /\ server_pc[u] = "finish" /\ conn'[u] = conn[u]
        BY <2>1, <3>3 DEF ServerInv, ServerTypes
      <4>2. conn[u] # c
        BY <2>2, <4>1 DEF ServerInv, OneThread
      <4> QED
        BY <2>1, <2>2, <4>1, <4>2 DEF ServerInv, ServerTypes, Certificates
    <3> QED
      BY <2>1, <3>1, <3>2, <3>3 DEF Certificates
  <2>8. NamesKept'
    <3> SUFFICES ASSUME server_backend = "mbedtls", NEW u \in Threads, ~leftOver[u]
                 PROVE  pending_sni[u] = IF server_pc'[u] \in {"certify", "finish"}
                                         THEN server_session'[conn'[u]].asked ELSE S!NoName
      BY <2>1 DEF NamesKept
    <3>1. CASE u = t
      BY <2>1, <3>1 DEF ServerInv, ServerTypes, NamesKept
    <3>2. CASE u # t
      <4>1. conn[u] # c \/ server_pc[u] = "idle"
        BY <2>2, <3>2 DEF ServerInv, OneThread
      <4> QED
        BY <2>1, <3>2, <4>1 DEF ServerInv, ServerTypes, NamesKept
    <3> QED
      BY <3>1, <3>2
  <2> QED
    BY <2>4, <2>5, <2>6, <2>7, <2>8 DEF ServerInv
<1> QED
  BY <1>1, <1>2, <1>3, <1>4, <1>5, <1>6, <1>7, <1>8 DEF S!Handle

\* So does update_certs_pem: with OpenSSL the context loses its certificate only to
\* a key that is not its own.
LEMMA UpdateKeeps == ASSUME ServerInv, S!Update PROVE ServerInv'
<1>1. UNCHANGED <<server_backend, server_pc, conn, pending_sni, server_session, server_sock,
                  leftOver>>
  BY DEF S!Update, S!BeginUpdate, S!update_openssl, S!update_mbedtls_free, S!update_mbedtls_parse,
     S!update_client_ca, S!EndUpdate, S!updater
<1> DEFINE Updated ==
               /\ cert' \in Nat /\ updates' \in Nat
               /\ update' \in [step : UpdateSteps, input : Inputs, result : BOOLEAN,
                               keyless : BOOLEAN]
               /\ server_backend = "openssl" =>
                      (cert' # 0 \/ update'.keyless) /\ update'.step # "parse"
<1>2. Updated
  <2> DEFINE Record == [step : UpdateSteps, input : Inputs, result : BOOLEAN, keyless : BOOLEAN]
  <2>1. /\ update \in Record /\ cert \in Nat /\ updates \in Nat
        /\ server_backend = "openssl" => (cert # 0 \/ update.keyless) /\ update.step # "parse"
    BY DEF ServerInv, ServerTypes, Certificates
  <2>2. CASE S!BeginUpdate
    <3>1. PICK input \in Inputs :
              update' = [update EXCEPT !.step = "cert", !.input = input, !.result = TRUE]
      BY <2>2 DEF S!BeginUpdate, Inputs
    <3>2. update' \in Record /\ update'.step = "cert" /\ update'.keyless = update.keyless
      BY <2>1, <3>1 DEF UpdateSteps
    <3>3. cert' = cert /\ updates' = updates + 1
      BY <2>2 DEF S!BeginUpdate
    <3> QED
      BY <2>1, <3>2, <3>3
  <2>3. ASSUME NEW s \in {"ca", "parse", "idle", "unlock"}, S!Step(s), updates' = updates,
               cert' = cert \/ (cert' = 0 /\ server_backend = "mbedtls"),
               server_backend = "openssl" => s # "parse"
        PROVE  Updated
    BY <2>1, <2>3 DEF S!Step, UpdateSteps
  <2>4. ASSUME S!Fail, cert' = cert, updates' = updates PROVE Updated
    BY <2>1, <2>4 DEF S!Fail, UpdateSteps
  <2>5. ASSUME S!Renewed, updates' = updates PROVE Updated
    <3>1. cert' = updates + 1 /\ cert' \in Nat /\ cert' # 0
      BY <2>1, <2>5 DEF S!Renewed
    <3>2. update' \in Record /\ update'.step = "ca"
      BY <2>1, <2>5 DEF S!Renewed, UpdateSteps
    <3> QED
      BY <2>1, <2>5, <3>1, <3>2
  <2>6. ASSUME cert' \in {0, updates + 1}, updates' = updates,
               update' = [update EXCEPT !.step = "unlock", !.result = FALSE, !.keyless = TRUE]
        PROVE  Updated
    <3>1. cert' \in Nat
      BY <2>1, <2>6
    <3>2. update' \in Record /\ update'.step = "unlock" /\ update'.keyless
      BY <2>1, <2>6 DEF UpdateSteps
    <3> QED
      BY <2>1, <2>6, <3>1, <3>2
  <2> HIDE DEF Updated
  <2>7. CASE S!update_openssl
    BY <2>4, <2>5, <2>6, <2>7 DEF S!update_openssl, S!updater
  <2>8. CASE S!update_mbedtls_free
    BY <2>3, <2>8 DEF S!update_mbedtls_free, S!updater
  <2>9. CASE S!update_mbedtls_parse
    BY <2>4, <2>5, <2>9 DEF S!update_mbedtls_parse, S!updater
  <2>10. CASE S!update_client_ca
    BY <2>3, <2>4, <2>10 DEF S!update_client_ca, S!updater
  <2>11. CASE S!EndUpdate
    BY <2>3, <2>11 DEF S!EndUpdate
  <2> QED
    BY <2>2, <2>7, <2>8, <2>9, <2>10, <2>11 DEF S!Update
<1>4. ServerTypes' /\ OneThread' /\ SessionPlace' /\ NamesKept'
  BY <1>1, <1>2 DEF ServerInv, ServerTypes, OneThread, SessionPlace, NamesKept
<1>5. Certificates'
  BY <1>1, <1>2 DEF ServerInv, Certificates
<1> QED
  BY <1>4, <1>5 DEF ServerInv

\* Every step of the server keeps it.
LEMMA ServerStep == ServerInv /\ [S!Next]_S!vars => ServerInv'
<1> SUFFICES ASSUME ServerInv, [S!Next]_S!vars PROVE ServerInv'
  OBVIOUS
<1>1. CASE S!Next
  BY <1>1, HandleKeeps, UpdateKeeps DEF S!Next
<1>2. CASE UNCHANGED S!vars
  BY <1>2 DEF S!vars, ServerInv, ServerTypes, OneThread, SessionPlace, Certificates, NamesKept
<1> QED
  BY <1>1, <1>2

-----------------------------------------------------------------------------
(* TlsClient.  What the checks have found so far holds at each place after   *)
(* them, and nothing changes what they relied on while a session is kept.    *)

\* The order of initialize_ssl; an error has been noted by whoever cleans up.
ClientPlace ==
    /\ client_pc \in {"idle", "load", "create", "handshake", "verifier", "verify", "keep", "clean"}
    /\ client_session = "kept" => client_pc = "idle"
    /\ client_session = "made" => client_pc \notin {"idle", "load", "create"}
    /\ client_pc \notin {"idle", "clean"} => client_sock = "open"
    /\ client_session = "kept" => client_sock = "open"
    /\ client_pc \in {"handshake", "verifier", "verify", "keep"} => client_session = "made"
    /\ client_pc = "clean" => client_error # "Success"
    /\ client_pc = "idle" /\ client_sock = "open" /\ client_session # "kept" =>
           proxied /\ client_error # "Success"

\* A context that could not read its file trusts nobody.
TrustPlace ==
    /\ client_backend \in {"openssl", "mbedtls"}
    /\ server.chain # "none"
    /\ initialize_cert_ \in {"no", "failed"} => ca = "none"

\* What the handshake, the verifier and verification have let pass.
Passed ==
    /\ client_backend = "mbedtls" /\ settings.verify => C!Trusted /\ server.name
    /\ settings.verifier # "CertificateRejected"
    /\ settings.verifier # "CertificateAccepted" /\ settings.verify =>
           C!Trusted /\ (settings.hostname => server.name)

ChecksPlace ==
    /\ client_pc \in {"verifier", "verify"} =>
           (client_backend = "mbedtls" /\ settings.verify => C!Trusted /\ server.name)
    /\ client_pc = "verify" => settings.verifier # "CertificateRejected"
    /\ client_pc = "keep" \/ client_session = "kept" => Passed

ClientInv == ClientPlace /\ TrustPlace /\ ChecksPlace

\* A client that has not connected yet has nothing.
LEMMA InitClient == C!Init => ClientInv
<1> SUFFICES ASSUME C!Init PROVE ClientInv
  OBVIOUS
<1>1. client_backend \in {"openssl", "mbedtls"}
  BY NetworkAssumption DEF C!Init, C!ClientAssumption
<1> QED
  BY <1>1 DEF C!Init, ClientInv, ClientPlace, TrustPlace, ChecksPlace

\* Every step of initialize_ssl, and of what comes before and after it, keeps it.
LEMMA ClientStep == ClientInv /\ [C!Next]_C!vars => ClientInv'
<1> SUFFICES ASSUME ClientInv, [C!Next]_C!vars PROVE ClientInv'
  OBVIOUS
<1> USE DEF ClientInv, ClientPlace, TrustPlace, ChecksPlace, Passed, C!Trusted, C!given, C!Goto,
        C!Fail
<1>1. CASE C!Connect
  BY <1>1 DEF C!Connect
<1>2. CASE C!Disconnect
  BY <1>2 DEF C!Disconnect
<1>3. CASE C!load_certs
  BY <1>3 DEF C!load_certs
<1>4. CASE C!CreateSession
  BY <1>4 DEF C!CreateSession
<1>5. CASE C!connect_nonblocking
  BY <1>5 DEF C!connect_nonblocking, C!HandshakeAccepts
<1>6. CASE C!Verifier
  BY <1>6 DEF C!Verifier
<1>7. CASE C!Verify
  BY <1>7 DEF C!Verify
<1>8. CASE C!Keep
  BY <1>8 DEF C!Keep
<1>9. CASE C!CleanUp
  BY <1>9 DEF C!CleanUp
<1>10. CASE UNCHANGED C!vars
  BY <1>10 DEF C!vars
<1> QED
  BY <1>1, <1>2, <1>3, <1>4, <1>5, <1>6, <1>7, <1>8, <1>9, <1>10 DEF C!Next

-----------------------------------------------------------------------------
(* TlsStream.  What the application has read, followed by what the session   *)
(* still holds, is what the peer sent up to the last record the session      *)
(* took; Mbed TLS breaks this once it has looked for a closed peer.          *)

StreamTypes ==
    /\ arrived \in 0 .. Len(RecordEnds) /\ taken \in 0 .. arrived
    /\ pending \in Seq(Nat) /\ got \in Seq(Nat)
    /\ closed \in {"no", "notify", "reset"}

\* A client that never writes, or a back end that peeks.
Keeps == backend # "mbedtls" \/ writes = 0

\* Nothing happens after a clean end, and the peer cannot take it back.
CleanEnd ==
    /\ closed = "notify" => arrived = Len(RecordEnds)
    /\ error_ = "ConnectionClosed" => B!Over /\ pending = <<>> /\ pc = "idle" /\ eof

Verdicts ==
    \A v \in verdicts :
        v.closed /\ backend # "mbedtls" => ~v.unread /\ (backend = "openssl" => v.all)

WritePlace == writes \in Nat /\ (writes = 0 => pc \notin {"write", "rewrite"})

StreamInv ==
    /\ StreamTypes /\ CleanEnd /\ Verdicts /\ WritePlace
    /\ B!BytesInOrder

\* The ends of the records are positions in the peer's bytes, in order.
LEMMA EndsType ==
    /\ Len(RecordEnds) \in Nat
    /\ \A r \in 0 .. Len(RecordEnds) : B!End(r) \in Nat
    /\ \A r \in 1 .. Len(RecordEnds) : B!End(r - 1) < B!End(r)
<1>1. /\ RecordEnds \in Seq(Nat \ {0}) /\ Len(RecordEnds) \in Nat
      /\ DOMAIN RecordEnds = 1 .. Len(RecordEnds)
      /\ \A r \in 1 .. Len(RecordEnds) : RecordEnds[r] \in Nat \ {0}
      /\ \A r, q \in 1 .. Len(RecordEnds) : r < q => RecordEnds[r] < RecordEnds[q]
  BY NetworkAssumption, LenProperties, ElementOfSeq DEF B!StreamAssumption
<1>2. \A r \in 0 .. Len(RecordEnds) : B!End(r) \in Nat
  BY <1>1 DEF B!End
<1>3. ASSUME NEW r \in 1 .. Len(RecordEnds) PROVE B!End(r - 1) < B!End(r)
  <2>1. CASE r = 1
    BY <1>1, <2>1 DEF B!End
  <2>2. CASE r # 1
    <3>1. r - 1 \in 1 .. Len(RecordEnds) /\ r - 1 < r /\ r - 1 # 0 /\ r # 0
      BY <1>1, <2>2
    <3>2. RecordEnds[r - 1] < RecordEnds[r]
      BY <1>1, <3>1
    <3> QED
      BY <3>1, <3>2 DEF B!End
  <2> QED
    BY <2>1, <2>2
<1> QED
  BY <1>1, <1>2, <1>3

\* The next record follows what the records before it brought.
LEMMA NextRecord ==
    ASSUME NEW r \in 0 .. Len(RecordEnds) - 1
    PROVE  /\ B!Record(r + 1) \in Seq(Nat)
           /\ B!Record(r + 1) # <<>>
           /\ B!Sent(B!End(r)) \o B!Record(r + 1) = B!Sent(B!End(r + 1))
<1> DEFINE a == B!End(r)
           b == B!End(r + 1)
<1>1. r + 1 \in 1 .. Len(RecordEnds) /\ r \in 0 .. Len(RecordEnds) /\ (r + 1) - 1 = r
  BY EndsType
<1>2. a \in Nat /\ b \in Nat /\ a < b
  <2>1. b \in Nat
    BY <1>1, EndsType
  <2> QED
    BY <1>1, <2>1, EndsType
<1> HIDE DEF a, b
<1>3. B!Record(r + 1) = [i \in 1 .. b - a |-> a + i] /\ B!Sent(a) = [i \in 1 .. a |-> i]
      /\ B!Sent(b) = [i \in 1 .. b |-> i]
  BY <1>1 DEF B!Record, B!Sent, a, b
<1>4. /\ B!Record(r + 1) \in Seq(Nat) /\ Len(B!Record(r + 1)) = b - a
      /\ \A i \in 1 .. b - a : B!Record(r + 1)[i] = a + i
  <2>1. b - a \in Nat /\ \A i \in 1 .. b - a : a + i \in Nat
    BY <1>2
  <2> DEFINE w == [i \in 1 .. b - a |-> a + i]
  <2>2. w \in Seq(Nat) /\ Len(w) = b - a
    BY <2>1
  <2> QED
    BY <1>3, <2>1, <2>2
<1>5. /\ B!Sent(a) \in Seq(Nat) /\ Len(B!Sent(a)) = a
      /\ \A i \in 1 .. a : B!Sent(a)[i] = i
  BY <1>2, <1>3
<1>6. /\ B!Sent(b) \in Seq(Nat) /\ Len(B!Sent(b)) = b
      /\ \A i \in 1 .. b : B!Sent(b)[i] = i
  BY <1>2, <1>3
<1> DEFINE p == B!Sent(a)
           q == B!Record(r + 1)
           s == B!Sent(b)
<1>7. p \o q = s
  <2> HIDE DEF p, q, s
  <2>1. /\ p \in Seq(Nat) /\ Len(p) = a /\ q \in Seq(Nat) /\ Len(q) = b - a
        /\ s \in Seq(Nat) /\ Len(s) = b /\ a + (b - a) = b
    BY <1>2, <1>4, <1>5, <1>6 DEF p, q, s
  <2>2. /\ p \o q \in Seq(Nat) /\ Len(p \o q) = b
        /\ \A i \in 1 .. b : (p \o q)[i] = IF i <= a THEN p[i] ELSE q[i - a]
    <3>1. /\ p \o q \in Seq(Nat) /\ Len(p \o q) = Len(p) + Len(q)
          /\ \A i \in 1 .. Len(p) + Len(q) :
                 (p \o q)[i] = IF i <= Len(p) THEN p[i] ELSE q[i - Len(p)]
      <4>1. p \in Seq(Nat) /\ q \in Seq(Nat)
        BY <2>1
      <4> QED
        BY <4>1, ConcatProperties, Zenon
    <3>2. Len(p) + Len(q) = b
      BY <2>1
    <3>3. Len(p) = a
      BY <2>1
    <3> QED
      BY <3>1, <3>2, <3>3, Zenon
  <2>3. ASSUME NEW i \in 1 .. b PROVE (p \o q)[i] = s[i]
    <3>1. CASE i <= a
      BY <1>2, <1>5, <1>6, <2>2, <3>1 DEF p, s
    <3>2. CASE ~(i <= a)
      <4>1. i - a \in 1 .. b - a /\ a + (i - a) = i
        BY <1>2, <3>2
      <4>2. q[i - a] = a + (i - a)
        BY <1>4, <4>1 DEF q
      <4> QED
        BY <1>6, <2>2, <3>2, <4>1, <4>2 DEF s
    <3> QED
      BY <3>1, <3>2
  <2> QED
    BY <2>1, <2>2, <2>3, SeqEqual
<1>8. B!Record(r + 1) # <<>>
  BY <1>2, <1>4, EmptySeq
<1> QED
  BY <1>4, <1>7, <1>8 DEF a, b

\* Deliver hands over as much as fits and keeps the rest.
LEMMA DeliverKeeps ==
    ASSUME NEW bytes \in Seq(Nat), got \in Seq(Nat), B!Deliver(bytes)
    PROVE  /\ got' \in Seq(Nat) /\ pending' \in Seq(Nat)
           /\ got' \o pending' = got \o bytes
<1> DEFINE k == B!Min({Len(bytes), BufferSize})
<1>1. Len(bytes) \in Nat /\ BufferSize \in Nat
  BY NetworkAssumption, LenProperties DEF B!StreamAssumption
<1>2. k \in 0 .. Len(bytes)
  <2>1. \E x \in {Len(bytes), BufferSize} : \A y \in {Len(bytes), BufferSize} : x <= y
    BY <1>1
  <2>2. k \in {Len(bytes), BufferSize} /\ \A y \in {Len(bytes), BufferSize} : k <= y
    BY <2>1 DEF B!Min
  <2> QED
    BY <1>1, <2>2
<1>3. got' = got \o SubSeq(bytes, 1, k) /\ pending' = SubSeq(bytes, k + 1, Len(bytes))
  BY DEF B!Deliver
<1> HIDE DEF k
<1>4. /\ SubSeq(bytes, 1, k) \in Seq(Nat) /\ SubSeq(bytes, k + 1, Len(bytes)) \in Seq(Nat)
      /\ SubSeq(bytes, 1, k) \o SubSeq(bytes, k + 1, Len(bytes)) = bytes
  BY <1>2, CutInTwo
<1>5. got' \in Seq(Nat) /\ pending' \in Seq(Nat)
  BY <1>3, <1>4, ConcatProperties
<1>6. got' \o pending' = got \o (SubSeq(bytes, 1, k) \o SubSeq(bytes, k + 1, Len(bytes)))
  <2> DEFINE u == SubSeq(bytes, 1, k)
             v == SubSeq(bytes, k + 1, Len(bytes))
  <2>1. u \in Seq(Nat) /\ v \in Seq(Nat) /\ got' = got \o u /\ pending' = v
    BY <1>3, <1>4
  <2> HIDE DEF u, v
  <2>2. (got \o u) \o v = got \o (u \o v)
    <3>1. \A x, y, z \in Seq(Nat) : (x \o y) \o z = x \o (y \o z)
      OBVIOUS
    <3>2. got \in Seq(Nat) /\ u \in Seq(Nat) /\ v \in Seq(Nat)
      BY <2>1
    <3> QED
      BY <3>1, <3>2, Zenon
  <2>3. got' \o pending' = got \o (u \o v)
    BY <2>1, <2>2, Zenon
  <2> QED
    BY <2>3 DEF u, v
<1> QED
  BY <1>4, <1>5, <1>6, Zenon

\* With nothing pending, the next record is what the application misses.
LEMMA TakeRecord ==
    ASSUME StreamTypes, B!BytesInOrder, pending = <<>>, taken < arrived
    PROVE  /\ taken + 1 \in 0 .. arrived
           /\ B!Record(taken + 1) \in Seq(Nat)
           /\ B!Record(taken + 1) # <<>>
           /\ Keeps => got \o B!Record(taken + 1) = B!Sent(B!End(taken + 1))
<1>1. arrived \in 0 .. Len(RecordEnds) /\ Len(RecordEnds) \in Nat /\ taken \in 0 .. arrived
  BY EndsType DEF StreamTypes
<1>2. taken \in 0 .. Len(RecordEnds) - 1 /\ taken + 1 \in 0 .. arrived
  BY <1>1
<1>3. got \in Seq(Nat) /\ got \o <<>> = got
  BY ConcatEmptySeq DEF StreamTypes
<1>4. ASSUME Keeps PROVE got = B!Sent(B!End(taken))
  BY <1>3, <1>4 DEF Keeps, B!BytesInOrder
<1> QED
  BY <1>2, <1>4, NextRecord

\* tls::read hands over bytes that are pending or the next record's.
LEMMA GivesKeeps ==
    ASSUME StreamTypes, B!BytesInOrder, B!Gives
    PROVE  /\ got' \in Seq(Nat) /\ pending' \in Seq(Nat)
           /\ taken' \in 0 .. arrived
           /\ Keeps => got' \o pending' = B!Sent(B!End(taken'))
<1>1. got \in Seq(Nat) /\ pending \in Seq(Nat) /\ taken \in 0 .. arrived
  BY DEF StreamTypes
<1>2. CASE B!ReadPending
  <2>1. B!Deliver(pending) /\ taken' = taken
    BY <1>2 DEF B!ReadPending
  <2>2. got' \in Seq(Nat) /\ pending' \in Seq(Nat) /\ got' \o pending' = got \o pending
    BY <1>1, <2>1, DeliverKeeps
  <2> QED
    BY <1>1, <2>1, <2>2 DEF Keeps, B!BytesInOrder
<1>3. CASE B!ReadRecord
  <2>1. pending = <<>> /\ taken < arrived /\ taken' = taken + 1
        /\ B!Deliver(B!Record(taken + 1))
    BY <1>3 DEF B!ReadRecord
  <2>2. /\ taken + 1 \in 0 .. arrived /\ B!Record(taken + 1) \in Seq(Nat)
        /\ Keeps => got \o B!Record(taken + 1) = B!Sent(B!End(taken + 1))
    BY <2>1, TakeRecord
  <2>3. /\ got' \in Seq(Nat) /\ pending' \in Seq(Nat)
        /\ got' \o pending' = got \o B!Record(taken + 1)
    BY <1>1, <2>1, <2>2, DeliverKeeps
  <2> QED
    BY <2>1, <2>2, <2>3
<1> QED
  BY <1>2, <1>3 DEF B!Gives

\* When the session holds nothing, a reader that lost nothing has all it has taken.
LEMMA EverythingRead ==
    ASSUME StreamTypes, B!BytesInOrder, Keeps, pending = <<>>
    PROVE  Len(got) = B!End(taken)
<1>1. got \in Seq(Nat) /\ got \o <<>> = got
  BY ConcatEmptySeq DEF StreamTypes
<1>2. got = B!Sent(B!End(taken))
  BY <1>1 DEF Keeps, B!BytesInOrder
<1>3. B!End(taken) \in Nat
  BY EndsType DEF StreamTypes
<1>4. Len(B!Sent(B!End(taken))) = B!End(taken)
  BY <1>3 DEF B!Sent
<1> QED
  BY <1>2, <1>4

\* is_peer_closed moves a record into the session, and loses a byte of it only
\* with Mbed TLS; what it answers is true.
LEMMA CheckKeeps ==
    ASSUME StreamTypes, B!BytesInOrder, Verdicts, B!is_peer_closed,
           backend' = backend, got' = got
    PROVE  /\ pending' \in Seq(Nat)
           /\ taken' \in 0 .. arrived
           /\ backend # "mbedtls" => got' \o pending' = B!Sent(B!End(taken'))
           /\ Verdicts'
<1> DEFINE Answer(b) == [closed |-> b, unread |-> Len(got) < B!End(arrived), all |-> B!Over]
<1>1. got \in Seq(Nat) /\ pending \in Seq(Nat) /\ taken \in 0 .. arrived
  BY DEF StreamTypes
<1>2. ASSUME NEW b, B!Verdict(b),
             b /\ backend # "mbedtls" =>
                 ~(Len(got) < B!End(arrived)) /\ (backend = "openssl" => B!Over)
      PROVE  Verdicts'
  <2>1. verdicts' = verdicts \cup {Answer(b)}
    BY <1>2 DEF B!Verdict
  <2>2. /\ Answer(b).closed = b /\ Answer(b).unread = (Len(got) < B!End(arrived))
        /\ Answer(b).all = B!Over
    OBVIOUS
  <2> HIDE DEF Answer
  <2> QED
    BY <1>2, <2>1, <2>2 DEF Verdicts
<1>3. CASE pending # <<>> /\ B!Verdict(FALSE) /\ UNCHANGED <<pending, taken>>
  BY <1>1, <1>2, <1>3 DEF B!BytesInOrder
<1>4. ASSUME pending = <<>>, taken < arrived, B!Verdict(FALSE), taken' = taken + 1,
             \/ pending' = B!Record(taken + 1)
             \/ backend = "mbedtls" /\ pending' = Tail(B!Record(taken + 1))
      PROVE  /\ pending' \in Seq(Nat) /\ taken' \in 0 .. arrived
             /\ backend # "mbedtls" => got' \o pending' = B!Sent(B!End(taken'))
             /\ Verdicts'
  <2>1. /\ taken + 1 \in 0 .. arrived
        /\ B!Record(taken + 1) \in Seq(Nat) /\ B!Record(taken + 1) # <<>>
        /\ Keeps => got \o B!Record(taken + 1) = B!Sent(B!End(taken + 1))
    BY <1>4, TakeRecord
  <2>2. Tail(B!Record(taken + 1)) \in Seq(Nat)
    BY <2>1, HeadTailProperties
  <2>3. Verdicts'
    BY <1>2, <1>4
  <2> QED
    BY <1>4, <2>1, <2>2, <2>3 DEF Keeps
<1>5. ASSUME pending = <<>>, taken = arrived, UNCHANGED <<pending, taken>>,
             B!Verdict(B!Closed)
      PROVE  /\ pending' \in Seq(Nat) /\ taken' \in 0 .. arrived
             /\ backend # "mbedtls" => got' \o pending' = B!Sent(B!End(taken'))
             /\ Verdicts'
  <2>1. backend # "mbedtls" => ~(Len(got) < B!End(arrived))
    BY <1>1, <1>5, EverythingRead DEF Keeps
  <2>3. B!Closed /\ backend = "openssl" => B!Over
    BY DEF B!Closed
  <2>2. Verdicts'
    BY <1>2, <1>5, <2>1, <2>3
  <2> QED
    BY <1>1, <1>5, <2>2 DEF B!BytesInOrder
<1>6. CASE backend = "mbedtls"
  <2>1. B!ReadsAByte
    BY <1>6 DEF B!is_peer_closed
  <2> QED
    BY <1>3, <1>4, <1>5, <1>6, <2>1 DEF B!ReadsAByte
<1>7. CASE backend # "mbedtls"
  <2>1. B!PeekClosed
    BY <1>7 DEF B!is_peer_closed
  <2> QED
    BY <1>3, <1>4, <1>5, <2>1 DEF B!PeekClosed
<1> QED
  BY <1>6, <1>7

\* A session that has just been made has given nothing.
LEMMA InitStream == B!Init => StreamInv
<1> SUFFICES ASSUME B!Init PROVE StreamInv
  OBVIOUS
<1>1. <<>> \in Seq(Nat) /\ <<>> \o <<>> = <<>> /\ Len(RecordEnds) \in Nat
  BY EmptySeq, EndsType
<1>2. B!Sent(B!End(0)) = <<>>
  BY DEF B!Sent, B!End
<1> QED
  BY <1>1, <1>2 DEF B!Init, StreamInv, StreamTypes, CleanEnd, Verdicts, WritePlace, B!BytesInOrder

\* Every step of the peer, of a read and of a write keeps it.
LEMMA StreamStep == StreamInv /\ [B!Next]_B!vars => StreamInv'
<1> SUFFICES ASSUME StreamInv, [B!Next]_B!vars PROVE StreamInv'
  OBVIOUS
<1>1. StreamTypes /\ CleanEnd /\ Verdicts /\ WritePlace /\ B!BytesInOrder
  BY DEF StreamInv
<1>2. Len(RecordEnds) \in Nat /\ arrived \in 0 .. Len(RecordEnds) /\ taken \in 0 .. arrived
  BY <1>1, EndsType DEF StreamTypes
<1>3. ASSUME UNCHANGED <<backend, taken, pending, got>>, writes' = 0 => writes = 0
      PROVE  B!BytesInOrder'
  BY <1>1, <1>3 DEF B!BytesInOrder, B!Sent, B!End
<1>4. ASSUME UNCHANGED <<backend, verdicts>> PROVE Verdicts'
  BY <1>1, <1>4 DEF Verdicts
<1>5. CASE B!Arrive
  <2>1. /\ arrived < Len(RecordEnds)
        /\ arrived' \in {arrived, arrived + 1}
        /\ UNCHANGED <<backend, taken, closed, pending, got, pc, error_, eof, verdicts, writes>>
    BY <1>5 DEF B!Arrive
  <2>2. StreamTypes'
    BY <1>1, <1>2, <2>1 DEF StreamTypes
  <2>3. CleanEnd'
    BY <1>1, <1>2, <2>1 DEF CleanEnd, B!Over
  <2>4. WritePlace' /\ Verdicts' /\ B!BytesInOrder'
    BY <1>1, <1>3, <1>4, <2>1 DEF WritePlace
  <2> QED
    BY <2>2, <2>3, <2>4 DEF StreamInv
<1>6. CASE B!PeerCloses
  <2>1. /\ closed = "no" /\ closed' \in {"notify", "reset"}
        /\ closed' = "notify" => arrived = Len(RecordEnds)
        /\ UNCHANGED <<backend, arrived, taken, pending, got, pc, error_, eof, verdicts, writes>>
    BY <1>6 DEF B!PeerCloses
  <2>2. StreamTypes'
    BY <1>1, <2>1 DEF StreamTypes
  <2>3. CleanEnd'
    BY <1>1, <2>1 DEF CleanEnd, B!Over
  <2>4. WritePlace' /\ Verdicts' /\ B!BytesInOrder'
    BY <1>1, <1>3, <1>4, <2>1 DEF WritePlace
  <2> QED
    BY <2>2, <2>3, <2>4 DEF StreamInv
<1>7. ASSUME UNCHANGED <<backend, arrived, closed, taken, pending, got, verdicts>>,
             error_' = error_ \/ error_' # "ConnectionClosed",
             error_ = "ConnectionClosed" /\ error_' = error_ => pc' = pc /\ eof' = eof,
             writes' = writes \/ writes' = writes + 1,
             pc' \in {"write", "rewrite"} => pc \in {"write", "rewrite"} \/ writes' = writes + 1
      PROVE  StreamInv'
  <2>1. writes \in Nat
    BY <1>1 DEF WritePlace
  <2>2. StreamTypes'
    BY <1>1, <1>7 DEF StreamTypes
  <2>3. CleanEnd'
    BY <1>1, <1>7 DEF CleanEnd, B!Over
  <2>4. WritePlace'
    BY <1>1, <1>7, <2>1 DEF WritePlace
  <2>5. Verdicts' /\ B!BytesInOrder'
    BY <1>3, <1>4, <1>7, <2>1
  <2> QED
    BY <2>2, <2>3, <2>4, <2>5 DEF StreamInv
<1>8. CASE B!ReadStart
  BY <1>1, <1>7, <1>8 DEF B!ReadStart, B!peer, CleanEnd
<1>9. CASE B!ReadTimesOut
  BY <1>1, <1>7, <1>9 DEF B!ReadTimesOut, B!peer, B!Stop
<1>10. ASSUME B!Gives, pc \in {"read", "retry"}, pc' = "idle",
              UNCHANGED <<backend, arrived, closed, error_, verdicts, writes>>
       PROVE  StreamInv'
  <2>1. /\ got' \in Seq(Nat) /\ pending' \in Seq(Nat) /\ taken' \in 0 .. arrived
        /\ Keeps => got' \o pending' = B!Sent(B!End(taken'))
    BY <1>1, <1>10, GivesKeeps
  <2>2. StreamTypes'
    BY <1>1, <1>10, <2>1 DEF StreamTypes
  <2>3. CleanEnd'
    BY <1>1, <1>10 DEF CleanEnd
  <2>4. WritePlace' /\ Verdicts'
    BY <1>1, <1>4, <1>10 DEF WritePlace
  <2>5. B!BytesInOrder'
    BY <1>10, <2>1 DEF Keeps, B!BytesInOrder, B!Sent, B!End
  <2> QED
    BY <2>2, <2>3, <2>4, <2>5 DEF StreamInv
<1>11. CASE B!Read
  <2>1. pc = "read" /\ UNCHANGED <<backend, arrived, closed, verdicts, writes>>
    BY <1>11 DEF B!Read, B!peer
  <2>2. CASE B!Gives /\ pc' = "idle" /\ UNCHANGED <<error_, eof>>
    BY <1>10, <2>1, <2>2
  <2>3. CASE B!AtEnd /\ pc' = "idle" /\ error_' = "ConnectionClosed" /\ eof' = TRUE
    <3>1. B!Over /\ pending = <<>> /\ UNCHANGED <<pending, got, taken>>
      BY <2>3 DEF B!AtEnd, B!Nothing
    <3>2. StreamTypes' /\ WritePlace'
      BY <1>1, <2>1, <2>3, <3>1 DEF StreamTypes, WritePlace
    <3>3. CleanEnd'
      BY <1>1, <2>1, <2>3, <3>1 DEF CleanEnd, B!Over
    <3>4. Verdicts' /\ B!BytesInOrder'
      BY <1>1, <1>3, <1>4, <2>1, <3>1 DEF WritePlace
    <3> QED
      BY <3>2, <3>3, <3>4 DEF StreamInv
  <2>4. CASE B!Nothing /\ pc' \in {"idle", "retry"} /\ error_' = error_
    <3>1. error_ # "ConnectionClosed"
      BY <1>1, <2>1 DEF CleanEnd
    <3> QED
      BY <1>7, <2>1, <2>4, <3>1 DEF B!Nothing
  <2> QED
    BY <1>11, <2>2, <2>3, <2>4 DEF B!Read, B!Stop, B!Fatal, B!WantRead
<1>12. CASE B!Retry
  <2>1. pc = "retry" /\ UNCHANGED <<backend, arrived, closed, error_, verdicts, writes>>
    BY <1>12 DEF B!Retry, B!peer
  <2>2. CASE B!Gives /\ pc' = "idle"
    BY <1>10, <2>1, <2>2
  <2>3. CASE UNCHANGED <<taken, pending, got>> /\ pc' \in {"idle", "retry"}
    <3>1. error_ # "ConnectionClosed"
      BY <1>1, <2>1 DEF CleanEnd
    <3> QED
      BY <1>7, <2>1, <2>3, <3>1
  <2> QED
    BY <1>12, <2>1, <2>2, <2>3 DEF B!Retry, B!Stop, B!AtEnd, B!Fatal, B!WantRead, B!Nothing
<1>13. CASE B!WriteStart
  <2>1. error_ # "ConnectionClosed"
    BY <1>1, <1>13 DEF CleanEnd, B!WriteStart
  <2> QED
    BY <1>7, <1>13, <2>1 DEF B!WriteStart, B!peer
<1>14. CASE B!Write
  <2>1. /\ pc = "write" /\ pc' \in {"idle", "rewrite"} /\ B!is_peer_closed
        /\ UNCHANGED <<backend, arrived, closed, got, error_, eof, writes>>
    BY <1>14 DEF B!Write, B!peer, B!Stop
  <2>2. /\ pending' \in Seq(Nat) /\ taken' \in 0 .. arrived /\ Verdicts'
        /\ backend # "mbedtls" => got' \o pending' = B!Sent(B!End(taken'))
    BY <1>1, <2>1, CheckKeeps
  <2>3. StreamTypes'
    BY <1>1, <2>1, <2>2 DEF StreamTypes
  <2>4. CleanEnd'
    BY <1>1, <2>1 DEF CleanEnd
  <2>5. WritePlace' /\ writes # 0
    BY <1>1, <2>1 DEF WritePlace
  <2>6. B!BytesInOrder'
    BY <2>1, <2>2, <2>5 DEF B!BytesInOrder, B!Sent, B!End
  <2> QED
    BY <2>2, <2>3, <2>4, <2>5, <2>6 DEF StreamInv
<1>15. CASE B!WriteAgain
  BY <1>1, <1>7, <1>15 DEF B!WriteAgain, B!peer, CleanEnd
<1>16. CASE UNCHANGED B!vars
  BY <1>7, <1>16 DEF B!vars
<1> QED
  BY <1>5, <1>6, <1>8, <1>9, <1>11, <1>12, <1>13, <1>14, <1>15, <1>16 DEF B!Next

-----------------------------------------------------------------------------
(* What the parts promise follows from their invariants.                     *)

\* Sessions and sockets of the server end together, and only its own thread has
\* a connection.
LEMMA ServerEndsClean == ServerInv => S!NothingLeftBehind
<1> SUFFICES ASSUME ServerInv, NEW c \in Conns
             PROVE  /\ server_sock[c] = "closed" => ~server_session[c].alive
                    /\ Cardinality({t \in Threads : conn[t] = c}) =
                           (IF server_sock[c] = "open" THEN 1 ELSE 0)
  <2>1. \A X : S!Cardinality(X) = Cardinality(X)
    BY DEF S!Cardinality, Cardinality, S!IsFiniteSet, IsFiniteSet
  <2> QED
    BY <2>1, Zenon DEF S!NothingLeftBehind
<1>1. server_sock[c] = "closed" => ~server_session[c].alive
  BY DEF ServerInv, SessionPlace
<1>2. c # S!NoConn
  BY NetworkAssumption DEF S!ServerAssumption
<1> DEFINE users == {t \in Threads : conn[t] = c}
<1>3. CASE server_sock[c] = "open"
  <2>1. PICK t \in Threads : conn[t] = c
    BY <1>3 DEF ServerInv, OneThread
  <2>2. users = {t}
    BY <1>2, <2>1 DEF ServerInv, OneThread
  <2>3. Cardinality(users) = 1
    BY <2>2, FS_Singleton
  <2> QED
    BY <1>1, <1>3, <2>3
<1>4. CASE server_sock[c] # "open"
  <2>1. users = {}
    BY <1>2, <1>4 DEF ServerInv, OneThread
  <2>2. Cardinality(users) = 0
    BY <2>1, FS_EmptySet
  <2> QED
    BY <1>1, <1>4, <2>2
<1> QED
  BY <1>3, <1>4

\* With OpenSSL the handshake uses the certificate its session was made with.
LEMMA ServerCertificate == ServerInv => S!CertificateIsWhole
<1> SUFFICES ASSUME ServerInv, server_backend = "openssl"
             PROVE  S!CertificateIsWhole
  BY DEF S!CertificateIsWhole
<1>1. (cert # 0 \/ update.keyless) /\ \A c \in Conns : Certified(server_session[c])
  BY DEF ServerInv, Certificates
<1>2. ASSUME NEW c \in Conns
      PROVE  /\ server_session[c].used \in {0, server_session[c].cert}
             /\ server_session[c].done => server_session[c].used # 0
  BY <1>1, <1>2, Zenon DEF Certified
<1> QED
  BY <1>1, <1>2 DEF S!CertificateIsWhole

\* The client keeps what its settings accept, and nothing half made.
LEMMA ClientKeeps == ClientInv => C!KeptIsAccepted /\ C!NothingHalfMade
<1> SUFFICES ASSUME ClientInv PROVE C!KeptIsAccepted /\ C!NothingHalfMade
  OBVIOUS
<1>1. C!KeptIsAccepted
  BY DEF ClientInv, TrustPlace, ChecksPlace, Passed, C!Trusted, C!ChainIsGood, C!KeptIsAccepted
<1>2. C!NothingHalfMade
  BY DEF ClientInv, ClientPlace, C!NothingHalfMade
<1> QED
  BY <1>1, <1>2

\* A reader has everything at a clean end.
LEMMA StreamEnds == StreamInv => B!BytesInOrder /\ B!EndIsTheEnd /\ B!UnreadIsAlive
<1> SUFFICES ASSUME StreamInv PROVE B!BytesInOrder /\ B!EndIsTheEnd /\ B!UnreadIsAlive
  OBVIOUS
<1>1. B!BytesInOrder /\ B!UnreadIsAlive
  BY DEF StreamInv, Verdicts, B!UnreadIsAlive
<1>2. error_ = "ConnectionClosed" => B!Over /\ pending = <<>>
  BY DEF StreamInv, CleanEnd
<1>3. Keeps /\ error_ = "ConnectionClosed" => Len(got) = B!Bytes
  BY <1>2, EverythingRead DEF StreamInv, B!Over, B!Bytes
<1> QED
  BY <1>1, <1>2, <1>3 DEF B!EndIsTheEnd, Keeps

-----------------------------------------------------------------------------
(* EventStream.  While a connection is read, the event under way is what the *)
(* lines parsed so far make of the next event of the feed, and the id that   *)
(* the next connection will ask with is that of the last event handed over.  *)

\* The lines of an event before its data: the noise, its type, its id.
TypeLines(e) == IF e.event = "message" THEN 0 ELSE 1
IdLine(e) == Len(Noise) + TypeLines(e) + 1

\* The message after i lines of the k-th event.
Parsed(k, i) ==
    E!Event(IF i > Len(Noise) THEN Feed[k].event ELSE "message",
            IF i > IdLine(Feed[k]) THEN SubSeq(Feed[k].data, 1, i - IdLine(Feed[k])) ELSE <<>>,
            IF i >= IdLine(Feed[k]) THEN Feed[k].id ELSE E!Empty)

InFeed(p) ==
    /\ p \in [event : 0 .. Len(Feed), line : Nat]
    /\ p.line < E!LineCount(p)

LoopPlace ==
    /\ E!TypeOK /\ E!QuietAfterStop
    /\ owner \in {"idle", "started", "join"}

\* A failure is a request since the last reconnection, or came before it.
AttemptsCounted ==
    /\ max_reconnect_attempts_ \in Nat /\ reconnect_count \in Nat /\ failures \in Nat
    /\ loop \in {"top", "connect"} => failures <= reconnect_count
    /\ failures <= reconnect_count + 1
    /\ max_reconnect_attempts_ # 0 => reconnect_count <= max_reconnect_attempts_
    /\ max_reconnect_attempts_ # 0 /\ loop = "wait" => reconnect_count < max_reconnect_attempts_

HandedInOrder ==
    /\ Len(handed) \in 0 .. Len(Feed)
    /\ handed = SubSeq(Feed, 1, Len(handed))
    /\ last_event_id_ = IF Len(handed) = 0 THEN E!Empty ELSE Feed[Len(handed)].id

ReadingPlace ==
    /\ InFeed(buffer) /\ InFeed(wire)
    /\ loop \in {"next", "read", "lines"} =>
           /\ E!After(wire, buffer)
           /\ buffer.event = Len(handed)
           /\ current_msg = Parsed(buffer.event + 1, buffer.line)

EventInv == LoopPlace /\ AttemptsCounted /\ HandedInOrder /\ ReadingPlace

\* What the feed is assumed to be, for one event.
LEMMA FeedEvent ==
    /\ Len(Feed) \in Nat /\ DOMAIN Feed = 1 .. Len(Feed) /\ Len(Noise) \in Nat
    /\ \A k \in 1 .. Len(Feed) :
           /\ Feed[k] \in [event : STRING, data : Seq(STRING) \ {<<>>}, id : STRING \ {E!Empty}]
           /\ Feed[k] = E!Event(Feed[k].event, Feed[k].data, Feed[k].id)
           /\ Feed[k].data \in Seq(STRING) /\ Len(Feed[k].data) \in Nat \ {0}
           /\ Feed[k].data[1] # E!Empty /\ Feed[k].data # <<>> /\ Feed[k].id # E!Empty
    /\ \A k, l \in 1 .. Len(Feed) : Feed[k].id = Feed[l].id => k = l
    /\ \A i \in 1 .. Len(Noise) :
           Noise[i] \in {E!Blank, E!Line("comment", E!Empty)} \cup [field : {"retry"}, value : Int]
<1>1. /\ Feed \in Seq([event : STRING, data : Seq(STRING) \ {<<>>}, id : STRING \ {E!Empty}])
      /\ \A k, l \in DOMAIN Feed : Feed[k].id = Feed[l].id => k = l
      /\ \A k \in DOMAIN Feed : Feed[k].data[1] # E!Empty
      /\ Noise \in Seq({E!Blank, E!Line("comment", E!Empty)} \cup [field : {"retry"}, value : Int])
  BY NetworkAssumption DEF E!EventAssumption
<1>2. Len(Feed) \in Nat /\ DOMAIN Feed = 1 .. Len(Feed)
  BY <1>1, LenProperties
<1>3. Len(Noise) \in Nat
  BY <1>1, LenProperties
<1>4. ASSUME NEW k \in 1 .. Len(Feed)
      PROVE  /\ Feed[k] \in [event : STRING, data : Seq(STRING) \ {<<>>}, id : STRING \ {E!Empty}]
             /\ Feed[k] = E!Event(Feed[k].event, Feed[k].data, Feed[k].id)
             /\ Feed[k].data \in Seq(STRING) /\ Len(Feed[k].data) \in Nat \ {0}
             /\ Feed[k].data[1] # E!Empty /\ Feed[k].data # <<>> /\ Feed[k].id # E!Empty
  <2>1. Feed[k] \in [event : STRING, data : Seq(STRING) \ {<<>>}, id : STRING \ {E!Empty}]
    BY <1>1, <1>2, <1>4, ElementOfSeq
  <2>2. Feed[k].data \in Seq(STRING) /\ Feed[k].data # <<>>
    BY <2>1
  <2>3. Len(Feed[k].data) \in Nat \ {0}
    BY <2>2, EmptySeq
  <2>4. Feed[k] = E!Event(Feed[k].event, Feed[k].data, Feed[k].id) /\ Feed[k].id # E!Empty
    BY <2>1 DEF E!Event
  <2> QED
    BY <1>1, <1>2, <2>1, <2>2, <2>3, <2>4
<1>5. ASSUME NEW i \in 1 .. Len(Noise)
      PROVE  Noise[i] \in
                 {E!Blank, E!Line("comment", E!Empty)} \cup [field : {"retry"}, value : Int]
  BY <1>1, <1>5, ElementOfSeq
<1> QED
  BY <1>1, <1>2, <1>3, <1>4, <1>5

\* Which line of an event says what.
LEMMA LinesOfEvent ==
    ASSUME NEW k \in 1 .. Len(Feed)
    PROVE  /\ IdLine(Feed[k]) \in Nat \ {0}
           /\ IdLine(Feed[k]) = Len(Noise) + 1 \/ IdLine(Feed[k]) = Len(Noise) + 2
           /\ IdLine(Feed[k]) = Len(Noise) + 1 <=> Feed[k].event = "message"
           /\ Len(E!LinesOf(Feed[k])) = IdLine(Feed[k]) + Len(Feed[k].data) + 1
           /\ \A i \in 1 .. Len(Noise) : E!LinesOf(Feed[k])[i] = Noise[i]
           /\ Feed[k].event # "message" =>
                  E!LinesOf(Feed[k])[Len(Noise) + 1] = E!Line("event", Feed[k].event)
           /\ E!LinesOf(Feed[k])[IdLine(Feed[k])] = E!Line("id", Feed[k].id)
           /\ \A j \in 1 .. Len(Feed[k].data) :
                  E!LinesOf(Feed[k])[IdLine(Feed[k]) + j] = E!Line("data", Feed[k].data[j])
           /\ E!LinesOf(Feed[k])[IdLine(Feed[k]) + Len(Feed[k].data) + 1] = E!Blank
<1> DEFINE e == Feed[k]
           Fields == {"event", "id", "data", "comment", "blank", "retry"}
           All == [field : Fields, value : STRING \cup Int \cup {E!Empty}]
           a == Noise
           b == IF e.event = "message" THEN <<>> ELSE <<E!Line("event", e.event)>>
           c == <<E!Line("id", e.id)>>
           d == [i \in DOMAIN e.data |-> E!Line("data", e.data[i])]
           f == <<E!Blank>>
           m == Len(Noise)
           t == TypeLines(e)
           size == Len(e.data)
<1>1. e.event \in STRING /\ e.id \in STRING /\ e.data \in Seq(STRING) /\ m \in Nat /\ size \in Nat
  BY FeedEvent
<1>2. t \in {0, 1} /\ (t = 0 <=> e.event = "message") /\ IdLine(e) = m + t + 1
  BY DEF TypeLines, IdLine
<1>3. a \in Seq(All)
  <2>1. E!Blank \in All /\ E!Line("comment", E!Empty) \in All
    BY DEF E!Blank, E!Line
  <2>2. [field : {"retry"}, value : Int] \subseteq All
    OBVIOUS
  <2> HIDE DEF All
  <2>3. \A i \in 1 .. m : Noise[i] \in All
    BY <2>1, <2>2, FeedEvent
  <2> DEFINE NoiseLines ==
                 {E!Blank, E!Line("comment", E!Empty)} \cup [field : {"retry"}, value : Int]
  <2>4. Noise \in Seq(NoiseLines)
    BY NetworkAssumption DEF E!EventAssumption
  <2> HIDE DEF NoiseLines
  <2>5. Noise = [i \in 1 .. m |-> Noise[i]]
    BY <2>4
  <2> QED
    BY <1>1, <2>3, <2>5
<1>4. b \in Seq(All) /\ Len(b) = t /\ (t = 1 => b[1] = E!Line("event", e.event))
  <2>1. E!Line("event", e.event) \in All
    BY <1>1 DEF E!Line
  <2> HIDE DEF All
  <2> QED
    BY <1>2, <2>1
<1>5. c \in Seq(All) /\ Len(c) = 1 /\ c[1] = E!Line("id", e.id)
  <2>1. E!Line("id", e.id) \in All
    BY <1>1 DEF E!Line
  <2> HIDE DEF All
  <2> QED
    BY <2>1
<1>6. d \in Seq(All) /\ Len(d) = size /\ \A j \in 1 .. size : d[j] = E!Line("data", e.data[j])
  <2>1. DOMAIN e.data = 1 .. size
    BY <1>1, LenProperties
  <2>2. \A j \in 1 .. size : E!Line("data", e.data[j]) \in All
    BY <1>1, ElementOfSeq DEF E!Line
  <2> HIDE DEF All
  <2> QED
    BY <1>1, <2>1, <2>2
<1>7. f \in Seq(All) /\ Len(f) = 1 /\ f[1] = E!Blank
  <2>1. E!Blank \in All
    BY DEF E!Line, E!Blank
  <2> HIDE DEF All
  <2> QED
    BY <2>1
<1>8. E!LinesOf(e) = (((a \o b) \o c) \o d) \o f
  BY DEF E!LinesOf
<1> HIDE DEF a, b, c, d, f, t, size, m, e, All
<1> DEFINE ab == a \o b
           abc == ab \o c
           abcd == abc \o d
           all == abcd \o f
<1>9. /\ ab \in Seq(All) /\ Len(ab) = m + t
      /\ \A i \in 1 .. m : ab[i] = a[i]
      /\ t = 1 => ab[m + 1] = b[1]
  <2>1. Len(a) = m
    BY DEF a, m
  <2>2. ab \in Seq(All) /\ Len(ab) = Len(a) + Len(b)
        /\ \A i \in 1 .. Len(a) : ab[i] = a[i]
        /\ \A j \in 1 .. Len(b) : ab[Len(a) + j] = b[j]
    <3>1. a \in Seq(All) /\ b \in Seq(All)
      BY <1>3, <1>4
    <3> QED
      BY <3>1, JoinTwo
  <2> QED
    BY <1>1, <1>2, <1>4, <2>1, <2>2
<1> HIDE DEF ab
<1>10. /\ abc \in Seq(All) /\ Len(abc) = m + t + 1
       /\ \A i \in 1 .. m + t : abc[i] = ab[i]
       /\ abc[m + t + 1] = c[1]
  <2>1. abc \in Seq(All) /\ Len(abc) = Len(ab) + Len(c)
        /\ \A i \in 1 .. Len(ab) : abc[i] = ab[i]
        /\ \A j \in 1 .. Len(c) : abc[Len(ab) + j] = c[j]
    <3>1. ab \in Seq(All) /\ c \in Seq(All)
      BY <1>5, <1>9
    <3> QED
      BY <3>1, JoinTwo
  <2> QED
    BY <1>1, <1>2, <1>5, <1>9, <2>1
<1> HIDE DEF abc
<1>11. /\ abcd \in Seq(All) /\ Len(abcd) = m + t + 1 + size
       /\ \A i \in 1 .. m + t + 1 : abcd[i] = abc[i]
       /\ \A j \in 1 .. size : abcd[m + t + 1 + j] = d[j]
  <2>1. abcd \in Seq(All) /\ Len(abcd) = Len(abc) + Len(d)
        /\ \A i \in 1 .. Len(abc) : abcd[i] = abc[i]
        /\ \A j \in 1 .. Len(d) : abcd[Len(abc) + j] = d[j]
    <3>1. abc \in Seq(All) /\ d \in Seq(All)
      BY <1>6, <1>10
    <3> QED
      BY <3>1, JoinTwo
  <2> QED
    BY <1>1, <1>2, <1>6, <1>10, <2>1
<1> HIDE DEF abcd
<1>12. /\ Len(all) = m + t + 1 + size + 1
       /\ \A i \in 1 .. m + t + 1 + size : all[i] = abcd[i]
       /\ all[m + t + 1 + size + 1] = f[1]
  <2>1. all \in Seq(All) /\ Len(all) = Len(abcd) + Len(f)
        /\ \A i \in 1 .. Len(abcd) : all[i] = abcd[i]
        /\ \A j \in 1 .. Len(f) : all[Len(abcd) + j] = f[j]
    <3>1. abcd \in Seq(All) /\ f \in Seq(All)
      BY <1>7, <1>11
    <3> QED
      BY <3>1, JoinTwo
  <2>2. Len(abcd) = m + t + 1 + size /\ Len(f) = 1 /\ 1 \in 1 .. Len(f)
    BY <1>7, <1>11
  <2>3. all[Len(abcd) + 1] = f[1]
    BY <2>1, <2>2
  <2> QED
    BY <2>1, <2>2, <2>3
<1>13. E!LinesOf(e) = all
  BY <1>8 DEF all, abcd, abc, ab
<1> HIDE DEF all
<1>14. /\ \A i \in 1 .. m : all[i] = Noise[i]
       /\ t = 1 => all[m + 1] = E!Line("event", e.event)
       /\ all[m + t + 1] = E!Line("id", e.id)
       /\ \A j \in 1 .. size : all[m + t + 1 + j] = E!Line("data", e.data[j])
       /\ all[m + t + 1 + size + 1] = E!Blank
  <2>1. \A i \in 1 .. m : i \in 1 .. m + t /\ i \in 1 .. m + t + 1 /\ i \in 1 .. m + t + 1 + size
    BY <1>1, <1>2
  <2>2. \A i \in 1 .. m : all[i] = Noise[i]
    BY <1>9, <1>10, <1>11, <1>12, <2>1 DEF a
  <2>3. t = 1 => m + 1 \in 1 .. m + t /\ m + 1 \in 1 .. m + t + 1 /\ m + 1 \in 1 .. m + t + 1 + size
    BY <1>1, <1>2
  <2>4. t = 1 => all[m + 1] = E!Line("event", e.event)
    BY <1>4, <1>9, <1>10, <1>11, <1>12, <2>3
  <2>5. m + t + 1 \in 1 .. m + t + 1 /\ m + t + 1 \in 1 .. m + t + 1 + size
    BY <1>1, <1>2
  <2>6. all[m + t + 1] = E!Line("id", e.id)
    BY <1>5, <1>10, <1>11, <1>12, <2>5
  <2>7. \A j \in 1 .. size : m + t + 1 + j \in 1 .. m + t + 1 + size
    BY <1>1, <1>2
  <2>8. \A j \in 1 .. size : all[m + t + 1 + j] = E!Line("data", e.data[j])
    BY <1>6, <1>11, <1>12, <2>7
  <2> QED
    BY <1>7, <1>12, <2>2, <2>4, <2>6, <2>8
<1>15. /\ IdLine(e) \in Nat \ {0}
       /\ IdLine(e) = m + 1 \/ IdLine(e) = m + 2
       /\ IdLine(e) = m + 1 <=> e.event = "message"
       /\ Len(E!LinesOf(e)) = IdLine(e) + size + 1
       /\ e.event # "message" => t = 1
  BY <1>1, <1>2, <1>12, <1>13
<1> QED
  BY <1>2, <1>13, <1>14, <1>15 DEF e, m, size

\* A line that is parsed brings the message from one line to the next; a blank
\* one ends the event, which then is the feed's, or is noise before it.
LEMMA ParsedLine ==
    ASSUME NEW k \in 1 .. Len(Feed), NEW i \in Nat, i < Len(E!LinesOf(Feed[k])),
           NEW l, l = E!LinesOf(Feed[k])[i + 1]
    PROVE  /\ l # E!Blank =>
                  /\ i + 1 < Len(E!LinesOf(Feed[k]))
                  /\ E!parse_sse_line(Parsed(k, i), l) = Parsed(k, i + 1)
           /\ l = E!Blank /\ Parsed(k, i).data = <<>> =>
                  /\ i + 1 < Len(E!LinesOf(Feed[k]))
                  /\ Parsed(k, i + 1) = Parsed(k, i)
           /\ l = E!Blank /\ Parsed(k, i).data # <<>> =>
                  /\ i + 1 = Len(E!LinesOf(Feed[k]))
                  /\ Parsed(k, i) = Feed[k]
<1> DEFINE e == Feed[k]
           m == Len(Noise)
           h == IdLine(Feed[k])
           size == Len(Feed[k].data)
           all == Len(E!LinesOf(Feed[k]))
           L(j) == E!LinesOf(Feed[k])[j]
           before == Parsed(k, i)
           after == Parsed(k, i + 1)
           Message(event, data, id) == [event |-> event, data |-> data, id |-> id]
           Goal == /\ l # E!Blank => i + 1 < all /\ E!parse_sse_line(before, l) = after
                   /\ l = E!Blank /\ before.data = <<>> => i + 1 < all /\ after = before
                   /\ l = E!Blank /\ before.data # <<>> => i + 1 = all /\ before = e
<1>1. /\ m \in Nat /\ size \in Nat \ {0} /\ e.data \in Seq(STRING) /\ size = Len(e.data)
      /\ e = Message(e.event, e.data, e.id) /\ e.data[1] # E!Empty
      /\ \A j \in 1 .. m : Noise[j] = E!Blank \/ Noise[j].field \in {"comment", "retry"}
  <2>1. \A j \in 1 .. m : Noise[j] = E!Blank \/ Noise[j].field \in {"comment", "retry"}
    BY FeedEvent DEF E!Line
  <2> QED
    BY <2>1, FeedEvent DEF E!Event
<1>2. /\ h \in Nat \ {0}
      /\ h = m + 1 \/ h = m + 2
      /\ h = m + 1 <=> e.event = "message"
      /\ all = h + size + 1
  BY LinesOfEvent
<1>3. /\ \A j \in 1 .. m : L(j) = Noise[j]
      /\ h = m + 2 => L(m + 1) = E!Line("event", e.event)
      /\ L(h) = E!Line("id", e.id)
      /\ \A j \in 1 .. size : L(h + j) = E!Line("data", e.data[j])
      /\ L(h + size + 1) = E!Blank
  <2>1. h = m + 2 => e.event # "message"
    BY <1>1, <1>2
  <2> QED
    BY <2>1, LinesOfEvent
<1>4. l = L(i + 1) /\ i \in Nat /\ i < all
  OBVIOUS
<1>5. ASSUME NEW j \in Nat
      PROVE  Parsed(k, j) = Message(IF j > m THEN e.event ELSE "message",
                                    IF j > h THEN SubSeq(e.data, 1, j - h) ELSE <<>>,
                                    IF j >= h THEN e.id ELSE E!Empty)
  BY DEF Parsed, E!Event
<1>6. /\ before = Message(IF i > m THEN e.event ELSE "message",
                          IF i > h THEN SubSeq(e.data, 1, i - h) ELSE <<>>,
                          IF i >= h THEN e.id ELSE E!Empty)
      /\ after = Message(IF i + 1 > m THEN e.event ELSE "message",
                         IF i + 1 > h THEN SubSeq(e.data, 1, (i + 1) - h) ELSE <<>>,
                         IF i + 1 >= h THEN e.id ELSE E!Empty)
  <2>1. /\ i + 1 \in Nat
        /\ before = Parsed(k, i) /\ after = Parsed(k, i + 1)
    BY <1>4
  <2> HIDE DEF e, m, h, size, all, L, before, after, Message
  <2>2. before = Message(IF i > m THEN e.event ELSE "message",
                          IF i > h THEN SubSeq(e.data, 1, i - h) ELSE <<>>,
                          IF i >= h THEN e.id ELSE E!Empty)
    BY <1>4, <1>5, <2>1
  <2>3. after = Message(IF i + 1 > m THEN e.event ELSE "message",
                         IF i + 1 > h THEN SubSeq(e.data, 1, (i + 1) - h) ELSE <<>>,
                         IF i + 1 >= h THEN e.id ELSE E!Empty)
    <3> DEFINE j == i + 1
    <3>1. j \in Nat /\ after = Parsed(k, j)
      BY <2>1
    <3> HIDE DEF j
    <3>2. after = Message(IF j > m THEN e.event ELSE "message",
                          IF j > h THEN SubSeq(e.data, 1, j - h) ELSE <<>>,
                          IF j >= h THEN e.id ELSE E!Empty)
      BY <1>5, <3>1
    <3> QED
      BY <3>2 DEF j
  <2> QED
    BY <2>2, <2>3
<1> HIDE DEF e, m, h, size, all, L, before, after
<1> SUFFICES Goal
  BY DEF all, before, after, e
<1>7. /\ m \in Nat /\ size \in Nat /\ size > 0 /\ h \in Nat /\ i \in Nat
      /\ h = m + 1 \/ h = m + 2
      /\ all = h + size + 1 /\ i < all
  BY <1>1, <1>2, <1>4
<1>8. CASE i < m
  <2>1. l = Noise[i + 1] /\ i + 1 \in 1 .. m
    BY <1>1, <1>3, <1>4, <1>8
  <2>2. l = E!Blank \/ l.field \in {"comment", "retry"}
    BY <1>1, <2>1
  <2>3. i + 1 < all /\ ~(i > m) /\ ~(i + 1 > m) /\ ~(i > h) /\ ~(i + 1 > h) /\ ~(i >= h)
        /\ ~(i + 1 >= h)
    BY <1>7, <1>8
  <2>4. before = Message("message", <<>>, E!Empty) /\ after = before
    BY <1>6, <2>3
  <2>5. l.field \in {"comment", "retry"} => E!parse_sse_line(before, l) = before
    BY DEF E!parse_sse_line
  <2>6. before.data = <<>>
    BY <2>4
  <2> QED
    BY <2>2, <2>3, <2>4, <2>5, <2>6
<1>9. CASE i = m /\ h = m + 2
  <2>1. l = E!Line("event", e.event)
    BY <1>3, <1>4, <1>9
  <2>2. l # E!Blank /\ l.field = "event" /\ l.value = e.event
    BY <2>1 DEF E!Line, E!Blank
  <2>3. i + 1 < all /\ ~(i > m) /\ i + 1 > m /\ ~(i > h) /\ ~(i + 1 > h) /\ ~(i >= h)
        /\ ~(i + 1 >= h)
    BY <1>7, <1>9
  <2>4. before = Message("message", <<>>, E!Empty) /\ after = Message(e.event, <<>>, E!Empty)
    BY <1>6, <2>3
  <2>5. E!parse_sse_line(before, l) = [before EXCEPT !.event = e.event]
    BY <2>2 DEF E!parse_sse_line
  <2>6. E!parse_sse_line(before, l) = after
    BY <2>4, <2>5
  <2> QED
    BY <2>2, <2>3, <2>6
<1>10. CASE i + 1 = h
  <2>1. l = E!Line("id", e.id)
    BY <1>3, <1>4, <1>10
  <2>2. l # E!Blank /\ l.field = "id" /\ l.value = e.id
    BY <2>1 DEF E!Line, E!Blank
  <2>3. i + 1 < all /\ i + 1 > m
    BY <1>7, <1>10
  <2>4. i < h /\ i + 1 = h
    BY <1>7, <1>10
  <2>5. ~(i > h) /\ ~(i + 1 > h)
    BY <1>7, <2>4
  <2>6. ~(i >= h) /\ i + 1 >= h
    BY <1>7, <2>4
  <2>7. (IF i > m THEN e.event ELSE "message") = e.event
    BY <1>2, <1>7, <1>10
  <2>8. before = Message(e.event, <<>>, E!Empty) /\ after = Message(e.event, <<>>, e.id)
    BY <1>6, <2>3, <2>7, <2>5, <2>6
  <2>9. E!parse_sse_line(before, l) = [before EXCEPT !.id = e.id]
    BY <2>2 DEF E!parse_sse_line
  <2>10. E!parse_sse_line(before, l) = after
    BY <2>8, <2>9
  <2> QED
    BY <2>2, <2>3, <2>10
<1>11. CASE i + 1 > h /\ i + 1 <= h + size
  <2> DEFINE j == (i + 1) - h
             data == IF i > h THEN SubSeq(e.data, 1, i - h) ELSE <<>>
  <2>1. j \in 1 .. size /\ i + 1 = h + j /\ i - h = j - 1 /\ (i + 1) - h = j
    BY <1>7, <1>11
  <2> HIDE DEF j
  <2>2. l = E!Line("data", e.data[j])
    BY <1>3, <1>4, <2>1
  <2>3. l # E!Blank /\ l.field = "data" /\ l.value = e.data[j]
    BY <2>2 DEF E!Line, E!Blank
  <2>4. i + 1 < all /\ i > m /\ i + 1 > m /\ i + 1 > h /\ i >= h /\ i + 1 >= h
    BY <1>7, <1>11
  <2>5. before = Message(e.event, data, e.id)
        /\ after = Message(e.event, SubSeq(e.data, 1, j), e.id)
    BY <1>6, <2>1, <2>4
  <2>6. E!Joined(data, e.data[j]) = SubSeq(e.data, 1, j)
    <3>1. Append(SubSeq(e.data, 1, j - 1), e.data[j]) = SubSeq(e.data, 1, j)
      <4>1. e.data \in Seq(STRING) /\ j \in 1 .. Len(e.data)
        BY <1>1, <2>1
      <4> QED
        BY <4>1, OneLonger
    <3>2. CASE i > h
      <4>1. j - 1 \in 1 .. size
        BY <1>7, <2>1, <3>2
      <4>2. SubSeq(e.data, 1, j - 1) # <<>>
        BY <1>1, <4>1, OneLonger
      <4>3. data = SubSeq(e.data, 1, j - 1)
        BY <2>1, <3>2
      <4> HIDE DEF data
      <4> QED
        BY <3>1, <4>2, <4>3 DEF E!Joined
    <3>3. CASE ~(i > h)
      <4>1. j = 1
        BY <1>7, <2>1, <3>3
      <4>2. e.data[j] # E!Empty /\ data = <<>>
        BY <1>1, <3>3, <4>1
      <4>3. SubSeq(e.data, 1, j - 1) = <<>>
        BY <1>1, <4>1
      <4>4. Append(<<>>, e.data[j]) = SubSeq(e.data, 1, j)
        BY <3>1, <4>3
      <4> HIDE DEF data
      <4> QED
        BY <4>2, <4>4 DEF E!Joined
    <3> QED
      BY <3>2, <3>3
  <2> HIDE DEF data
  <2>7. E!parse_sse_line(before, l) = [before EXCEPT !.data = E!Joined(@, e.data[j])]
    BY <2>3 DEF E!parse_sse_line
  <2>8. E!parse_sse_line(before, l) = after
    BY <2>5, <2>6, <2>7
  <2> QED
    BY <2>3, <2>4, <2>8
<1>12. CASE i + 1 = all
  <2>1. l = E!Blank
    BY <1>2, <1>3, <1>4, <1>12
  <2>2. i - h = size /\ i > m /\ i > h /\ i >= h
    BY <1>7, <1>12
  <2>3. SubSeq(e.data, 1, size) = e.data /\ e.data # <<>>
    <3>1. size \in 1 .. size
      BY <1>1
    <3> QED
      BY <1>1, <3>1, OneLonger
  <2>4. before = Message(e.event, e.data, e.id)
    BY <1>6, <2>2, <2>3
  <2>5. before = e /\ before.data # <<>>
    BY <1>1, <2>3, <2>4
  <2> QED
    BY <1>12, <2>1, <2>5
<1> QED
  <2>1. \/ i < m \/ (i = m /\ h = m + 2) \/ i + 1 = h
        \/ (i + 1 > h /\ i + 1 <= h + size) \/ i + 1 = all
    BY <1>7
  <2> QED
    BY <2>1, <1>8, <1>9, <1>10, <1>11, <1>12

\* Nothing of an event has been parsed at its first line.
LEMMA ParsedNothing == ASSUME NEW k PROVE Parsed(k, 0) = E!SSEMessage
<1>1. Len(Noise) \in Nat
  BY FeedEvent
<1>2. TypeLines(Feed[k]) = 0 \/ TypeLines(Feed[k]) = 1
  BY DEF TypeLines
<1>3. IdLine(Feed[k]) \in Nat /\ IdLine(Feed[k]) > 0
  BY <1>1, <1>2 DEF IdLine
<1>4. ~(0 > Len(Noise)) /\ ~(0 > IdLine(Feed[k])) /\ ~(0 >= IdLine(Feed[k]))
  BY <1>1, <1>3
<1> QED
  BY <1>4 DEF Parsed, E!SSEMessage

\* A retry time is a number.
LEMMA RetryIsTime ==
    ASSUME NEW k \in 1 .. Len(Feed), NEW i \in Nat, i < Len(E!LinesOf(Feed[k])),
           NEW l, l = E!LinesOf(Feed[k])[i + 1], l.field = "retry"
    PROVE  l.value \in Int
<1> DEFINE m == Len(Noise)
           h == IdLine(Feed[k])
           size == Len(Feed[k].data)
           L(j) == E!LinesOf(Feed[k])[j]
<1>1. m \in Nat /\ size \in Nat /\ h \in Nat /\ (h = m + 1 \/ h = m + 2)
      /\ i < h + size + 1
  BY FeedEvent, LinesOfEvent
<1>2. /\ \A j \in 1 .. m : L(j) = Noise[j]
      /\ h = m + 2 => L(m + 1) = E!Line("event", Feed[k].event)
      /\ L(h) = E!Line("id", Feed[k].id)
      /\ \A j \in 1 .. size : L(h + j) = E!Line("data", Feed[k].data[j])
      /\ L(h + size + 1) = E!Blank
  <2>1. h = m + 2 => Feed[k].event # "message"
    BY <1>1, LinesOfEvent
  <2> QED
    BY <2>1, LinesOfEvent
<1>3. l = L(i + 1)
  OBVIOUS
<1> HIDE DEF m, h, size, L
<1>4. CASE i + 1 \in 1 .. m
  <2>1. Noise[i + 1] \in {E!Blank, E!Line("comment", E!Empty)} \cup [field : {"retry"}, value : Int]
    BY <1>4, FeedEvent DEF m
  <2>2. l = Noise[i + 1]
    BY <1>2, <1>3, <1>4
  <2>3. l # E!Blank /\ l # E!Line("comment", E!Empty)
    BY DEF E!Blank, E!Line
  <2> QED
    BY <2>1, <2>2, <2>3
<1>5. CASE h = m + 2 /\ i + 1 = m + 1
  BY <1>2, <1>3, <1>5 DEF E!Line
<1>6. CASE i + 1 = h
  BY <1>2, <1>3, <1>6 DEF E!Line
<1>7. CASE i + 1 > h /\ i + 1 <= h + size
  <2>1. PICK j \in 1 .. size : i + 1 = h + j
    <3>1. (i + 1) - h \in 1 .. size /\ i + 1 = h + ((i + 1) - h)
      BY <1>1, <1>7
    <3> QED
      BY <3>1
  <2>2. l = E!Line("data", Feed[k].data[j])
    BY <1>2, <1>3, <2>1
  <2> QED
    BY <2>2 DEF E!Line
<1>8. CASE i + 1 = h + size + 1
  BY <1>2, <1>3, <1>8 DEF E!Line, E!Blank
<1> QED
  <2>1. \/ i + 1 \in 1 .. m \/ (h = m + 2 /\ i + 1 = m + 1) \/ i + 1 = h
        \/ (i + 1 > h /\ i + 1 <= h + size) \/ i + 1 = h + size + 1
    BY <1>1
  <2> QED
    BY <2>1, <1>4, <1>5, <1>6, <1>7, <1>8

\* The lines of the feed: every event has some, and its end has one place.
LEMMA LineCounts ==
    ASSUME NEW p, p.event \in 0 .. Len(Feed)
    PROVE  /\ E!LineCount(p) \in Nat \ {0}
           /\ p.event = Len(Feed) => E!LineCount(p) = 1
           /\ p.event < Len(Feed) =>
                  /\ p.event + 1 \in 1 .. Len(Feed)
                  /\ E!LineCount(p) = Len(E!LinesOf(Feed[p.event + 1]))
<1>1. Len(Feed) \in Nat
  BY FeedEvent
<1>2. CASE p.event = Len(Feed)
  BY <1>1, <1>2 DEF E!LineCount
<1>3. CASE p.event < Len(Feed)
  <2>1. p.event + 1 \in 1 .. Len(Feed) /\ p.event # Len(Feed)
    BY <1>1, <1>3
  <2>2. E!LineCount(p) = Len(E!LinesOf(Feed[p.event + 1]))
    BY <2>1 DEF E!LineCount
  <2>3. /\ IdLine(Feed[p.event + 1]) \in Nat \ {0}
        /\ Len(E!LinesOf(Feed[p.event + 1])) =
               IdLine(Feed[p.event + 1]) + Len(Feed[p.event + 1].data) + 1
    BY <2>1, LinesOfEvent
  <2>4. Len(Feed[p.event + 1].data) \in Nat
    BY <2>1, FeedEvent
  <2>5. E!LineCount(p) \in Nat \ {0}
    BY <2>2, <2>3, <2>4
  <2> QED
    BY <1>3, <2>1, <2>2, <2>5
<1> QED
  BY <1>1, <1>2, <1>3

\* The first line of an event is a place in the feed.
LEMMA FirstLine ==
    ASSUME NEW k \in 0 .. Len(Feed)
    PROVE  /\ InFeed(E!Position(k, 0))
           /\ E!Position(k, 0).event = k /\ E!Position(k, 0).line = 0
           /\ E!After(E!Position(k, 0), E!Position(k, 0))
<1> DEFINE p == E!Position(k, 0)
<1>1. p \in [event : 0 .. Len(Feed), line : Nat] /\ p.event = k /\ p.line = 0
  BY DEF E!Position
<1> HIDE DEF p
<1>2. E!LineCount(p) \in Nat \ {0}
  BY <1>1, LineCounts
<1>3. InFeed(p)
  BY <1>1, <1>2 DEF InFeed
<1>4. E!After(p, p)
  BY <1>1 DEF E!After
<1> QED
  BY <1>1, <1>3, <1>4 DEF p

\* The next place, if there is a later one.
LEMMA NextPlace ==
    ASSUME NEW p, NEW q, InFeed(p), InFeed(q), E!After(q, p), p # q
    PROVE  /\ p.event < Len(Feed) /\ p.event + 1 \in 1 .. Len(Feed)
           /\ p.line < Len(E!LinesOf(Feed[p.event + 1])) /\ p.line \in Nat
           /\ InFeed(E!NextLine(p)) /\ E!After(q, E!NextLine(p))
           /\ p.line + 1 < Len(E!LinesOf(Feed[p.event + 1])) =>
                  E!NextLine(p).event = p.event /\ E!NextLine(p).line = p.line + 1
           /\ p.line + 1 = Len(E!LinesOf(Feed[p.event + 1])) =>
                  E!NextLine(p).event = p.event + 1 /\ E!NextLine(p).line = 0
<1> DEFINE a == p.event
           b == p.line
           c == q.event
           d == q.line
           size == Len(Feed)
           count == E!LineCount(p)
<1>1. /\ a \in 0 .. size /\ b \in Nat /\ b < count
      /\ c \in 0 .. size /\ d \in Nat /\ d < E!LineCount(q)
      /\ p \in [event : 0 .. size, line : Nat] /\ q \in [event : 0 .. size, line : Nat]
  BY DEF InFeed
<1>2. size \in Nat
  BY FeedEvent
<1>3. a # c \/ b # d
  BY <1>1
<1>4. a < c \/ (a = c /\ b <= d)
  BY DEF E!After
<1>5. a = c => E!LineCount(q) = count
  BY DEF E!LineCount
<1>6. /\ count \in Nat \ {0}
      /\ a = size => count = 1
      /\ a < size => a + 1 \in 1 .. size /\ count = Len(E!LinesOf(Feed[a + 1]))
  BY <1>1, LineCounts
<1> DEFINE other == E!LineCount(q)
           all == Len(E!LinesOf(Feed[a + 1]))
           next == E!NextLine(p)
<1>7. next = IF b + 1 = count THEN E!Position(a + 1, 0) ELSE E!Position(a, b + 1)
  BY DEF E!NextLine
<1>8. p.event = a /\ p.line = b /\ q.event = c /\ q.line = d
  OBVIOUS
<1>9. InFeed(next) <=> next \in [event : 0 .. size, line : Nat] /\ next.line < E!LineCount(next)
  BY DEF InFeed
<1>10. E!After(q, next) <=> next.event < c \/ (next.event = c /\ next.line <= d)
  BY DEF E!After
<1>11. next.event = a => E!LineCount(next) = count
  BY DEF E!LineCount
<1> SUFFICES /\ a < size /\ a + 1 \in 1 .. size
             /\ b < all /\ b \in Nat
             /\ InFeed(next) /\ E!After(q, next)
             /\ b + 1 < all => next.event = a /\ next.line = b + 1
             /\ b + 1 = all => next.event = a + 1 /\ next.line = 0
  OBVIOUS
<1> HIDE DEF a, b, c, d, size, count, other, all, next
<1>12. a < size
  <2>1. a \in Nat /\ c \in Nat /\ a <= size /\ c <= size /\ b \in Nat /\ d \in Nat
    BY <1>1, <1>2
  <2> SUFFICES ASSUME ~(a < size) PROVE FALSE
    OBVIOUS
  <2>2. a = size /\ c = a /\ b <= d
    BY <1>2, <1>4, <2>1
  <2>3. b = 0 /\ d < 1
    BY <1>1, <1>5, <1>6, <2>1, <2>2 DEF other
  <2> QED
    BY <1>3, <2>1, <2>2, <2>3
<1>13. a + 1 \in 1 .. size /\ count = all
  BY <1>6, <1>12 DEF all
<1>14. CASE b + 1 = count
  <2>1. next = E!Position(a + 1, 0)
    BY <1>7, <1>14
  <2>2. next.event = a + 1 /\ next.line = 0
    BY <2>1 DEF E!Position
  <2>3. a + 1 \in 0 .. size
    BY <1>2, <1>13
  <2>4. InFeed(next)
    BY <2>1, <2>3, FirstLine DEF size
  <2>5. a = c => b = d
    BY <1>1, <1>4, <1>5, <1>6, <1>14
  <2>6. a + 1 < c \/ (a + 1 = c /\ 0 <= d)
    BY <1>1, <1>2, <1>3, <1>4, <2>5
  <2>7. E!After(q, next)
    BY <1>10, <2>2, <2>6
  <2> QED
    BY <1>1, <1>12, <1>13, <1>14, <2>2, <2>4, <2>7
<1>15. CASE b + 1 # count
  <2>1. next = E!Position(a, b + 1)
    BY <1>7, <1>15
  <2>2. next.event = a /\ next.line = b + 1 /\ next \in [event : 0 .. size, line : Nat]
    BY <1>1, <2>1 DEF E!Position
  <2>3. b + 1 < count
    BY <1>1, <1>6, <1>15
  <2>4. InFeed(next)
    BY <1>9, <1>11, <2>2, <2>3
  <2>5. a < c \/ (a = c /\ b + 1 <= d)
    BY <1>1, <1>3, <1>4
  <2>6. E!After(q, next)
    BY <1>10, <2>2, <2>5
  <2> QED
    BY <1>1, <1>12, <1>13, <1>15, <2>2, <2>3, <2>4, <2>6
<1> QED
  BY <1>14, <1>15

\* The server goes on after the last event that was handed over.
LEMMA ResumesAfterHanded ==
    ASSUME HandedInOrder
    PROVE  E!Resume(last_event_id_) = E!Position(Len(handed), 0)
<1> DEFINE h == Len(handed)
           id == last_event_id_
           I == {k \in 1 .. Len(Feed) : id # E!Empty /\ Feed[k].id = id}
<1>1. E!Resume(id) = E!Position(IF I # {} THEN E!Max(I) ELSE 0, 0)
  BY DEF E!Resume, E!SelectLastInSeq
<1>2. h \in 0 .. Len(Feed) /\ Len(Feed) \in Nat
  BY FeedEvent DEF HandedInOrder
<1>3. id = IF h = 0 THEN E!Empty ELSE Feed[h].id
  BY DEF HandedInOrder
<1>4. CASE h = 0
  <2>1. I = {}
    BY <1>3, <1>4
  <2> QED
    BY <1>1, <1>4, <2>1
<1>5. CASE h # 0
  <2>1. h \in 1 .. Len(Feed)
    BY <1>2, <1>5
  <2>2. id = Feed[h].id /\ id # E!Empty
    BY <1>3, <1>5, <2>1, FeedEvent
  <2>3. \A k \in 1 .. Len(Feed) : Feed[k].id = id => k = h
    BY <2>1, <2>2, FeedEvent
  <2>4. I = {h}
    BY <2>1, <2>2, <2>3
  <2>5. E!Max({h}) = h
    <3>1. \A x \in {h} : \A y \in {h} : x >= y
      BY <1>2
    <3> QED
      BY <3>1 DEF E!Max
  <2> HIDE DEF I
  <2> QED
    BY <1>1, <2>4, <2>5
<1> QED
  BY <1>4, <1>5

\* Every initial state satisfies the invariant.
LEMMA InitEvents == E!Init => EventInv
<1> SUFFICES ASSUME E!Init PROVE EventInv
  OBVIOUS
<1>1. LoopPlace
  <2>1. /\ running_ = FALSE /\ owner = "idle" /\ connected_ = FALSE /\ loop = "off"
        /\ buffer = wire /\ max_reconnect_attempts_ \in Limits
    BY DEF E!Init
  <2>2. reconnect_interval_ms_ \in Int
    BY NetworkAssumption DEF E!Init, E!EventAssumption
  <2>3. running_ \in BOOLEAN /\ (running_ <=> owner = "started")
    BY <2>1
  <2>4. connected_ \in BOOLEAN /\ (connected_ <=> loop \in {"next", "read", "lines", "ended"})
    BY <2>1
  <2> QED
    BY <2>1, <2>2, <2>3, <2>4 DEF LoopPlace, E!TypeOK, E!QuietAfterStop
<1>2. AttemptsCounted
  BY NetworkAssumption DEF E!Init, AttemptsCounted, E!EventAssumption
<1>3. HandedInOrder
  <2>1. handed = <<>> /\ last_event_id_ = E!Empty
    BY DEF E!Init
  <2>2. Len(handed) = 0 /\ SubSeq(Feed, 1, 0) = <<>>
    BY <2>1, FeedEvent, NetworkAssumption DEF E!EventAssumption
  <2> QED
    BY <2>1, <2>2, FeedEvent DEF HandedInOrder
<1>4. ReadingPlace
  <2>1. InFeed(E!Position(0, 0))
    BY FirstLine, FeedEvent
  <2> QED
    BY <2>1 DEF E!Init, ReadingPlace
<1> QED
  BY <1>1, <1>2, <1>3, <1>4 DEF EventInv

\* A step that parses nothing leaves what is parsed.
LEMMA NothingParsed ==
    ASSUME EventInv, UNCHANGED E!parsing,
           loop' \in {"next", "read", "lines"} => loop \in {"next", "read", "lines"}
    PROVE  HandedInOrder' /\ ReadingPlace'
<1>1. /\ buffer' = buffer /\ current_msg' = current_msg /\ wire' = wire
      /\ handed' = handed /\ last_event_id_' = last_event_id_
  BY DEF E!parsing
<1>2. HandedInOrder'
  BY <1>1 DEF EventInv, HandedInOrder
<1>3. ReadingPlace'
  BY <1>1 DEF EventInv, ReadingPlace
<1> QED
  BY <1>2, <1>3

\* The steps of the loop that parse nothing.
LEMMA LoopTurns ==
    ASSUME EventInv,
           \/ E!Top \/ E!ConnectFails \/ E!NextTurn \/ E!StreamEnds \/ E!BufferDone
           \/ E!Ended \/ E!Again \/ E!wait_for_reconnect
    PROVE  EventInv'
<1> USE DEF E!Goto, E!config
<1>1. UNCHANGED E!parsing
  BY DEF E!Top, E!ConnectFails, E!NextTurn, E!StreamEnds, E!BufferDone, E!Ended, E!Again,
         E!wait_for_reconnect
<1>2. loop' \in {"next", "read", "lines"} => loop \in {"next", "read", "lines"}
  BY DEF E!Top, E!ConnectFails, E!NextTurn, E!StreamEnds, E!BufferDone, E!Ended, E!Again,
         E!wait_for_reconnect
<1>3. /\ max_reconnect_attempts_' = max_reconnect_attempts_
      /\ reconnect_interval_ms_' = reconnect_interval_ms_
      /\ running_' = running_ /\ owner' = owner
  BY DEF E!Top, E!ConnectFails, E!NextTurn, E!StreamEnds, E!BufferDone, E!Ended, E!Again,
         E!wait_for_reconnect
<1>4. buffer' = buffer /\ wire' = wire
  BY <1>1 DEF E!parsing
<1>5. loop # "off"
  BY DEF E!Top, E!ConnectFails, E!NextTurn, E!StreamEnds, E!BufferDone, E!Ended, E!Again,
         E!wait_for_reconnect
<1>6. loop' \in {"off", "top", "connect", "next", "read", "lines", "ended", "again", "wait"}
  BY DEF E!Top, E!ConnectFails, E!NextTurn, E!StreamEnds, E!BufferDone, E!Ended, E!Again,
         E!wait_for_reconnect
<1>7. buffer' # wire' => loop' = "lines"
  BY <1>4 DEF EventInv, LoopPlace, E!TypeOK, E!Top, E!ConnectFails, E!NextTurn, E!StreamEnds,
     E!BufferDone, E!Ended, E!Again, E!wait_for_reconnect
<1>8. connected_' \in BOOLEAN /\ (connected_' <=> loop' \in {"next", "read", "lines", "ended"})
  <2>1. connected_ \in BOOLEAN /\ (connected_ <=> loop \in {"next", "read", "lines", "ended"})
    BY DEF EventInv, LoopPlace, E!TypeOK
  <2>2. CASE E!Top
    <3>1. CASE loop' = "off" /\ connected_' = FALSE
      BY <3>1
    <3>2. CASE loop = "top" /\ loop' = "connect" /\ connected_' = connected_
      BY <2>1, <3>2
    <3> QED
      BY <2>2, <3>1, <3>2 DEF E!Top
  <2>3. CASE E!ConnectFails
    BY <2>3 DEF E!ConnectFails
  <2>4. CASE E!NextTurn \/ E!StreamEnds
    BY <2>1, <2>4 DEF E!NextTurn, E!StreamEnds
  <2>5. CASE E!BufferDone
    BY <2>1, <2>5 DEF E!BufferDone
  <2>6. CASE E!Ended
    BY <2>6 DEF E!Ended
  <2>7. CASE E!Again \/ E!wait_for_reconnect
    BY <2>1, <2>7 DEF E!Again, E!wait_for_reconnect
  <2> QED
    BY <2>2, <2>3, <2>4, <2>5, <2>6, <2>7
<1>9. LoopPlace'
  <2>1. owner # "idle"
    BY <1>5 DEF EventInv, LoopPlace, E!QuietAfterStop
  <2> QED
    BY <1>3, <1>6, <1>7, <1>8, <2>1 DEF EventInv, LoopPlace, E!TypeOK, E!QuietAfterStop
<1>10. AttemptsCounted'
  BY <1>3 DEF EventInv, AttemptsCounted, E!Top, E!ConnectFails, E!NextTurn, E!StreamEnds,
     E!BufferDone, E!Ended, E!Again, E!wait_for_reconnect, E!should_reconnect
<1> QED
  BY <1>1, <1>2, <1>9, <1>10, NothingParsed DEF EventInv

\* start_async, stop and the join.
LEMMA OwnerTurns ==
    ASSUME EventInv, E!start_async \/ E!stop \/ E!Join PROVE EventInv'
<1> USE DEF E!Goto, E!config
<1>1. UNCHANGED E!parsing
  BY DEF E!start_async, E!stop, E!Join
<1>2. loop' \in {"next", "read", "lines"} => loop \in {"next", "read", "lines"}
  BY DEF E!start_async, E!stop, E!Join
<1>3. LoopPlace'
  <2>1. buffer' = buffer /\ wire' = wire
    BY <1>1 DEF E!parsing
  <2>2. CASE E!start_async
    <3>1. /\ running_' = TRUE /\ owner' = "started" /\ loop = "off" /\ loop' = "top"
          /\ connected_' = connected_ /\ buffer = wire
      BY <2>2 DEF EventInv, LoopPlace, E!TypeOK, E!QuietAfterStop, E!start_async
    <3>2. connected_ = FALSE
      BY <3>1 DEF EventInv, LoopPlace, E!TypeOK
    <3>3. connected_' \in BOOLEAN /\ (connected_' <=> loop' \in {"next", "read", "lines", "ended"})
      BY <3>1, <3>2
    <3>4. running_' \in BOOLEAN /\ (running_' <=> owner' = "started")
      BY <3>1
    <3>5. max_reconnect_attempts_' \in Limits /\ reconnect_interval_ms_' \in Int
      BY <2>2 DEF EventInv, LoopPlace, E!TypeOK, E!start_async
    <3> QED
      BY <2>1, <3>1, <3>3, <3>4, <3>5 DEF LoopPlace, E!TypeOK, E!QuietAfterStop
  <2>3. CASE E!stop
    BY <2>1, <2>3 DEF EventInv, LoopPlace, E!TypeOK, E!QuietAfterStop, E!stop
  <2>4. CASE E!Join
    BY <2>1, <2>4 DEF EventInv, LoopPlace, E!TypeOK, E!QuietAfterStop, E!Join
  <2> QED
    BY <2>2, <2>3, <2>4
<1>4. AttemptsCounted'
  BY DEF EventInv, AttemptsCounted, E!start_async, E!stop, E!Join
<1> QED
  BY <1>1, <1>2, <1>3, <1>4, NothingParsed DEF EventInv

\* A new connection: the server goes on where the last event ended.
LEMMA ConnectedKeeps == ASSUME EventInv, E!Connected PROVE EventInv'
<1> USE DEF E!Goto, E!config
<1>1. E!Resume(last_event_id_) = E!Position(Len(handed), 0)
  BY ResumesAfterHanded DEF EventInv
<1>2. /\ wire' = E!Position(Len(handed), 0) /\ buffer' = E!Position(Len(handed), 0)
      /\ current_msg' = E!SSEMessage /\ handed' = handed /\ last_event_id_' = last_event_id_
      /\ loop = "connect" /\ loop' = "next"
  BY <1>1 DEF E!Connected
<1>3. Len(handed) \in 0 .. Len(Feed)
  BY DEF EventInv, HandedInOrder
<1>4. LoopPlace'
  BY <1>2 DEF EventInv, LoopPlace, E!TypeOK, E!QuietAfterStop, E!Connected
<1>5. AttemptsCounted'
  BY DEF EventInv, AttemptsCounted, E!Connected
<1>6. HandedInOrder'
  BY <1>2 DEF EventInv, HandedInOrder
<1>7. ReadingPlace'
  BY <1>2, <1>3, FirstLine, ParsedNothing DEF ReadingPlace
<1> QED
  BY <1>4, <1>5, <1>6, <1>7 DEF EventInv

\* A chunk brings a later part of the feed.
LEMMA ChunkKeeps == ASSUME EventInv, E!Chunk PROVE EventInv'
<1> USE DEF E!Goto, E!config
<1>1. PICK event \in wire.event .. Len(Feed) :
        \E line \in 0 .. E!LineCount(E!Position(event, 0)) - 1 :
           E!After(E!Position(event, line), wire) /\ wire' = E!Position(event, line)
  BY DEF E!Chunk
<1>2. PICK line \in 0 .. E!LineCount(E!Position(event, 0)) - 1 :
        E!After(E!Position(event, line), wire) /\ wire' = E!Position(event, line)
  BY <1>1
<1>3. /\ loop = "read" /\ loop' = "lines" /\ buffer' = buffer /\ current_msg' = current_msg
      /\ handed' = handed /\ last_event_id_' = last_event_id_
  BY DEF E!Chunk
<1>4. LoopPlace'
  BY <1>3 DEF EventInv, LoopPlace, E!TypeOK, E!QuietAfterStop, E!Chunk
<1>5. AttemptsCounted'
  BY DEF EventInv, AttemptsCounted, E!Chunk
<1>6. HandedInOrder'
  BY <1>3 DEF EventInv, HandedInOrder
<1>7. event \in 0 .. Len(Feed)
  BY FeedEvent DEF EventInv, ReadingPlace, InFeed
<1>8. wire'.event = event /\ wire'.line = line
      /\ E!LineCount(wire') = E!LineCount(E!Position(event, 0))
  BY <1>2 DEF E!Position, E!LineCount
<1>9. E!LineCount(wire') \in Nat
  BY <1>7, <1>8, LineCounts
<1>10. line \in Nat /\ line < E!LineCount(wire')
  BY <1>8, <1>9
<1>11. wire' \in [event : 0 .. Len(Feed), line : Nat]
  BY <1>2, <1>7, <1>10 DEF E!Position
<1>12. InFeed(wire')
  BY <1>8, <1>10, <1>11 DEF InFeed
<1>13. E!After(wire', buffer)
  <2>1. E!After(wire', wire) /\ E!After(wire, buffer)
    BY <1>2, <1>3 DEF EventInv, ReadingPlace
  <2>2. /\ wire'.event \in Int /\ wire.event \in Int /\ buffer.event \in Int
        /\ wire'.line \in Int /\ wire.line \in Int /\ buffer.line \in Int
    BY <1>11, FeedEvent DEF EventInv, ReadingPlace, InFeed
  <2> QED
    BY <2>1, <2>2 DEF E!After
<1>14. ReadingPlace'
  BY <1>3, <1>12, <1>13 DEF EventInv, ReadingPlace
<1> QED
  BY <1>4, <1>5, <1>6, <1>14 DEF EventInv

\* What is at the head of the buffer.
LEMMA HeadOfBuffer ==
    ASSUME EventInv, loop = "lines", buffer # wire
    PROVE  /\ buffer.event + 1 \in 1 .. Len(Feed) /\ buffer.event = Len(handed)
           /\ buffer.line \in Nat /\ buffer.line < Len(E!LinesOf(Feed[buffer.event + 1]))
           /\ E!HeadLine = E!LinesOf(Feed[buffer.event + 1])[buffer.line + 1]
           /\ current_msg = Parsed(buffer.event + 1, buffer.line)
           /\ InFeed(wire) /\ InFeed(E!NextLine(buffer)) /\ E!After(wire, E!NextLine(buffer))
<1>1. InFeed(buffer) /\ InFeed(wire) /\ E!After(wire, buffer) /\ buffer.event = Len(handed)
      /\ current_msg = Parsed(buffer.event + 1, buffer.line)
  BY DEF EventInv, ReadingPlace
<1>2. E!HeadLine = E!LinesOf(Feed[buffer.event + 1])[buffer.line + 1]
  BY DEF E!HeadLine
<1> QED
  BY <1>1, <1>2, NextPlace

\* A line that does not end the event.
LEMMA ParseLineKeeps == ASSUME EventInv, E!ParseLine PROVE EventInv'
<1> USE DEF E!config
<1>1. /\ loop = "lines" /\ buffer # wire /\ E!HeadLine # E!Blank
      /\ buffer' = E!NextLine(buffer) /\ current_msg' = E!parse_sse_line(current_msg, E!HeadLine)
      /\ reconnect_interval_ms_' = E!Retry(E!HeadLine)
      /\ loop' = loop /\ wire' = wire /\ handed' = handed /\ last_event_id_' = last_event_id_
  BY DEF E!ParseLine
<1> DEFINE k == buffer.event + 1
           i == buffer.line
           l == E!HeadLine
<1>2. /\ k \in 1 .. Len(Feed) /\ i \in Nat /\ i < Len(E!LinesOf(Feed[k]))
      /\ l = E!LinesOf(Feed[k])[i + 1] /\ current_msg = Parsed(k, i)
      /\ buffer.event = Len(handed)
      /\ InFeed(wire) /\ InFeed(buffer') /\ E!After(wire, buffer')
  BY <1>1, HeadOfBuffer
<1>3. /\ i + 1 < Len(E!LinesOf(Feed[k]))
      /\ E!parse_sse_line(Parsed(k, i), l) = Parsed(k, i + 1)
  BY <1>1, <1>2, ParsedLine
<1>4. buffer'.event = buffer.event /\ buffer'.line = i + 1
  BY <1>1, <1>3, NextPlace DEF EventInv, ReadingPlace
<1>5. E!Retry(l) \in Int
  <2>1. CASE l.field = "retry"
    BY <1>2, <2>1, RetryIsTime DEF E!Retry
  <2>2. CASE l.field # "retry"
    BY <2>2 DEF E!Retry, EventInv, LoopPlace, E!TypeOK
  <2> QED
    BY <2>1, <2>2
<1>6. LoopPlace'
  BY <1>1, <1>5 DEF EventInv, LoopPlace, E!TypeOK, E!QuietAfterStop, E!ParseLine
<1>7. AttemptsCounted'
  BY DEF EventInv, AttemptsCounted, E!ParseLine
<1>8. HandedInOrder'
  BY <1>1 DEF EventInv, HandedInOrder
<1>9. ReadingPlace'
  BY <1>1, <1>2, <1>3, <1>4 DEF ReadingPlace
<1> QED
  BY <1>6, <1>7, <1>8, <1>9 DEF EventInv

\* A blank line: an event of the feed is handed over, the next one in order, or
\* there is nothing to hand over yet.
LEMMA EndOfEventKeeps == ASSUME EventInv, E!EndOfEvent PROVE EventInv'
<1> USE DEF E!config
<1>1. /\ loop = "lines" /\ buffer # wire /\ E!HeadLine = E!Blank
      /\ buffer' = E!NextLine(buffer) /\ loop' = loop /\ wire' = wire
  BY DEF E!EndOfEvent
<1> DEFINE k == buffer.event + 1
           i == buffer.line
           l == E!HeadLine
           all == Len(E!LinesOf(Feed[k]))
<1>2. /\ k \in 1 .. Len(Feed) /\ i \in Nat /\ i < Len(E!LinesOf(Feed[k]))
      /\ l = E!LinesOf(Feed[k])[i + 1] /\ current_msg = Parsed(k, i)
      /\ buffer.event = Len(handed)
      /\ InFeed(wire) /\ InFeed(buffer') /\ E!After(wire, buffer')
  BY <1>1, HeadOfBuffer
<1>3. /\ i + 1 < all => buffer'.event = buffer.event /\ buffer'.line = i + 1
      /\ i + 1 = all => buffer'.event = k /\ buffer'.line = 0
  BY <1>1, <1>2, NextPlace DEF EventInv, ReadingPlace
<1>4. LoopPlace'
  BY <1>1 DEF EventInv, LoopPlace, E!TypeOK, E!QuietAfterStop, E!EndOfEvent
<1>5. AttemptsCounted'
  BY DEF EventInv, AttemptsCounted, E!EndOfEvent
<1>6. CASE current_msg.data # <<>>
  <2>1. /\ last_event_id_' = IF current_msg.id = E!Empty THEN last_event_id_ ELSE current_msg.id
        /\ handed' = Append(handed, current_msg)
        /\ current_msg' = E!SSEMessage
    BY <1>6 DEF E!EndOfEvent
  <2>2. i + 1 = all /\ current_msg = Feed[k]
    BY <1>1, <1>2, <1>6, ParsedLine
  <2>3. current_msg.id # E!Empty
    BY <1>2, <2>2, FeedEvent
  <2>4. handed' = SubSeq(Feed, 1, k) /\ Len(handed') = k
    <3>1. Feed \in Seq([event : STRING, data : Seq(STRING) \ {<<>>}, id : STRING \ {E!Empty}])
      BY NetworkAssumption DEF E!EventAssumption
    <3>2. handed = SubSeq(Feed, 1, k - 1)
      <4>1. handed = SubSeq(Feed, 1, Len(handed)) /\ Len(handed) \in Nat
        BY FeedEvent DEF EventInv, HandedInOrder
      <4>2. k - 1 = Len(handed)
        BY <1>2, <4>1
      <4> QED
        BY <4>1, <4>2
    <3> HIDE DEF k
    <3> QED
      BY <1>2, <2>1, <2>2, <3>1, <3>2, OneLonger
  <2>5. HandedInOrder'
    <3>1. last_event_id_' = Feed[k].id /\ k \in 0 .. Len(Feed) /\ k # 0
      BY <1>2, <2>1, <2>2, <2>3, FeedEvent
    <3> QED
      BY <2>4, <3>1 DEF HandedInOrder
  <2>6. ReadingPlace'
    <3>1. buffer'.event = Len(handed') /\ buffer'.line = 0
      BY <1>3, <2>2, <2>4
    <3> QED
      BY <1>1, <1>2, <2>1, <3>1, ParsedNothing DEF ReadingPlace
  <2> QED
    BY <1>4, <1>5, <2>5, <2>6 DEF EventInv
<1>7. CASE current_msg.data = <<>>
  <2>1. UNCHANGED <<last_event_id_, handed, current_msg>>
    BY <1>7 DEF E!EndOfEvent
  <2>2. i + 1 < all /\ Parsed(k, i + 1) = Parsed(k, i)
    BY <1>1, <1>2, <1>7, ParsedLine
  <2>3. HandedInOrder'
    BY <2>1 DEF EventInv, HandedInOrder
  <2>4. ReadingPlace'
    BY <1>1, <1>2, <1>3, <2>1, <2>2 DEF ReadingPlace
  <2> QED
    BY <1>4, <1>5, <2>3, <2>4 DEF EventInv
<1> QED
  BY <1>6, <1>7

\* Every step of the client keeps the invariant.
LEMMA EventStep == EventInv /\ [E!Next]_E!vars => EventInv'
<1> SUFFICES ASSUME EventInv, [E!Next]_E!vars PROVE EventInv'
  OBVIOUS
<1>1. CASE E!LoopStep
  BY <1>1, LoopTurns, ConnectedKeeps, ChunkKeeps, ParseLineKeeps, EndOfEventKeeps DEF E!LoopStep
<1>2. CASE E!start_async \/ E!stop \/ E!Join
  BY <1>2, OwnerTurns
<1>3. CASE UNCHANGED E!vars
  <2>1. UNCHANGED E!parsing /\ loop' = loop
    BY <1>3 DEF E!vars, E!parsing
  <2>2. LoopPlace'
    BY <1>3 DEF E!vars, E!config, E!parsing, EventInv, LoopPlace, E!TypeOK, E!QuietAfterStop
  <2>3. AttemptsCounted'
    BY <1>3 DEF E!vars, E!config, EventInv, AttemptsCounted
  <2> QED
    BY <2>1, <2>2, <2>3, NothingParsed DEF EventInv
<1> QED
  BY <1>1, <1>2, <1>3 DEF E!Next

\* What the invariant says of the handlers and of the attempts.
LEMMA EventsFollow ==
    EventInv => E!TypeOK /\ E!NoGapNoDuplicate /\ E!FailuresBounded /\ E!QuietAfterStop
<1> SUFFICES ASSUME EventInv
             PROVE  E!TypeOK /\ E!NoGapNoDuplicate /\ E!FailuresBounded /\ E!QuietAfterStop
  OBVIOUS
<1>1. E!TypeOK /\ E!QuietAfterStop
  BY DEF EventInv, LoopPlace
<1>2. E!FailuresBounded
  BY DEF EventInv, AttemptsCounted, E!FailuresBounded
<1>3. E!NoGapNoDuplicate
  <2> DEFINE h == Len(handed)
             Events == [event : STRING, data : Seq(STRING) \ {<<>>}, id : STRING \ {E!Empty}]
  <2>1. h \in 0 .. Len(Feed) /\ handed = SubSeq(Feed, 1, h) /\ Len(Feed) \in Nat
    BY FeedEvent DEF EventInv, HandedInOrder
  <2>2. Feed \in Seq(Events)
    BY NetworkAssumption DEF E!EventAssumption
  <2> HIDE DEF Events
  <2>3. handed \in Seq(Events) /\ Len(handed) = h
    BY <2>1, <2>2, CutInTwo
  <2>4. SubSeq(handed, 1, h) = handed
    BY <2>1, <2>3, CutInTwo
  <2> HIDE DEF h
  <2> QED
    BY <2>1, <2>3, <2>4 DEF E!NoGapNoDuplicate, E!IsPrefix
<1> QED
  BY <1>1, <1>2, <1>3

-----------------------------------------------------------------------------
(* The parts together.                                                     *)

\* The invariants of the parts that Network adds to Dial.
NetInv ==
    /\ part = "server" => ServerInv
    /\ part = "client" => ClientInv
    /\ part = "stream" => StreamInv
    /\ part = "events" => EventInv

\* Every initial state satisfies them, and every step keeps them.
LEMMA InitNetwork == NetworkInit => NetInv
BY InitServer, InitClient, InitStream, InitEvents DEF NetworkInit, NetInv

LEMMA NetworkStep == NetInv /\ [NetworkNext]_allVars => NetInv'
<1> SUFFICES ASSUME NetInv, [NetworkNext]_allVars PROVE NetInv'
  OBVIOUS
<1>1. part' = part
  BY DEF NetworkNext, allVars
<1>2. ASSUME part = "server" PROVE [S!Next]_S!vars
  BY <1>2 DEF NetworkNext, allVars, serverVars, S!vars
<1>3. ASSUME part = "client" PROVE [C!Next]_C!vars
  BY <1>3 DEF NetworkNext, allVars, clientVars, C!vars
<1>4. ASSUME part = "stream" PROVE [B!Next]_B!vars
  BY <1>4 DEF NetworkNext, allVars, streamVars, B!vars
<1>5. ASSUME part = "events" PROVE [E!Next]_E!vars
  BY <1>5 DEF NetworkNext, allVars, eventVars, E!vars, E!config, E!parsing
<1> QED
  BY <1>1, <1>2, <1>3, <1>4, <1>5, ServerStep, ClientStep, StreamStep, EventStep DEF NetInv

\* TLS, in one theorem: a server's sessions and sockets end together and an
\* OpenSSL handshake uses the certificate its session was made with, with any
\* update of the certificates at any moment (after one whose key is another
\* certificate's there may be none, and then no handshake is done); a client keeps a session only if
\* its settings accept it; a reader gets the peer's bytes once and in order, all
\* of them before a clean end, and a peer with unread bytes is not given up.
THEOREM TlsIsSound == NetworkSpec => []TlsSound
<1>1. NetInv => TlsSound
  BY ServerEndsClean, ServerCertificate, ClientKeeps, StreamEnds DEF NetInv, TlsSound
<1> QED
  BY <1>1, InitNetwork, NetworkStep, PTL DEF NetworkSpec

\* The event stream: over any number of broken connections, chunks that end
\* anywhere, reconnections, retry times and calls of stop(), the handlers have
\* been given the first events of the feed, in order, each once and whole; the
\* loop gives up in time; and it is over once stop() has returned.  For every
\* feed, any comments, empty lines and retry times before its events, and every
\* limit.
THEOREM EventsArriveInOrder == NetworkSpec => []EventsInOrder
<1>1. NetInv => EventsInOrder
  BY EventsFollow DEF NetInv, EventsInOrder
<1> QED
  BY <1>1, InitNetwork, NetworkStep, PTL DEF NetworkSpec

\* The name in a session is the one its own client asked for; with Mbed TLS
\* only on a thread where no handshake that had named a host has failed.
THEOREM NameIsKept == S!Spec => S!NameIsOwnOrLeftOver
<1>1. S!Init => ServerInv
  BY InitServer
<1>2. ServerInv /\ [S!Next]_S!vars => ServerInv'
  BY ServerStep
<1>3. ServerInv /\ [S!Next]_S!vars =>
          [\A t \in Threads :
              server_pc[t] = "finish" /\ server_pc'[t] = "serve" /\ ~leftOver[t]
              /\ server_backend = "mbedtls" =>
                  server_session'[conn[t]].sni = server_session[conn[t]].asked]_S!vars
  <2> SUFFICES ASSUME ServerInv, [S!Next]_S!vars, S!vars' # S!vars, NEW t \in Threads,
                      server_pc[t] = "finish", server_pc'[t] = "serve", ~leftOver[t],
                      server_backend = "mbedtls"
               PROVE  server_session'[conn[t]].sni = server_session[conn[t]].asked
    OBVIOUS
  <2>1. pending_sni[t] = server_session[conn[t]].asked
    BY DEF ServerInv, NamesKept
  <2>2. ~S!Update
    BY DEF S!Update, S!BeginUpdate, S!update_openssl, S!update_mbedtls_free,
       S!update_mbedtls_parse, S!update_client_ca, S!EndUpdate, S!updater
  <2>3. PICK u \in Threads : S!Handle(u)
    BY <2>2 DEF S!Next
  <2>4. server_pc \in [Threads -> ThreadStates] /\ conn[t] \in Conns
        /\ server_session[conn[t]] \in Sessions /\ server_session \in [Conns -> Sessions]
    BY DEF ServerInv, ServerTypes, OneThread
  <2>5. u = t
    BY <2>3, <2>4 DEF S!Handle, S!Take, S!CreateSession, S!Hello, S!Certify, S!Finish,
       S!HandshakeFails, S!Serve, S!Close, S!Goto
  <2>6. S!Finish(t)
    BY <2>3, <2>4, <2>5 DEF S!Handle, S!Take, S!CreateSession, S!Hello, S!Certify,
       S!HandshakeFails, S!Serve, S!Close, S!Goto
  <2> QED
    BY <2>1, <2>4, <2>6 DEF S!Finish, Sessions
<1> QED
  BY <1>1, <1>2, <1>3, PTL DEF S!Spec, S!NameIsOwnOrLeftOver

=============================================================================
