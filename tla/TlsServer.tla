----------------------------- MODULE TlsServer -----------------------------
(***************************************************************************)
(* SSLServer: pool threads that accept TLS connections while the owner of  *)
(* the server replaces its certificate (update_certs_pem).                 *)
(*                                                                         *)
(* The back ends differ in two ways that matter here.  An OpenSSL session  *)
(* takes the certificate of the context when it is created; an Mbed TLS    *)
(* session reads the context during its handshake.  OpenSSL keeps the name *)
(* a client asked for in the session; Mbed TLS keeps it in a variable of   *)
(* the thread until the handshake is done.                                 *)
(***************************************************************************)
EXTENDS Naturals, FiniteSets

CONSTANTS
    Threads,        \* the pool's threads
    Conns,          \* accepted sockets
    Names,          \* names a client may ask for
    Backends,       \* subset of {"openssl", "mbedtls"}
    Updates         \* bound: calls of update_certs_pem

Nobody == "nobody"
NoConn == "no conn"
NoName == "no name"
Owner == "owner"    \* the thread that updates the certificate

ServerAssumption == NoConn \notin Conns /\ NoName \notin Names /\ Updates \in Nat

VARIABLES
    backend,
    ctx_mutex_,     \* who holds it
    cert,           \* the context's certificate, by number; 0 without one, or its key
    update,         \* the update under way, or the last one
    pc, conn,       \* the pool's threads
    pending_sni,    \* mbedpending_sni(), thread-local
    session,        \* session[c]
    sock,           \* sock[c]: "accepted", "open", "closed"
    updates,        \* certificates made so far
    leftOver        \* history: a handshake failed on this thread after its name

vars == <<backend, ctx_mutex_, cert, update, pc, conn, pending_sni, session, sock,
          updates, leftOver>>
updating == <<cert, update, updates>>

\* asked: what the client sent; cert: the copy; used: the certificate of the
\* handshake; goodbye: close_notify was sent.
NoSession == [alive |-> FALSE, asked |-> NoName, sni |-> NoName, cert |-> 0, used |-> 0,
              done |-> FALSE, good |-> FALSE, upgraded |-> FALSE, goodbye |-> FALSE]

Goto(t, l) == pc' = [pc EXCEPT ![t] = l]
Set(c, f, v) == session' = [session EXCEPT ![c][f] = v]

-----------------------------------------------------------------------------
\* The pool's threads.

Take(t) ==
    /\ pc[t] = "idle"
    /\ \E c \in Conns : /\ sock[c] = "accepted"
                        /\ sock' = [sock EXCEPT ![c] = "open"]
                        /\ conn' = [conn EXCEPT ![t] = c]
    /\ Goto(t, "create")
    /\ UNCHANGED <<backend, ctx_mutex_, updating, pending_sni, session, leftOver>>

create_session_openssl == [NoSession EXCEPT !.alive = TRUE, !.cert = cert]
create_session_mbedtls == [NoSession EXCEPT !.alive = TRUE]

\* create_session, under ctx_mutex_; it may find no memory.
CreateSession(t) ==
    /\ pc[t] = "create" /\ ctx_mutex_ = Nobody
    /\ \/ /\ session' = [session EXCEPT ![conn[t]] =
                           IF backend = "openssl" THEN create_session_openssl
                           ELSE create_session_mbedtls]
          /\ Goto(t, "handshake")
       \/ Goto(t, "close") /\ UNCHANGED session
    /\ UNCHANGED <<backend, ctx_mutex_, updating, conn, pending_sni, sock, leftOver>>

\* The ClientHello.  The SNI callback runs when it names a host.
Hello(t) ==
    /\ pc[t] = "handshake"
    /\ \E name \in Names \cup {NoName} :
          /\ Set(conn[t], "asked", name)
          /\ pending_sni' = IF name # NoName /\ backend = "mbedtls"
                            THEN [pending_sni EXCEPT ![t] = name] ELSE pending_sni
    /\ Goto(t, "certify")
    /\ UNCHANGED <<backend, ctx_mutex_, updating, conn, sock, leftOver>>

\* The handshake sends the certificate.  accept_nonblocking runs without
\* ctx_mutex_; a certificate that is being replaced is none.
Certify(t) ==
    /\ pc[t] = "certify"
    /\ LET s == session[conn[t]]
           used == IF backend = "openssl" THEN s.cert ELSE cert
       IN IF used # 0
          THEN Set(conn[t], "used", used) /\ Goto(t, "finish") /\ UNCHANGED leftOver
          ELSE /\ leftOver' = [leftOver EXCEPT ![t] = @ \/ s.asked # NoName]
               /\ Goto(t, "close") /\ UNCHANGED session
    /\ UNCHANGED <<backend, ctx_mutex_, updating, conn, pending_sni, sock>>

\* After the handshake the name goes to the session, and is cleared.
Finish(t) ==
    /\ pc[t] = "finish"
    /\ session' = [session EXCEPT ![conn[t]].done = TRUE,
                     ![conn[t]].sni = IF backend = "openssl" THEN @ ELSE pending_sni[t]]
    /\ pending_sni' = [pending_sni EXCEPT ![t] = NoName]
    /\ leftOver' = [leftOver EXCEPT ![t] = FALSE]
    /\ Goto(t, "serve")
    /\ UNCHANGED <<backend, ctx_mutex_, updating, conn, sock>>

\* The peer says no, goes away, or says nothing until the timeout.
HandshakeFails(t) ==
    /\ pc[t] \in {"handshake", "certify", "finish"}
    /\ leftOver' = [leftOver EXCEPT ![t] = @ \/ session[conn[t]].asked # NoName]
    /\ Goto(t, "close")
    /\ UNCHANGED <<backend, ctx_mutex_, updating, conn, pending_sni, session, sock>>

\* The requests of the connection; an exception leaves ret FALSE.
Serve(t) ==
    /\ pc[t] = "serve"
    /\ \E good, upgraded \in BOOLEAN :
          session' = [session EXCEPT ![conn[t]].good = good, ![conn[t]].upgraded = upgraded]
    /\ Goto(t, "close")
    /\ UNCHANGED <<backend, ctx_mutex_, updating, conn, pending_sni, sock, leftOver>>

\* tls::shutdown sends close_notify; not after a WebSocket, that has said it.
Graceful(s) == s.done /\ s.good /\ ~s.upgraded

\* The scope_exit: close_notify, free_session, then the socket.  A context
\* that is locked does not keep it waiting.
Close(t) ==
    /\ pc[t] = "close"
    /\ LET c == conn[t] s == session[c]
       IN /\ session' = [session EXCEPT ![c] = [NoSession EXCEPT !.goodbye = Graceful(s)]]
          /\ sock' = [sock EXCEPT ![c] = "closed"]
    /\ conn' = [conn EXCEPT ![t] = NoConn]
    /\ Goto(t, "idle")
    /\ UNCHANGED <<backend, ctx_mutex_, updating, pending_sni, leftOver>>

-----------------------------------------------------------------------------
\* update_certs_pem, with a good pair, a bad certificate, a bad key, or a key
\* that is another certificate's.  keyless: history: such a key came, and no good
\* pair since.

Idle == [step |-> "idle", input |-> "good", result |-> TRUE, keyless |-> FALSE]

BeginUpdate ==
    /\ update.step = "idle" /\ updates < Updates /\ ctx_mutex_ = Nobody
    /\ ctx_mutex_' = Owner /\ updates' = updates + 1
    /\ \E input \in {"good", "badCert", "badKey", "otherKey", "badCA"} :
          update' = [update EXCEPT !.step = "cert", !.input = input, !.result = TRUE]
    /\ UNCHANGED <<backend, cert, pc, conn, pending_sni, session, sock, leftOver>>

Step(s) == update' = [update EXCEPT !.step = s]
Renewed == cert' = updates + 1 /\ update' = [update EXCEPT !.step = "ca", !.keyless = FALSE]
Fail == update' = [update EXCEPT !.step = "unlock", !.result = FALSE]
updater == <<backend, ctx_mutex_, pc, conn, pending_sni, session, sock, updates, leftOver>>

\* A wrong update_openssl: the old certificate goes first.
update_openssl_inplace ==
    /\ backend = "openssl" /\ update.step = "cert"
    /\ IF update.input \in {"badCert", "badKey"}
       THEN Fail /\ cert' = 0
       ELSE Renewed
    /\ UNCHANGED updater

\* OpenSSL: both are parsed before the context changes.  The certificate goes in
\* first and takes the old key out, unless that fits it too; a key that does not
\* fit is refused.
update_openssl ==
    /\ backend = "openssl" /\ update.step = "cert"
    /\ \/ update.input \in {"badCert", "badKey"} /\ Fail /\ UNCHANGED cert
       \/ /\ update.input = "otherKey" /\ cert' \in {0, updates + 1}
          /\ update' = [update EXCEPT !.step = "unlock", !.result = FALSE, !.keyless = TRUE]
       \/ update.input \in {"good", "badCA"} /\ Renewed
    /\ UNCHANGED updater

\* Mbed TLS: the old ones are freed where they are, then the new ones parsed.
update_mbedtls_free ==
    /\ backend = "mbedtls" /\ update.step = "cert"
    /\ cert' = 0 /\ Step("parse")
    /\ UNCHANGED updater

\* whether the two fit is not looked at: the clients find out
update_mbedtls_parse ==
    /\ update.step = "parse"
    /\ IF update.input \in {"badCert", "badKey"}
       THEN Fail /\ UNCHANGED cert
       ELSE Renewed
    /\ UNCHANGED updater

\* The client CA comes last: when it is bad the certificate is new already.
update_client_ca ==
    /\ update.step = "ca"
    /\ IF update.input = "badCA" THEN Fail ELSE Step("unlock")
    /\ UNCHANGED <<cert, updater>>

EndUpdate ==
    /\ update.step = "unlock"
    /\ ctx_mutex_' = Nobody /\ Step("idle")
    /\ UNCHANGED <<backend, cert, pc, conn, pending_sni, session, sock, updates, leftOver>>

-----------------------------------------------------------------------------

Init ==
    /\ backend \in Backends
    /\ ctx_mutex_ = Nobody /\ cert = 1 /\ update = Idle /\ updates = 0
    /\ pc = [t \in Threads |-> "idle"] /\ conn = [t \in Threads |-> NoConn]
    /\ pending_sni = [t \in Threads |-> NoName]
    /\ session = [c \in Conns |-> NoSession]
    /\ sock = [c \in Conns |-> "accepted"]
    /\ leftOver = [t \in Threads |-> FALSE]

Handle(t) == Take(t) \/ CreateSession(t) \/ Hello(t) \/ Certify(t) \/ Finish(t)
             \/ HandshakeFails(t) \/ Serve(t) \/ Close(t)
Update == BeginUpdate \/ update_openssl \/ update_mbedtls_free \/ update_mbedtls_parse
          \/ update_client_ca \/ EndUpdate
Finishing == update.step # "idle" /\ Update

Next == (\E t \in Threads : Handle(t)) \/ Update

Spec == Init /\ [][Next]_vars

\* The pool's threads run, and a call of update_certs_pem runs to its end.
Fairness ==
    /\ \A t \in Threads : WF_vars(Handle(t))
    /\ WF_vars(Finishing)

FairSpec == Spec /\ Fairness

-----------------------------------------------------------------------------

\* A closed socket has no session left, and an open one has one thread.
\* (process_and_close_socket's scope_exit.)
NothingLeftBehind ==
    \A c \in Conns :
        /\ sock[c] = "closed" => ~session[c].alive
        /\ Cardinality({t \in Threads : conn[t] = c}) = (IF sock[c] = "open" THEN 1 ELSE 0)

\* The name in a session is the one its own client asked for.  With Mbed TLS
\* it may be the name of a handshake that failed before on the same thread.
\* (mbedtls_sni_callback, accept_nonblocking.)
NameIsOwnOrLeftOver ==
    [][\A t \in Threads :
          pc[t] = "finish" /\ pc'[t] = "serve" /\ ~leftOver[t] /\ backend = "mbedtls" =>
              session'[conn[t]].sni = session[conn[t]].asked]_vars

\* With OpenSSL a handshake uses the certificate its session was created
\* with, whatever update_certs_pem does meanwhile, and is not done without one; a
\* failed update leaves the server one, unless the new certificate came with a key
\* that is not its own.  (create_session, update_server_cert.)
CertificateIsWhole ==
    backend = "openssl" =>
        /\ cert # 0 \/ update.keyless
        /\ \A c \in Conns : /\ session[c].used \in {0, session[c].cert}
                            /\ session[c].done => session[c].used # 0

\* Every connection that a thread has taken is closed in the end.
TakenIsClosed(c) == sock[c] = "open" ~> sock[c] = "closed"

\* A claim that the code does not keep, in no run:
\* "Existing connections keep using the old cert; new connections use the new
\* one": whenever a handshake needs a certificate there is one.
AlwaysACertificate ==
    \A t \in Threads : pc[t] = "certify" /\ backend = "mbedtls" => cert # 0

\* A claim that the code does not keep, in no run:
\* "It will be retrieved and stored in the session after handshake": the name
\* is that of the session's own handshake.
NameIsOwn ==
    [][\A t \in Threads :
          pc[t] = "finish" /\ pc'[t] = "serve" /\ backend = "mbedtls" =>
              session'[conn[t]].sni = session[conn[t]].asked]_vars

=============================================================================
