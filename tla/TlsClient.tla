----------------------------- MODULE TlsClient -----------------------------
(***************************************************************************)
(* SSLClient: how a socket becomes a session that requests may use         *)
(* (initialize_ssl), attempt after attempt, and what becomes of both when  *)
(* a step fails.  OpenSSL checks the certificate after the handshake,      *)
(* Mbed TLS during it, as set_verify_client and set_sni have arranged.     *)
(***************************************************************************)
EXTENDS Naturals

CONSTANTS
    Backends,       \* subset of {"openssl", "mbedtls"}
    Attempts        \* bound: connections tried

ClientAssumption == Backends \subseteq {"openssl", "mbedtls"}

VARIABLES
    backend,
    settings,       \* what the user has set
    server,         \* the server's certificate [chain, name]
    initialize_cert_, \* call_once: "no", "done", "failed"
    ca,             \* "none", "file", "system": what the context trusts
    proxied,        \* this connection is through a proxy
    pc,
    sock,           \* "none", "open"
    session,        \* "none", "made", "kept" (socket.ssl)
    error,
    attempts

vars == <<backend, settings, server, initialize_cert_, ca, proxied, pc, sock, session,
          error, attempts>>
given == <<backend, settings, server, proxied>>

\* The hosts are names: for addresses Mbed TLS leaves the check to a library
\* value that the source does not determine.
Settings == [verify : BOOLEAN, hostname : BOOLEAN, file : {"none", "good", "bad"},
             verifier : {"NoDecisionMade", "CertificateAccepted", "CertificateRejected"}]

Goto(l) == pc' = l
Fail(e) == error' = e /\ Goto("clean")
Trusted == server.chain = ca
ChainIsGood == Trusted \/ ~settings.verify

-----------------------------------------------------------------------------

\* create_and_connect_socket, and with a proxy the CONNECT.  A socket that a
\* failed attempt left open has no session: is_peer_closed gives it up first.
Connect ==
    /\ pc = "idle" /\ attempts < Attempts /\ session # "kept"
    /\ attempts' = attempts + 1
    /\ sock' = "open" /\ error' = "Success"
    /\ Goto(IF settings.verify THEN "load" ELSE "create")
    /\ UNCHANGED <<given, initialize_cert_, ca, session>>

\* The peer closes, or the client is stopped: the session goes first.
Disconnect ==
    /\ pc = "idle" /\ session = "kept"
    /\ session' = "none" /\ sock' = "none"
    /\ UNCHANGED <<given, initialize_cert_, ca, pc, error, attempts>>

\* load_certs: call_once runs it once, and its failure is known to that call.
load_certs ==
    /\ pc = "load"
    /\ IF initialize_cert_ # "no"
       THEN Goto("create") /\ UNCHANGED <<initialize_cert_, ca, error>>
       ELSE IF settings.file = "bad"
            THEN /\ initialize_cert_' = "failed" /\ Fail("SSLLoadingCerts") /\ UNCHANGED ca
            ELSE /\ initialize_cert_' = "done" /\ Goto("create") /\ UNCHANGED error
                 /\ ca' = IF settings.file = "good" THEN "file" ELSE "system"
    /\ UNCHANGED <<given, sock, session, attempts>>

\* create_session and set_sni.
CreateSession ==
    /\ pc = "create"
    /\ \/ session' = "made" /\ Goto("handshake") /\ UNCHANGED error
       \/ Fail("SSLConnection") /\ UNCHANGED session
       \/ session' = "made" /\ Fail("SSLConnection")
    /\ UNCHANGED <<given, initialize_cert_, ca, sock, attempts>>

\* Mbed TLS: in the mode that set_verify_client has set the handshake itself
\* checks the chain, and the name that set_sni has given it.
HandshakeAccepts ==
    backend = "mbedtls" /\ settings.verify => Trusted /\ server.name

connect_nonblocking ==
    /\ pc = "handshake"
    /\ \/ HandshakeAccepts /\ Goto("verifier") /\ UNCHANGED error
       \/ ~HandshakeAccepts /\ Fail("SSLServerVerification")
       \/ Fail("SSLConnection")                   \* timeout, reset
    /\ UNCHANGED <<given, initialize_cert_, ca, sock, session, attempts>>

\* session_verifier_ decides for or against the certificate, or not at all.
Verifier ==
    /\ pc = "verifier"
    /\ CASE settings.verifier = "CertificateRejected" -> Fail("SSLServerVerification")
         [] settings.verifier = "CertificateAccepted" -> Goto("keep") /\ UNCHANGED error
         [] OTHER -> Goto(IF settings.verify THEN "verify" ELSE "keep") /\ UNCHANGED error
    /\ UNCHANGED <<given, initialize_cert_, ca, sock, session, attempts>>

\* get_verify_result, get_peer_cert, verify_hostname.
Verify ==
    /\ pc = "verify"
    /\ IF ~Trusted THEN Fail("SSLServerVerification")
       ELSE IF settings.hostname /\ ~server.name THEN Fail("SSLServerHostnameVerification")
       ELSE Goto("keep") /\ UNCHANGED error
    /\ UNCHANGED <<given, initialize_cert_, ca, sock, session, attempts>>

Keep ==
    /\ pc = "keep"
    /\ session' = "kept" /\ Goto("idle")
    /\ UNCHANGED <<given, initialize_cert_, ca, sock, error, attempts>>

\* The session_guard frees the session; ensure_socket_connection closes the
\* socket.  Behind a proxy nobody does: it waits for the next attempt.
CleanUp ==
    /\ pc = "clean"
    /\ session' = "none" /\ Goto("idle")
    /\ sock' = IF proxied THEN sock ELSE "none"
    /\ UNCHANGED <<given, initialize_cert_, ca, error, attempts>>

-----------------------------------------------------------------------------

Init ==
    /\ backend \in Backends /\ proxied \in BOOLEAN
    /\ settings \in Settings
    /\ server \in [chain : {"file", "system", "unknown"}, name : BOOLEAN]
    /\ initialize_cert_ = "no" /\ ca = "none" /\ pc = "idle" /\ sock = "none"
    /\ session = "none" /\ error = "Success" /\ attempts = 0

Next ==
    \/ Connect \/ Disconnect \/ load_certs \/ CreateSession \/ connect_nonblocking
    \/ Verifier \/ Verify \/ Keep \/ CleanUp

Spec == Init /\ [][Next]_vars

-----------------------------------------------------------------------------

\* A session that requests may use is of a server that the client's settings
\* accept, whichever attempt it came from and whichever side checked it; after
\* a CA file that could not be read nothing is trusted.
\* (initialize_ssl, load_certs.)
KeptIsAccepted ==
    session = "kept" =>
        /\ settings.verifier # "CertificateRejected"
        /\ settings.verifier = "CertificateAccepted" \/ ChainIsGood
        /\ settings.verify /\ settings.hostname /\ settings.verifier = "NoDecisionMade" =>
               server.name
        /\ initialize_cert_ = "failed" /\ settings.verify =>
               settings.verifier = "CertificateAccepted" /\ backend = "openssl"

\* Between two attempts there is a socket with its session, or neither; only
\* a tunnel may be left without its session, and no request finds it in use.
\* (session_guard, ensure_socket_connection, setup_proxy_connection.)
NothingHalfMade ==
    pc = "idle" =>
        /\ session # "made"
        /\ session = "kept" => sock = "open"
        /\ sock = "open" /\ session = "none" => proxied /\ error # "Success"

\* "The certificate itself is still validated", no more: with the host name
\* check off, a good chain is enough, also on Mbed TLS.
HostnameCheckIsOptional ==
    settings.verify /\ ~settings.hostname /\ Trusted => error # "SSLServerVerification"
        \/ settings.verifier = "CertificateRejected"

=============================================================================
