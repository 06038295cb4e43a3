------------------------------ MODULE Network -------------------------------
(***************************************************************************)
(* The edges of a connection: dialling a host (Dial), the TLS handshake of *)
(* the server and of the client, reading from a TLS session, and the       *)
(* reconnecting event stream.  They share no state, so `part` says which   *)
(* of them a behaviour is about and the others are over or not begun.      *)
(***************************************************************************)
EXTENDS Dial, Integers, Sequences, FiniteSets

CONSTANTS
    Threads, Conns, Names, ServerBackends, Updates,
    ClientBackends, Attempts,
    Backends, RecordEnds, BufferSize, Retries, Writes,
    Feed, Noise, Statuses, Limits, Interval, MaxConnects, MaxStarts

VARIABLES
    part,
    server_backend, ctx_mutex_, cert, update, server_pc, conn, pending_sni, server_session,
    server_sock, updates, leftOver,
    client_backend, settings, server, initialize_cert_, ca, proxied, client_pc, client_sock,
    client_session, client_error, attempts,
    backend, arrived, half, taken, closed, pending, got, pc, n, error_, eof, verdicts, writes,
    max_reconnect_attempts_, reconnect_interval_ms_, running_, connected_, last_event_id_, loop,
    reconnect_count, waited, buffer, current_msg, owner, starts, wire, handed, connects, failures

S == INSTANCE TlsServer WITH
         Backends <- ServerBackends, backend <- server_backend, pc <- server_pc,
         session <- server_session, sock <- server_sock
C == INSTANCE TlsClient WITH
         Backends <- ClientBackends, backend <- client_backend, pc <- client_pc,
         sock <- client_sock, session <- client_session, error <- client_error
B == INSTANCE TlsStream
E == INSTANCE EventStream

ASSUME NetworkAssumption ==
    S!ServerAssumption /\ C!ClientAssumption /\ B!StreamAssumption /\ E!EventAssumption

serverVars == <<server_backend, ctx_mutex_, cert, update, server_pc, conn, pending_sni,
                server_session, server_sock, updates, leftOver>>
clientVars == <<client_backend, settings, server, initialize_cert_, ca, proxied, client_pc,
                client_sock, client_session, client_error, attempts>>
streamVars == <<backend, arrived, half, taken, closed, pending, got, pc, n, error_, eof, verdicts,
                writes>>
eventVars == <<max_reconnect_attempts_, reconnect_interval_ms_, running_, connected_,
               last_event_id_, loop, reconnect_count, waited, buffer, current_msg, owner, starts,
               wire, handed, connects, failures>>
allVars == <<part, vars, serverVars, clientVars, streamVars, eventVars>>

NoDial ==
    /\ build = "off" /\ purpose = "connect" /\ intf = FALSE
    /\ caller = "done" /\ resolver = "ended" /\ list = "none"
    /\ left = 0 /\ fds = {} /\ sock = 0 /\ error = "Connection" /\ waits = 0
NoServer ==
    /\ server_backend = "off" /\ ctx_mutex_ = 0 /\ cert = 0 /\ update = [step |-> "idle"]
    /\ server_pc = [t \in Threads |-> "off"] /\ conn = 0 /\ pending_sni = 0 /\ server_session = 0
    /\ server_sock = [c \in Conns |-> "off"] /\ updates = 0 /\ leftOver = 0
NoClient ==
    /\ client_backend = "off" /\ settings = 0 /\ server = 0 /\ initialize_cert_ = 0 /\ ca = 0
    /\ proxied = 0 /\ client_pc = "off" /\ client_sock = 0 /\ client_session = 0
    /\ client_error = 0 /\ attempts = 0
NoStream ==
    /\ backend = "off" /\ arrived = 0 /\ half = 0 /\ taken = 0 /\ closed = 0 /\ pending = 0
    /\ got = 0 /\ pc = "off" /\ n = 0 /\ error_ = 0 /\ eof = 0 /\ verdicts = 0 /\ writes = 0
NoEvents ==
    /\ max_reconnect_attempts_ = 0 /\ reconnect_interval_ms_ = 0 /\ running_ = FALSE
    /\ connected_ = FALSE /\ last_event_id_ = "" /\ loop = "off" /\ reconnect_count = 0
    /\ waited = 0 /\ buffer = 0 /\ current_msg = 0 /\ owner = "idle" /\ starts = 0
    /\ wire = 0 /\ handed = 0 /\ connects = 0 /\ failures = 0

NetworkInit ==
    \/ part = "dial" /\ Init /\ NoServer /\ NoClient /\ NoStream /\ NoEvents
    \/ part = "server" /\ NoDial /\ S!Init /\ NoClient /\ NoStream /\ NoEvents
    \/ part = "client" /\ NoDial /\ NoServer /\ C!Init /\ NoStream /\ NoEvents
    \/ part = "stream" /\ NoDial /\ NoServer /\ NoClient /\ B!Init /\ NoEvents
    \/ part = "events" /\ NoDial /\ NoServer /\ NoClient /\ NoStream /\ E!Init

NetworkNext ==
    \/ /\ part = "dial" /\ Next
       /\ UNCHANGED <<part, serverVars, clientVars, streamVars, eventVars>>
    \/ /\ part = "server" /\ S!Next
       /\ UNCHANGED <<part, vars, clientVars, streamVars, eventVars>>
    \/ /\ part = "client" /\ C!Next
       /\ UNCHANGED <<part, vars, serverVars, streamVars, eventVars>>
    \/ /\ part = "stream" /\ B!Next
       /\ UNCHANGED <<part, vars, serverVars, clientVars, eventVars>>
    \/ /\ part = "events" /\ E!Next
       /\ UNCHANGED <<part, vars, serverVars, clientVars, streamVars>>

\* what is over or off is not enabled, so its fairness asks nothing
NetworkSpec ==
    NetworkInit /\ [][NetworkNext]_allVars /\ Fairness /\ S!Fairness /\ E!Fairness

-----------------------------------------------------------------------------
(* The properties of the parts; those of Dial hold of a call that is over    *)

\* TLS: the server's sessions and sockets end together, and an OpenSSL handshake
\* uses the certificate its session was made with, update_certs() at any
\* moment; the client keeps a session that its settings accept, and nothing
\* half made; a reader gets the peer's bytes once, in order, all before the
\* end, and does not give up a peer whose bytes it has not read.
TlsSound ==
    /\ part = "server" => S!NothingLeftBehind /\ S!CertificateIsWhole
    /\ part = "client" => C!KeptIsAccepted /\ C!NothingHalfMade
    /\ part = "stream" => B!BytesInOrder /\ B!EndIsTheEnd /\ B!UnreadIsAlive

\* EventStream: across reconnections the handlers get the events of the feed in
\* order, each once; failures in a row are bounded; stop() leaves it quiet.
EventsInOrder ==
    part = "events" =>
        E!TypeOK /\ E!NoGapNoDuplicate /\ E!FailuresBounded /\ E!QuietAfterStop
=============================================================================
