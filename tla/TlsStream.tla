----------------------------- MODULE TlsStream -----------------------------
(***************************************************************************)
(* SSLSocketStream: reading and writing over a TLS session.  The peer's    *)
(* bytes come in records; a record may arrive in pieces, and the session   *)
(* may hold decrypted bytes that the socket no longer shows.  A write      *)
(* looks first whether the peer has closed, by reading ahead.              *)
(***************************************************************************)
EXTENDS Naturals, Sequences, FiniteSetsExt

CONSTANTS
    Backends,       \* subset of {"openssl", "wolfssl", "mbedtls"}
    RecordEnds,     \* the peer's records: how many bytes it has sent after each
    BufferSize,     \* the caller's buffer
    Retries,        \* 1000 in the code
    Writes          \* bound: writes of the application

\* No record is empty.
StreamAssumption ==
    /\ RecordEnds \in Seq(Nat \ {0})
    /\ \A r, q \in DOMAIN RecordEnds : r < q => RecordEnds[r] < RecordEnds[q]
    /\ BufferSize \in Nat \ {0} /\ Retries \in Nat

End(r) == IF r = 0 THEN 0 ELSE RecordEnds[r]
Bytes == End(Len(RecordEnds))
Record(r) == [i \in 1 .. End(r) - End(r - 1) |-> End(r - 1) + i]

\* The peer's first b bytes.
Sent(b) == [i \in 1 .. b |-> i]

VARIABLES
    backend,
    arrived,        \* whole records the socket has received
    half,           \* part of the next one is there too
    taken,          \* records the session has decrypted
    closed,         \* "no", "notify" (close_notify after the records), "reset"
    pending,        \* decrypted bytes the session holds
    got,            \* bytes the application has
    pc,             \* "idle", "read", "retry", "write", "rewrite"
    n,              \* retries left
    error_,         \* "none", "Timeout", "ConnectionClosed"
    eof,            \* a read returned 0
    verdicts,       \* what is_peer_closed has answered
    writes

vars == <<backend, arrived, half, taken, closed, pending, got, pc, n, error_, eof,
          verdicts, writes>>
peer == <<arrived, half, closed>>

Over == taken = Len(RecordEnds) /\ closed = "notify"
Readable == taken < arrived \/ half \/ Over \/ closed = "reset"
Stop == pc' = "idle"

-----------------------------------------------------------------------------
\* The peer and the network.

Arrive ==
    /\ arrived < Len(RecordEnds) /\ closed # "reset"
    /\ \/ ~half /\ half' = TRUE /\ UNCHANGED arrived
       \/ half' = FALSE /\ arrived' = arrived + 1
    /\ UNCHANGED <<backend, taken, closed, pending, got, pc, n, error_, eof, verdicts, writes>>

PeerCloses ==
    /\ closed = "no"
    /\ \/ arrived = Len(RecordEnds) /\ closed' = "notify"
       \/ closed' = "reset"
    /\ UNCHANGED <<backend, arrived, half, taken, pending, got, pc, n, error_, eof,
                   verdicts, writes>>

-----------------------------------------------------------------------------
\* tls::read: bytes, 0 at the end, or -1 with WantRead or another error.

\* A record is decrypted; the caller takes what fits its buffer.
Deliver(bytes) ==
    LET k == Min({Len(bytes), BufferSize})
    IN /\ got' = got \o SubSeq(bytes, 1, k)
       /\ pending' = SubSeq(bytes, k + 1, Len(bytes))

ReadPending == pending # <<>> /\ Deliver(pending) /\ UNCHANGED taken
ReadRecord == /\ pending = <<>> /\ taken < arrived
              /\ Deliver(Record(taken + 1)) /\ taken' = taken + 1

Gives == ReadPending \/ ReadRecord

Nothing == pending = <<>> /\ taken = arrived /\ UNCHANGED <<pending, got, taken>>
WantRead == Nothing /\ ~Over /\ closed # "reset"
AtEnd == Nothing /\ Over
Fatal == Nothing /\ ~Over /\ closed = "reset"

ReadStart ==
    /\ pc = "idle" /\ ~eof
    /\ pc' = "read" /\ n' = Retries /\ error_' = "none"
    /\ UNCHANGED <<backend, peer, taken, pending, got, eof, verdicts, writes>>

\* SSLSocketStream::read: what is decrypted already comes without waiting.
\* A session that has nothing whole wants more, up to Retries times.
Read ==
    /\ pc = "read" /\ (pending # <<>> \/ Readable)
    /\ \/ Gives /\ Stop /\ UNCHANGED <<error_, eof>>
       \/ AtEnd /\ Stop /\ error_' = "ConnectionClosed" /\ eof' = TRUE
       \/ Fatal /\ Stop /\ eof' = TRUE /\ UNCHANGED error_
       \/ WantRead /\ pc' = "retry" /\ UNCHANGED <<error_, eof>>
    /\ UNCHANGED <<backend, peer, n, verdicts, writes>>

ReadTimesOut ==
    /\ pc = "read" /\ pending = <<>> /\ ~Readable
    /\ error_' = "Timeout" /\ Stop
    /\ UNCHANGED <<backend, peer, taken, pending, got, n, eof, verdicts, writes>>

\* The retries: only a wait that finds nothing, or the last one, gives up.
Retry ==
    /\ pc = "retry"
    /\ \/ /\ n > 0 /\ Readable /\ n' = n - 1
          /\ \/ Gives /\ Stop /\ UNCHANGED eof
             \/ (AtEnd \/ Fatal) /\ Stop /\ eof' = TRUE
             \/ WantRead /\ UNCHANGED <<pc, eof>>
       \/ (n = 0 \/ ~Readable) /\ Stop /\ UNCHANGED <<taken, pending, got, n, eof>>
    /\ UNCHANGED <<backend, peer, error_, verdicts, writes>>

-----------------------------------------------------------------------------
\* tls::is_peer_closed.  OpenSSL and wolfSSL peek, Mbed TLS reads a byte; the
\* others than OpenSSL also take a connection that broke for closed.

Closed == pending = <<>> /\ taken = arrived /\ (Over \/ (backend # "openssl" /\ closed = "reset"))
Verdict(b) ==
    verdicts' = verdicts \cup {[closed |-> b, unread |-> Len(got) < End(arrived), all |-> Over]}

PeekClosed ==
    \/ pending # <<>> /\ Verdict(FALSE) /\ UNCHANGED <<pending, taken>>
    \/ /\ pending = <<>> /\ taken < arrived
       /\ pending' = Record(taken + 1) /\ taken' = taken + 1 /\ Verdict(FALSE)
    \/ pending = <<>> /\ taken = arrived /\ Verdict(Closed) /\ UNCHANGED <<pending, taken>>

ReadsAByte ==
    \/ pending # <<>> /\ Verdict(FALSE) /\ UNCHANGED <<pending, taken>>
    \/ /\ pending = <<>> /\ taken < arrived
       /\ pending' = Tail(Record(taken + 1)) /\ taken' = taken + 1 /\ Verdict(FALSE)
    \/ pending = <<>> /\ taken = arrived /\ Verdict(Closed) /\ UNCHANGED <<pending, taken>>

is_peer_closed ==
    IF backend = "mbedtls" THEN ReadsAByte ELSE PeekClosed

\* SSLSocketStream::write: wait_writable asks is_peer_closed, before every try.
WriteStart ==
    /\ pc = "idle" /\ ~eof /\ writes < Writes
    /\ pc' = "write" /\ n' = Retries /\ writes' = writes + 1
    /\ UNCHANGED <<backend, peer, taken, pending, got, error_, eof, verdicts>>

Write ==
    /\ pc = "write"
    /\ is_peer_closed
    /\ \/ Stop                                    \* written, or given up
       \/ n > 0 /\ ~Closed /\ pc' = "rewrite"   \* WantWrite
    /\ UNCHANGED <<backend, peer, got, n, error_, eof, writes>>

WriteAgain ==
    /\ pc = "rewrite"
    /\ n' = n - 1 /\ pc' = "write"
    /\ UNCHANGED <<backend, peer, taken, pending, got, error_, eof, verdicts, writes>>

-----------------------------------------------------------------------------

Init ==
    /\ backend \in Backends
    /\ arrived = 0 /\ half = FALSE /\ taken = 0 /\ closed = "no"
    /\ pending = <<>> /\ got = <<>> /\ pc = "idle" /\ n = 0 /\ error_ = "none"
    /\ eof = FALSE /\ verdicts = {} /\ writes = 0

Next ==
    \/ Arrive \/ PeerCloses
    \/ ReadStart \/ Read \/ ReadTimesOut \/ Retry
    \/ WriteStart \/ Write \/ WriteAgain

Spec == Init /\ [][Next]_vars

-----------------------------------------------------------------------------

\* The application reads the peer's bytes, each once and in order, however
\* its reads and writes and the records fall.  With Mbed TLS only a client
\* that never writes can count on it.  (SSLSocketStream::read, pending,
\* is_peer_closed.)
BytesInOrder ==
    backend # "mbedtls" \/ writes = 0 => got \o pending = Sent(End(taken))

\* A clean end comes after every byte, and a timeout hides none.
EndIsTheEnd ==
    /\ error_ = "ConnectionClosed" => Over /\ pending = <<>>
    /\ (backend # "mbedtls" \/ writes = 0) /\ error_ = "ConnectionClosed" => Len(got) = Bytes

\* is_peer_closed does not give up a peer of whom bytes are there that nobody has
\* read yet; OpenSSL waits for the peer's close_notify besides.  (send_ would throw
\* the response away.)
UnreadIsAlive ==
    \A v \in verdicts :
        v.closed /\ backend # "mbedtls" => ~v.unread /\ (backend = "openssl" => v.all)

\* A claim that the code does not keep, in no run:
\* "For the purpose of checking if peer is closed, this should be acceptable":
\* the check loses nothing.
CheckIsHarmless ==
    got \o pending = Sent(End(taken))

=============================================================================
