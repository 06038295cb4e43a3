------------------------------ MODULE Transfer ------------------------------
(***************************************************************************)
(* One message body from a content provider to a content receiver, by      *)
(* Content-Length, in chunks, or up to the end of the connection: the      *)
(* write_content functions and the read_content functions.                 *)
(*                                                                         *)
(* The wire holds units, pairs <<kind, number>>: a byte of content, the    *)
(* digits of a chunk size, a trailer, the end of a line.                   *)
(***************************************************************************)
EXTENDS Naturals, Sequences, FiniteSets, SequencesExt

CONSTANTS
    Framings,      \* subset of {"length", "chunked", "close"}
    MaxBody,       \* bound: bytes of the body
    MaxPiece,      \* bound: bytes the provider writes, or a read returns, at once
    Limits,        \* values of payload_max_length
    Trailers,      \* trailers the provider may send
    Declared,      \* those the Trailer header names
    Prohibited,    \* those RFC 7230 prohibits
    MaxTrailers,   \* CPPHTTPLIB_HEADER_MAX_COUNT
    Compressors    \* subset of BOOLEAN: may the compressor hold bytes back?

\* The constants are of their kinds.
TransferAssumption ==
    /\ Framings \subseteq {"length", "chunked", "close"}
    /\ MaxBody \in Nat /\ MaxPiece \in Nat /\ MaxTrailers \in Nat
    /\ Limits \subseteq Nat
    /\ IsFiniteSet(Trailers)
    /\ Compressors \subseteq BOOLEAN

VARIABLES
    framing, length, limit, holds,
    writer,        \* "writing", "ok", "failed"
    provided,      \* bytes the provider wrote
    held,          \* of these, those still in the compressor
    finished,      \* has the provider called done?
    wire,          \* units written and not read
    eof,           \* "no", "eof", "error": what follows them
    reader,        \* "size", "data", "trailers", "done"
    remaining,     \* bytes left of the chunk, or of Content-Length
    got,           \* what the receiver was given
    trailers,      \* res.trailers
    sent,          \* history: trailers sent
    stopped,       \* history: why the body may not arrive
    verdict        \* "reading", "ok", "error", "tooLarge"

about == <<framing, length, limit, holds>>
wvars == <<writer, provided, held, finished, sent>>
rvars == <<reader, remaining, got, trailers, verdict>>
vars == <<about, wvars, wire, eof, rvars, stopped>>

Byte(i) == <<"byte", i>>
Size(n) == <<"size", n>>
Trailer(t) == <<"trailer", t>>
Eol == <<"eol", 0>>

BytesOf(first, n) == [i \in 1 .. n |-> Byte(first + i - 1)]

Chunk(first, n) == IF n = 0 THEN <<>> ELSE <<Size(n), Eol>> \o BytesOf(first, n) \o <<Eol>>

-----------------------------------------------------------------------------
(* Writing                                                                  *)

\* The peer closes after what it wrote: the reader sees the end.
Fails(why) == writer' = "failed" /\ eof' = "eof" /\ stopped' = stopped \cup {why}

\* write_data: all of it, or a beginning and an error.
WriteData(units) ==
    \/ /\ wire' = wire \o units
       /\ UNCHANGED <<writer, eof, stopped>>
    \/ /\ \E n \in 0 .. Len(units) :
              n < Len(units) /\ wire' = wire \o SubSeq(units, 1, n)
       /\ Fails("write")

\* A piece the provider passes to data_sink.write.
Pieces == {n \in 0 .. MaxPiece : provided + n <= MaxBody}

WriteWithLength ==
    /\ writer = "writing" /\ framing = "length" /\ provided < length
    /\ \E n \in Pieces :
           /\ provided + n <= length
           /\ provided' = provided + n
           /\ WriteData(BytesOf(provided + 1, n))
    /\ UNCHANGED <<about, held, finished, sent, rvars>>

LengthWritten ==
    /\ writer = "writing" /\ framing = "length" /\ provided = length
    /\ writer' = "ok"
    /\ UNCHANGED <<about, provided, held, finished, sent, wire, eof, rvars, stopped>>

WriteWithoutLength ==
    /\ writer = "writing" /\ framing = "close" /\ ~finished
    /\ \E n \in Pieces :
           /\ provided' = provided + n
           /\ WriteData(BytesOf(provided + 1, n))
    /\ UNCHANGED <<about, held, finished, sent, rvars>>

\* Without a length the end of the connection ends the body.
DoneWithoutLength ==
    /\ writer = "writing" /\ framing = "close"
    /\ finished' = TRUE /\ writer' = "ok" /\ eof' = "eof"
    /\ UNCHANGED <<about, provided, held, sent, wire, rvars, stopped>>

\* A chunk is what the compressor lets out.
WriteChunk ==
    /\ writer = "writing" /\ framing = "chunked"
    /\ \E n \in Pieces \ {0} : \E k \in 0 .. (held + n) :
           /\ holds \/ k = held + n
           /\ provided' = provided + n
           /\ held' = held + n - k
           /\ WriteData(Chunk(provided - held + 1, k))
    /\ UNCHANGED <<about, finished, sent, rvars>>

\* data_available = l > 0: a write of no bytes ends the loop, and is a success.
WriteNoChunk ==
    /\ writer = "writing" /\ framing = "chunked"
    /\ writer' = "ok"
    /\ UNCHANGED <<about, provided, held, finished, sent, wire, eof, rvars, stopped>>

\* A line for each trailer.
TrailerLines(ts) ==
    [j \in 1 .. 2 * Len(ts) |-> IF j % 2 = 1 THEN Trailer(ts[(j + 1) \div 2]) ELSE Eol]

\* The last chunk, the trailers, the empty line.
EndOf(ts) == <<Size(0), Eol>> \o TrailerLines(ts) \o <<Eol>>

\* A wrong DoneChunked, that leaves the compressor's bytes behind.
DoneUnflushed ==
    /\ writer = "writing" /\ framing = "chunked"
    /\ finished' = TRUE /\ held' = 0
    /\ \E ts \in SetToAllKPermutations(Trailers) :
           sent' = ToSet(ts) /\ wire' = wire \o EndOf(ts)
    /\ writer' = "ok"
    /\ UNCHANGED <<about, provided, eof, rvars, stopped>>

\* done and done_with_trailer: the compressor's last bytes, the last chunk, the
\* trailers and the empty line.  When the first fails nothing follows it; each
\* of the lines is tried whatever became of the one before.
DoneChunked ==
    /\ writer = "writing" /\ framing = "chunked"
    /\ finished' = TRUE
    /\ \E ts \in SetToAllKPermutations(Trailers) :
           LET last == Chunk(provided - held + 1, held)
               end == EndOf(ts)
           IN \/ /\ wire' = wire \o last \o end
                 /\ sent' = ToSet(ts) /\ held' = 0
                 /\ writer' = "ok" /\ UNCHANGED <<eof, stopped>>
              \/ /\ last # <<>>
                 /\ wire' = wire \o SubSeq(last, 1, Len(last) - 1)
                 /\ Fails("write") /\ UNCHANGED <<held, sent>>
              \/ /\ \E n \in 0 .. Len(end) - 1 :
                    \E next \in {2 * (n \div 2) + 3, Len(end) + 1} :
                        wire' = wire \o last \o SubSeq(end, 1, n)
                                     \o SubSeq(end, next, Len(end))
                 /\ sent' = ToSet(ts) /\ held' = 0
                 /\ Fails("write")
    /\ UNCHANGED <<about, provided, rvars>>

\* The provider cancels, the peer is gone, or the server is shutting down.
GivesUp ==
    /\ writer = "writing"
    /\ Fails("write")
    /\ UNCHANGED <<about, provided, held, finished, sent, wire, rvars>>

\* The network loses the rest, with an end or with an error.
Cut ==
    /\ eof = "no" /\ wire # <<>>
    /\ \E n \in 0 .. (Len(wire) - 1) : wire' = SubSeq(wire, 1, n)
    /\ eof' \in {"eof", "error"}
    /\ writer' = IF writer = "writing" THEN "failed" ELSE writer
    /\ stopped' = stopped \cup {"cut"}
    /\ UNCHANGED <<about, provided, held, finished, sent, rvars>>

-----------------------------------------------------------------------------
(* Reading                                                                  *)

Reading == verdict = "reading"

Take(n) == wire' = SubSeq(wire, n + 1, Len(wire))

\* strm.read returns no byte: the end, an error, or a timeout.
NoByte == wire = <<>> /\ (eof # "no" \/ writer # "writing" \/ "cut" \in stopped)

Gives(n) ==
    /\ got' = got \o [i \in 1 .. n |-> wire[i][2]]
    /\ Take(n)

Bytes(n) == n <= Len(wire) /\ \A i \in 1 .. n : wire[i][1] = "byte"

Ends(v) == verdict' = v /\ reader' = "done"

Over(n) == Len(got) + n > limit

\* Bytes of the body, or of a chunk: those over the limit are not given out.
ReadBytes ==
    /\ Reading /\ reader = "data"
    /\ \E n \in 1 .. MaxPiece :
           /\ n <= remaining /\ Bytes(n)
           /\ IF Over(n) THEN Ends("tooLarge") /\ UNCHANGED got /\ Take(n)
              ELSE /\ Gives(n)
                   /\ IF framing = "length" /\ n = remaining THEN Ends("ok")
                      ELSE UNCHANGED <<reader, verdict>>
           /\ remaining' = remaining - n
    /\ UNCHANGED <<about, wvars, eof, trailers, stopped>>

\* n <= 0 before the length, or the chunk, was reached.
DataEnds ==
    /\ Reading /\ reader = "data" /\ remaining > 0 /\ NoByte
    /\ Ends("error")
    /\ UNCHANGED <<about, wvars, wire, eof, remaining, got, trailers, stopped>>

ReadUntilClose ==
    /\ Reading /\ reader = "close"
    /\ \/ \E n \in 1 .. MaxPiece :
             /\ Bytes(n)
             /\ IF Over(n) THEN Ends("tooLarge") /\ UNCHANGED got /\ Take(n)
                ELSE Gives(n) /\ UNCHANGED <<reader, verdict>>
       \/ NoByte /\ Ends(IF eof = "eof" THEN "ok" ELSE "error") /\ UNCHANGED <<got, wire>>
    /\ UNCHANGED <<about, wvars, eof, remaining, trailers, stopped>>

\* getline: up to the line end, or the end of the connection after some bytes.
LineAt(n) ==
    IF Len(wire) > n /\ wire[n + 1] = Eol THEN n + 1
    ELSE IF Len(wire) = n /\ eof = "eof" THEN n
    ELSE 0

\* The size line of a chunk; size 0 ends the chunks.
ReadSize ==
    /\ Reading /\ reader = "size"
    /\ wire # <<>> /\ Head(wire)[1] = "size" /\ LineAt(1) > 0
    /\ LET n == Head(wire)[2]
       IN /\ reader' = IF n = 0 THEN "trailers" ELSE "data"
          /\ remaining' = n
    /\ Take(LineAt(1))
    /\ UNCHANGED <<about, wvars, eof, got, trailers, verdict, stopped>>

ChunkEnds ==
    /\ Reading /\ reader = "data" /\ remaining = 0 /\ framing = "chunked"
    /\ wire # <<>> /\ Head(wire) = Eol
    /\ Take(1) /\ reader' = "size"
    /\ UNCHANGED <<about, wvars, eof, remaining, got, trailers, verdict, stopped>>

\* parse_trailers: a declared trailer that is not prohibited is kept.
ReadTrailer ==
    /\ Reading /\ reader = "trailers"
    /\ wire # <<>> /\ Head(wire)[1] = "trailer" /\ LineAt(1) > 0
    /\ LET t == Head(wire)[2]
       IN IF Cardinality(trailers) >= MaxTrailers
          THEN Ends("error") /\ UNCHANGED trailers
          ELSE /\ trailers' = trailers \cup ({t} \cap (Declared \ Prohibited))
               /\ UNCHANGED <<reader, verdict>>
    /\ Take(LineAt(1))
    /\ UNCHANGED <<about, wvars, eof, remaining, got, stopped>>

TrailersEnd ==
    /\ Reading /\ reader = "trailers" /\ wire # <<>> /\ Head(wire) = Eol
    /\ Take(1) /\ Ends("ok")
    /\ UNCHANGED <<about, wvars, eof, remaining, got, trailers, stopped>>

\* getline fails, or the line is not what is expected there.
LineFails ==
    /\ Reading
    /\ reader \in {"size", "trailers"} \/ (reader = "data" /\ remaining = 0)
    /\ \/ NoByte
       \/ /\ reader = "size" /\ wire # <<>>
          /\ Head(wire)[1] # "size" \/ (Len(wire) = 1 /\ eof = "error")
       \/ /\ reader = "trailers" /\ wire # <<>> /\ Head(wire)[1] = "trailer"
          /\ Len(wire) = 1 /\ eof = "error"
    /\ Ends("error")
    /\ UNCHANGED <<about, wvars, wire, eof, remaining, got, trailers, stopped>>

\* The receiver, or the progress callback, returns false.
Refuses ==
    /\ Reading /\ got # <<>>
    /\ Ends("error") /\ stopped' = stopped \cup {"refused"}
    /\ UNCHANGED <<about, wvars, wire, eof, remaining, got, trailers>>

-----------------------------------------------------------------------------

Init ==
    /\ framing \in Framings
    /\ length \in IF framing = "length" THEN 0 .. MaxBody ELSE {0}
    /\ limit \in Limits
    /\ holds \in IF framing = "chunked" THEN Compressors ELSE {FALSE}
    /\ writer = "writing" /\ provided = 0 /\ held = 0 /\ finished = FALSE
    /\ sent = {} /\ wire = <<>> /\ eof = "no" /\ stopped = {}
    /\ got = <<>> /\ trailers = {}
    \* read_content: a length of 0 is not read.
    /\ reader = CASE framing = "length" -> (IF length = 0 THEN "done" ELSE "data")
                  [] framing = "chunked" -> "size"
                  [] OTHER -> "close"
    /\ verdict = IF framing = "length" /\ length = 0 THEN "ok" ELSE "reading"
    /\ remaining = length

Write ==
    \/ WriteWithLength \/ LengthWritten \/ WriteWithoutLength \/ DoneWithoutLength
    \/ WriteChunk \/ WriteNoChunk \/ DoneChunked \/ GivesUp

Read ==
    \/ ReadBytes \/ DataEnds \/ ReadUntilClose \/ ReadSize \/ ChunkEnds
    \/ ReadTrailer \/ TrailersEnd \/ LineFails \/ Refuses

Next == Write \/ Cut \/ Read

Spec == Init /\ [][Next]_vars

-----------------------------------------------------------------------------
(* Properties                                                               *)

\* A body that is framed and accepted is all that the provider wrote, whatever
\* fails on the way: the end of a connection is never taken for its end, and no
\* byte stays in the compressor.  (Without framing it cannot be told.)
NeverTruncated ==
    verdict = "ok" /\ framing # "close" =>
        /\ got = [i \in 1 .. (IF framing = "length" THEN length ELSE provided) |-> i]
        /\ framing = "chunked" => finished

\* When the provider was done, the writer reports success and nothing is lost,
\* the reader reports no error, and finds a body too large only when it is.
SuccessIsRead ==
    writer = "ok" /\ stopped = {} /\ (framing = "chunked" => finished) =>
        /\ verdict = "error" => Cardinality(sent) > MaxTrailers
        /\ verdict = "tooLarge" => provided > limit

\* The receiver is never given more than payload_max_length bytes.
LimitKept == Len(got) <= limit

\* Of the trailers sent, an accepted message has those that were declared and
\* are not prohibited.  (When a write fails and a later one does not, a trailer
\* may be missing from a message that is accepted.)
TrailersFiltered ==
    /\ trailers \subseteq sent \cap (Declared \ Prohibited)
    /\ verdict = "ok" /\ framing = "chunked" /\ stopped = {} =>
           trailers = sent \cap (Declared \ Prohibited)

\* A claim that the code does not keep, in no run:
\* write_content_chunked reports success only when the provider said it was
\* done (its comment: the loop was not left "due to is_shutting_down(), not
\* done()").
SuccessMeansDone == writer = "ok" /\ framing = "chunked" => finished
=============================================================================
