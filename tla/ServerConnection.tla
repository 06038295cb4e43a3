--------------------------- MODULE ServerConnection ---------------------------
(***************************************************************************)
(* One connection of the server (httplib.h): the keep-alive loop of        *)
(* process_server_socket_core around process_request, against a client     *)
(* that sends one request at a time.                                       *)
(*                                                                         *)
(* The byte stream is a sequence of tokens, each belonging to a request: a *)
(* "head" (request line and headers), the "rest" that an unparsable head   *)
(* leaves unread, and the units of its body.  A unit is what a reader of   *)
(* lines makes of it: the size line of a chunk or the line of the last one *)
(* ("zero"), an empty line, a trailer field, anything else ("text").  Data *)
(* consist of such lines too, so that a decoder that starts in the middle  *)
(* of a chunk takes data for sizes; a Content-Length counts units whatever *)
(* they are.  SocketStream reads ahead: recv moves whatever has arrived    *)
(* into a buffer that lives only as long as one request.                   *)
(***************************************************************************)
EXTENDS Naturals, Sequences, SequencesExt

CONSTANTS
    Kinds,           \* the requests a client may send, see KindType
    MaxRequests,     \* bound on the number of requests
    KeepAliveMax,    \* bound on keep_alive_max_count_
    PayloadMax,      \* payload_max_length_, in units of data (0 would be no limit)
    ExpectStatuses   \* what the expect-100-continue handler may answer

\* Where a reader is in a body: what it expects, how much is left of a length or
\* of the current chunk, and how many units of data it has counted.
State == [at : {"outside", "length", "line", "data", "crlf", "trailer", "close",
                "done", "failed"},
          left : Nat, units : Nat]
Outside == [at |-> "outside", left |-> 0, units |-> 0]

\* A unit; the size it tells, as a line; where its sender is in the body.
Unit == [part : {"size", "zero", "blank", "field", "text"},
         n    : Nat \ {0},
         from : State]

KindType == [line    : {"ok", "bad", "long"},       \* request line and headers
             framing : {"none", "length", "chunked", "both",
                        "badLength",  \* a Content-Length that is no number
                        "other"},     \* another Transfer-Encoding, or none
             body    : Seq(Unit),
             close   : BOOLEAN,                     \* not persistent
             fields  : {"ok", "bad"},               \* Accept and Range
             expect  : BOOLEAN,
             upgrade : BOOLEAN,
             split   : BOOLEAN,                     \* arrives in pieces
             use     : {"all", "part", "none"}]     \* what its handler reads

-----------------------------------------------------------------------------
(* read_content_with_length, ChunkedDecoder *)

\* A new decoder, a new count of the payload.
Start(k) ==
    CASE k.framing = "chunked" -> [at |-> "line", left |-> 0, units |-> 0]
      [] k.framing = "other" -> [at |-> "close", left |-> 0, units |-> 0]
      [] OTHER -> [at |-> "length", left |-> Len(k.body), units |-> 0]

\* What has been counted goes beyond payload_max_length_.
Over(d) == d.units > PayloadMax

\* One more unit of data; if it is the last, next is what comes then.
Counted(d, next) ==
    [at    |-> IF d.left = 1 THEN next ELSE d.at,
     left  |-> IF d.left = 0 THEN 0 ELSE d.left - 1,
     units |-> d.units + 1]

\* The reader d has read u.
After(d, u) ==
    CASE d.at \in {"length", "close"} -> Counted(d, "done")
      [] d.at = "line" /\ u.part = "size" -> [d EXCEPT !.at = "data", !.left = u.n]
      [] d.at = "line" /\ u.part = "zero" -> [d EXCEPT !.at = "trailer"]
      [] d.at = "data" -> Counted(d, "crlf")
      [] d.at = "crlf" /\ u.part = "blank" -> [d EXCEPT !.at = "line"]
      [] d.at = "trailer" /\ u.part = "field" -> d
      [] d.at = "trailer" /\ u.part = "blank" -> [d EXCEPT !.at = "done"]
      [] OTHER -> [d EXCEPT !.at = "failed"]

\* The units of s follow each other as a reader expects that is at d; the last of
\* them ends the body.
Follows(s, d) ==
    /\ \A j \in DOMAIN s : s[j].from.at \in {"length", "line", "data", "crlf", "trailer"}
    /\ s # <<>> => s[1].from = d
    /\ \A j \in 1 .. Len(s) - 1 : s[j + 1].from = After(s[j].from, s[j])
Ends(s) == s # <<>> /\ After(s[Len(s)].from, s[Len(s)]).at = "done"

ASSUME ConnectionAssumption ==
    /\ Kinds \subseteq KindType
    /\ \A k \in Kinds :
           /\ k.framing = "none" => k.body = <<>>
           /\ k.framing \in {"length", "chunked"} =>
                 Follows(k.body, Start(k)) /\ Ends(k.body)
    /\ MaxRequests \in Nat
    /\ KeepAliveMax \in Nat \ {0}
    /\ PayloadMax \in Nat \ {0}
    /\ ExpectStatuses \subseteq {"100", "417", "other"}

VARIABLES
    kinds,      \* the requests sent so far
    tosend,     \* tokens of the last one the client still has to send
    wire,       \* sent, not yet received
    clientOpen, \* the client has not closed the connection
    rbuf,       \* read_buff_ of the current SocketStream
    pc,         \* where the server is
    cur,        \* the request it is processing (an index of kinds)
    count,      \* requests it may still serve
    connection_closed,
    ret,        \* what process_request returns
    body_consumed_,
    dec,        \* where read_content is
    sent        \* responses written

vars == <<kinds, tosend, wire, clientOpen, rbuf, pc, cur, count,
          connection_closed, ret, body_consumed_, dec, sent>>
client == <<kinds, tosend, clientOpen>>

Parts == {"head", "rest", "size", "zero", "blank", "field", "text"}
Token == [req : 1 .. MaxRequests, part : Parts, n : Nat, from : State]
Statuses == {"100", "101", "417", "ok", "error",
             "refused"}          \* 400 or 413: the body could not be read
Response == [req : 1 .. MaxRequests, status : Statuses, close : BOOLEAN]

TypeOK ==
    /\ kinds \in Seq(Kinds) /\ Len(kinds) <= MaxRequests
    /\ tosend \in Seq(Token) /\ wire \in Seq(Token) /\ rbuf \in Seq(Token)
    /\ clientOpen \in BOOLEAN
    /\ pc \in {"idle", "line", "expect", "upgrade", "routing", "reading",
               "respond", "refuse", "drain", "done", "closed"}
    /\ cur \in 0 .. MaxRequests
    /\ count \in 0 .. KeepAliveMax
    /\ connection_closed \in BOOLEAN
    /\ ret \in BOOLEAN
    /\ body_consumed_ \in BOOLEAN
    /\ dec \in State
    /\ sent \in Seq(Response)

Init ==
    /\ kinds = <<>> /\ tosend = <<>> /\ wire = <<>> /\ rbuf = <<>>
    /\ clientOpen = TRUE
    /\ pc = "idle"
    /\ cur = 0
    /\ count \in 1 .. KeepAliveMax     \* keep_alive_max_count_
    /\ connection_closed = FALSE
    /\ ret = FALSE
    /\ body_consumed_ = FALSE
    /\ dec = Outside
    /\ sent = <<>>

Kind == kinds[cur]
Framed(k) == k.framing \in {"length", "chunked"}     \* has_framed_body

-----------------------------------------------------------------------------
(* The client *)

\* The head of a request, or the rest of it.
HeadToken(i, p) == [req |-> i, part |-> p, n |-> 0, from |-> Outside]
BodyToken(i, u) == [req |-> i, part |-> u.part, n |-> u.n, from |-> u.from]

Tokens(i, k) ==
    <<HeadToken(i, "head")>>
    \o (IF k.line = "bad" THEN <<HeadToken(i, "rest")>> ELSE <<>>)
    \o [j \in 1 .. Len(k.body) |-> BodyToken(i, k.body[j])]

Final(r) == r.status \notin {"100", "101"}
Answered(i) == \E n \in DOMAIN sent : sent[n].req = i /\ Final(sent[n])
Upgraded == \E n \in DOMAIN sent : sent[n].status = "101"
CloseAnnounced == \E n \in DOMAIN sent : sent[n].close

\* The next request: only when the last one was sent and answered for good, on
\* a connection the server has not said it will close.
SendRequest(k) ==
    /\ clientOpen /\ pc # "closed"
    /\ Len(kinds) < MaxRequests
    /\ tosend = <<>>
    /\ kinds # <<>> => Answered(Len(kinds))
    /\ ~CloseAnnounced /\ ~Upgraded
    /\ kinds' = Append(kinds, k)
    /\ LET t == Tokens(Len(kinds'), k)
       IN  IF k.split \/ k.expect
             THEN wire' = Append(wire, Head(t)) /\ tosend' = Tail(t)
             ELSE wire' = wire \o t /\ tosend' = <<>>
    /\ UNCHANGED <<clientOpen, rbuf, pc, cur, count, connection_closed, ret,
                   body_consumed_, dec, sent>>

\* More of it; after Expect only once the server has answered.
SendMore ==
    /\ clientOpen
    /\ tosend # <<>>
    /\ kinds[Len(kinds)].expect => \E n \in DOMAIN sent : sent[n].req = Len(kinds)
                                                         /\ sent[n].status = "100"
    /\ \E n \in IF kinds[Len(kinds)].split THEN {1} ELSE {Len(tosend)} :
         /\ wire' = wire \o SubSeq(tosend, 1, n)
         /\ tosend' = SubSeq(tosend, n + 1, Len(tosend))
    /\ UNCHANGED <<kinds, clientOpen, rbuf, pc, cur, count, connection_closed,
                   ret, body_consumed_, dec, sent>>

ClientCloses ==
    /\ clientOpen
    /\ clientOpen' = FALSE
    /\ tosend' = <<>>
    /\ UNCHANGED <<kinds, wire, rbuf, pc, cur, count, connection_closed, ret,
                   body_consumed_, dec, sent>>

-----------------------------------------------------------------------------
(* SocketStream::read *)

Reads ==
    \/ pc = "line"
    \/ pc \in {"reading", "drain"} /\ dec.at # "done" /\ (Over(dec) => dec.at = "crlf")

\* The first i requests arrive whole: recv gets all there is of them at once.
AllWhole(i) == \A h \in 1 .. i : ~kinds[h].split

\* An empty buffer is filled with some of what has arrived.
Recv ==
    /\ Reads
    /\ rbuf = <<>>
    /\ wire # <<>>
    /\ \E n \in IF AllWhole(Len(kinds)) THEN {Len(wire)} ELSE 1 .. Len(wire) :
         /\ rbuf' = SubSeq(wire, 1, n)
         /\ wire' = SubSeq(wire, n + 1, Len(wire))
    /\ UNCHANGED <<client, pc, cur, count, connection_closed, ret,
                   body_consumed_, dec, sent>>

\* Nothing comes: the read timeout, or the client has closed.
NothingToRead == rbuf = <<>> /\ wire = <<>>

-----------------------------------------------------------------------------
(* write_response *)

\* A wrong announcement, for comparison: one response late.
close_connection_late == count = 0

close_connection == count = 1

\* The response to request i is written, and says whether the connection closes;
\* or writing it fails, before or after its head is out.
Respond(i, status, close) ==
    LET response == [req |-> i, status |-> status,
                     close |-> close \/ status \in {"error", "refused"}]
    IN  \/ sent' = Append(sent, response) /\ ret' \in BOOLEAN
        \/ UNCHANGED sent /\ ret' = FALSE

-----------------------------------------------------------------------------
(* process_server_socket_core and keep_alive *)

KeepAliveReady ==
    /\ pc = "idle"
    /\ wire # <<>> \/ ~clientOpen
    /\ pc' = "line"
    /\ connection_closed' = FALSE
    /\ body_consumed_' = FALSE
    /\ UNCHANGED <<client, wire, rbuf, cur, count, ret, dec, sent>>

\* the keep-alive timeout, or the server socket was closed
KeepAliveEnds ==
    /\ pc = "idle"
    /\ pc' = "closed"
    /\ UNCHANGED <<client, wire, rbuf, cur, count, connection_closed, ret,
                   body_consumed_, dec, sent>>

\* A wrong loop, without a look at what process_request returned.
RequestDoneAgain ==
    /\ pc = "done"
    /\ rbuf' = <<>>
    /\ pc' = "idle"
    /\ UNCHANGED <<client, wire, cur, count, connection_closed, ret,
                   body_consumed_, dec, sent>>

\* process_request is over: its SocketStream goes away with what it read ahead.
RequestDone ==
    /\ pc = "done"
    /\ rbuf' = <<>>
    /\ IF ~ret \/ connection_closed
         THEN pc' = "closed" /\ UNCHANGED count
         ELSE /\ count' = count - 1
              /\ pc' = IF count > 1 THEN "idle" ELSE "closed"
    /\ UNCHANGED <<client, wire, cur, connection_closed, ret, body_consumed_,
                   dec, sent>>

-----------------------------------------------------------------------------
(* process_request *)

\* getline fails: the connection was closed, or nothing came.
NoRequest ==
    /\ pc = "line"
    /\ NothingToRead
    /\ ret' = FALSE
    /\ pc' = "done"
    /\ UNCHANGED <<client, wire, rbuf, cur, count, connection_closed,
                   body_consumed_, dec, sent>>

TakeHead ==
    /\ pc = "line"
    /\ rbuf # <<>>
    /\ cur' = Head(rbuf).req
    /\ rbuf' = Tail(rbuf)
    /\ UNCHANGED <<client, wire, count, body_consumed_, dec>>

\* The line or the headers do not parse: 400, and connection_closed stays false.
BadRequest ==
    /\ TakeHead
    /\ Head(rbuf).part # "head" \/ kinds[Head(rbuf).req].line = "bad"
    /\ Respond(Head(rbuf).req, "error", close_connection)
    /\ pc' = "done"
    /\ UNCHANGED connection_closed

\* Both framings, a target that is too long, an unparsable Accept or Range.
Refused(k) == k.framing = "both" \/ k.line = "long" \/ k.fields = "bad"

RefuseRequest ==
    /\ TakeHead
    /\ Head(rbuf).part = "head"
    /\ kinds[Head(rbuf).req].line # "bad"
    /\ Refused(kinds[Head(rbuf).req])
    /\ Respond(Head(rbuf).req, "error", close_connection)
    /\ connection_closed' = TRUE
    /\ pc' = "done"

ParseRequest ==
    /\ TakeHead
    /\ Head(rbuf).part = "head"
    /\ LET k == kinds[Head(rbuf).req]
       IN  /\ k.line = "ok"
           /\ ~Refused(k)
           /\ connection_closed' = k.close
           /\ pc' = IF k.expect THEN "expect"
                    ELSE IF k.upgrade THEN "upgrade" ELSE "routing"
    /\ UNCHANGED <<ret, sent>>

\* A wrong default: processing goes on after the final response.
ExpectGoesOn(status) ==
    /\ pc = "expect"
    /\ status \in ExpectStatuses
    /\ IF status = "other"
         THEN \E s \in {"ok", "error"} : Respond(cur, s, TRUE)
         ELSE /\ sent' = Append(sent, [req |-> cur, status |-> status, close |-> FALSE])
              /\ UNCHANGED ret
    /\ pc' = IF Kind.upgrade THEN "upgrade" ELSE "routing"
    /\ UNCHANGED <<client, wire, rbuf, cur, count, connection_closed,
                   body_consumed_, dec>>

\* 100 and 417 are written as a bare status line and processing goes on; any
\* other status is a response of its own that ends the connection.
Expect(status) ==
    /\ pc = "expect"
    /\ status \in ExpectStatuses
    /\ \/ /\ status \in {"100", "417"}
          /\ sent' = Append(sent, [req |-> cur, status |-> status, close |-> FALSE])
          /\ pc' = IF Kind.upgrade THEN "upgrade" ELSE "routing"
          /\ UNCHANGED <<connection_closed, ret>>
       \/ /\ status = "other"
          /\ \E s \in {"ok", "error"} : Respond(cur, s, TRUE)
          /\ connection_closed' = TRUE
          /\ pc' = "done"
    /\ UNCHANGED <<client, wire, rbuf, cur, count, body_consumed_, dec>>

\* The pre-routing handler answers the upgrade request itself ...
UpgradeHandled ==
    /\ pc = "upgrade"
    /\ \E s \in {"ok", "error"} : Respond(cur, s, close_connection \/ Kind.close)
    /\ pc' = "done"
    /\ UNCHANGED <<client, wire, rbuf, cur, count, connection_closed,
                   body_consumed_, dec>>

\* ... or a WebSocket handler runs until it is over (or 101 cannot be written) ...
Upgrade ==
    /\ pc = "upgrade"
    /\ \/ /\ sent' = Append(sent, [req |-> cur, status |-> "101", close |-> FALSE])
          /\ connection_closed' = TRUE
          /\ ret' = TRUE
       \/ /\ ret' = FALSE
          /\ UNCHANGED <<sent, connection_closed>>
    /\ pc' = "done"
    /\ UNCHANGED <<client, wire, rbuf, cur, count, body_consumed_, dec>>

\* ... or there is none, and the request is routed like any other.
UpgradeFallsThrough ==
    /\ pc = "upgrade"
    /\ pc' = "routing"
    /\ UNCHANGED <<client, wire, rbuf, cur, count, connection_closed, ret,
                   body_consumed_, dec, sent>>

-----------------------------------------------------------------------------
(* routing *)

\* What read_content is always called for. (A build without SSL also looks for a
\* body without framing that ends with the connection.)
HasContent(k) == Framed(k) \/ k.framing = "badLength"

\* Answered without a look at the body: pre-routing, file or content-reader
\* handler, or nothing to read.
RouteWithoutBody ==
    /\ pc = "routing"
    /\ HasContent(Kind) => Kind.use = "none"
    /\ pc' = "respond"
    /\ UNCHANGED <<client, wire, rbuf, cur, count, connection_closed, ret,
                   body_consumed_, dec, sent>>

\* read_content, for the handler's ContentReader or for req.body
BeginRead ==
    /\ pc = "routing"
    /\ Framed(Kind) \/ (Kind.framing = "other" /\ Kind.close /\ rbuf \o wire # <<>>)
    /\ Kind.use # "none"
    /\ dec' = Start(Kind)
    /\ pc' = "reading"
    /\ UNCHANGED <<client, wire, rbuf, cur, count, connection_closed, ret,
                   body_consumed_, sent>>

\* ... which reads nothing when the length is no number: 400, which a handler with
\* a reader of its own may replace.
ReadRefused ==
    /\ pc = "routing"
    /\ Kind.framing = "badLength"
    /\ Kind.use # "none"
    /\ pc' \in {"refuse"} \cup (IF Kind.use = "part" THEN {"respond"} ELSE {})
    /\ UNCHANGED <<client, wire, rbuf, cur, count, connection_closed, ret,
                   body_consumed_, dec, sent>>

\* One unit is read.  Beyond the limit only what belongs to the same read: data,
\* and the empty line after the chunk they end.
ReadUnit ==
    /\ pc \in {"reading", "drain"}
    /\ rbuf # <<>>
    /\ dec.at # "done"
    /\ Over(dec) => dec.at # "line"
    /\ After(dec, Head(rbuf)).at # "failed"
    /\ dec' = After(dec, Head(rbuf))
    /\ rbuf' = Tail(rbuf)
    /\ UNCHANGED <<client, wire, pc, cur, count, connection_closed, ret,
                   body_consumed_, sent>>

\* The whole body was read, as far as the reader can tell.
BodyRead ==
    /\ \/ dec.at = "done"
       \/ dec.at = "close" /\ NothingToRead /\ ~clientOpen
    /\ ~Over(dec)
    /\ UNCHANGED rbuf

\* It is too large: noticed when a read is over, after the line that ends a chunk.
TooLarge == Over(dec) /\ dec.at # "crlf" /\ UNCHANGED rbuf

\* It cannot be read: a timeout or an end, or a line that is none of a chunked body.
Broken ==
    /\ dec.at # "done"
    /\ \/ /\ NothingToRead
          /\ dec.at = "close" => clientOpen
          /\ UNCHANGED rbuf
       \/ /\ rbuf # <<>>
          /\ After(dec, Head(rbuf)).at = "failed"
          /\ rbuf' = Tail(rbuf)

BodyFails == TooLarge \/ Broken

\* The receiver has had enough, or cannot make sense of what it got: after any
\* read, within a chunk as well as at its end.
ReceiverStops ==
    /\ Kind.use = "part"
    /\ dec.units > 0 /\ ~Over(dec)
    /\ dec.at \in {"length", "data", "line", "close"} \/ (dec.at = "done" /\ Kind.framing = "length")
    /\ UNCHANGED rbuf

\* A wrong read_content_core: the body is not marked as consumed.
ReadDoneUnmarked ==
    /\ pc = "reading"
    /\ BodyRead
    /\ pc' = "respond"
    /\ UNCHANGED <<client, wire, cur, count, connection_closed, ret,
                   body_consumed_, dec, sent>>

ReadDone ==
    /\ pc = "reading"
    /\ BodyRead
    /\ body_consumed_' = Framed(Kind)
    /\ pc' = "respond"
    /\ UNCHANGED <<client, wire, cur, count, connection_closed, ret, dec, sent>>

\* The response is 400 or 413, which for a payload that is too large stands; else
\* a handler with a reader of its own may go on and set another status. So it may
\* when its receiver stops or throws.
ReadFails ==
    /\ pc = "reading"
    /\ \/ BodyFails /\ pc' = "refuse"
       \/ ReceiverStops /\ pc' \in {"refuse", "respond"}
       \/ Broken /\ Kind.use = "part" /\ pc' = "respond"
    /\ UNCHANGED <<client, wire, cur, count, connection_closed, ret,
                   body_consumed_, dec, sent>>

WriteResponse ==
    /\ pc \in {"respond", "refuse"}
    /\ \E s \in IF pc = "respond" THEN {"ok", "error"} ELSE {"refused"} :
          Respond(cur, s, close_connection \/ Kind.close)
    /\ IF ~body_consumed_ /\ Framed(Kind)
         THEN pc' = "drain" /\ dec' = Start(Kind)
         ELSE pc' = "done" /\ UNCHANGED dec
    /\ UNCHANGED <<client, wire, rbuf, cur, count, connection_closed, body_consumed_>>

-----------------------------------------------------------------------------
(* The drain at the end of process_request: read_content, with a new decoder *)
(* and a new count, from wherever the stream is.                             *)

DrainDone ==
    /\ pc = "drain"
    /\ BodyRead
    /\ pc' = "done"
    /\ UNCHANGED <<client, wire, cur, count, connection_closed, ret,
                   body_consumed_, dec, sent>>

\* A wrong drain: its failure leaves the connection open.
DrainFailsSilently ==
    /\ pc = "drain"
    /\ BodyFails
    /\ pc' = "done"
    /\ UNCHANGED <<client, wire, cur, count, connection_closed, ret,
                   body_consumed_, dec, sent>>

DrainFails ==
    /\ pc = "drain"
    /\ BodyFails
    /\ connection_closed' = TRUE
    /\ pc' = "done"
    /\ UNCHANGED <<client, wire, cur, count, ret, body_consumed_, dec, sent>>

-----------------------------------------------------------------------------
ServerStep ==
    \/ Recv \/ KeepAliveReady \/ RequestDone \/ NoRequest
    \/ BadRequest \/ RefuseRequest \/ ParseRequest
    \/ \E s \in ExpectStatuses : Expect(s)
    \/ UpgradeHandled \/ Upgrade \/ UpgradeFallsThrough
    \/ RouteWithoutBody \/ BeginRead \/ ReadRefused \/ ReadUnit \/ ReadDone \/ ReadFails
    \/ WriteResponse \/ DrainDone \/ DrainFails

Next ==
    \/ \E k \in Kinds : SendRequest(k)
    \/ SendMore \/ ClientCloses
    \/ ServerStep \/ KeepAliveEnds
    \/ pc = "closed" /\ UNCHANGED vars

Spec == Init /\ [][Next]_vars

\* The server thread runs; waiting for a request ends with the keep-alive timeout.
FairSpec == Spec /\ WF_vars(ServerStep) /\ WF_vars(KeepAliveEnds)

-----------------------------------------------------------------------------
(* Safety *)

\* A handler that reads the body whole, or none of a body that arrived with its
\* head, leaves the connection in order for the next request.
Careful(i) ==
    \/ ~Framed(kinds[i])
    \/ kinds[i].use = "all"
    \/ kinds[i].use = "none" /\ AllWhole(i) /\ ~kinds[i].expect

\* The drain of a chunked body of which some was read starts in the middle and may
\* stop there: read in part by its handler, or up to a failure.
Misread(i) ==
    /\ kinds[i].framing = "chunked"
    /\ \/ kinds[i].use = "part"
       \/ \E n \in DOMAIN sent : sent[n].req = i /\ sent[n].status = "refused"

\* What is left of these is not drained: of a head that does not parse (see
\* ErrorsEndConnection), of an upgrade that the pre-routing handler answers, of a
\* body without a framing that the server knows.
Undrained(k) ==
    \/ k.line = "bad"
    \/ k.upgrade /\ Framed(k)
    \/ k.framing \in {"badLength", "other"}

\* The requests that leave the connection in order: whatever is not drained was
\* received whole, and goes away with the buffer.
Orderly ==
    /\ \A i \in 1 .. Len(kinds) - 1 : Careful(i)
    /\ \A i \in DOMAIN kinds :
           /\ ~Misread(i)
           /\ Undrained(kinds[i]) => AllWhole(i) /\ ~kinds[i].expect

\* While the connection waits for a request, what the client has sent or is still
\* sending begins with the head of one: the server has taken all of the requests
\* it answered, in whatever way, off the connection.
IdleAtBoundary ==
    pc = "idle" /\ Orderly /\ wire \o tosend # <<>> => Head(wire \o tosend).part = "head"

\* Server and connection are in step.
InStep == TypeOK /\ IdleAtBoundary

\* A client that waits for each answer before it sends the next request gets all
\* of them, as long as the connection lives: no request disappears in the drain
\* of the one before it, or in its read-ahead buffer.
NothingLost ==
    \A i \in DOMAIN kinds :
        Answered(i) \/ \E n \in DOMAIN wire : wire[n] = HeadToken(i, "head")

NoRequestLost == pc = "idle" /\ Orderly => NothingLost

\* Each request gets at most one final response, in the order of the requests.
OneFinalResponse ==
    Orderly => \A m, n \in DOMAIN sent :
                   m < n /\ Final(sent[m]) => sent[m].req < sent[n].req

\* The response that exhausts keep_alive_max_count_ says that the connection
\* closes, so that the client does not send another request into it.
LastIsAnnounced ==
    count = 0 => sent # <<>> /\ Last(sent).close

-----------------------------------------------------------------------------
(* Liveness, under FairSpec *)

\* The pool's thread is released in the end: whatever the client does or stops
\* doing half-way, no request and no loop holds the connection for ever.
ConnectionEnds == <>(pc = "closed")

-----------------------------------------------------------------------------
(* Claims of the repository that the code does not keep *)

\* process_request: the drain takes an unconsumed body off the connection, and
\* takes care not to consume the next request.
DrainSparesNextRequest == pc = "idle" => NothingLost

\* A claim that the code does not keep, in no run:
\* write_response_core: "Don't leave connections open after errors". The header
\* announces the close; the loop goes on.
ErrorsEndConnection ==
    pc = "idle" => \A n \in DOMAIN sent : sent[n].status \notin {"error", "refused"}
=============================================================================
