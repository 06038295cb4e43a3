----------------------------- MODULE WebSocket ------------------------------
(***************************************************************************)
(* ws::WebSocket and ws::WebSocketClient: one end of a WebSocket and any   *)
(* peer that keeps to RFC 6455, or drops the connection, or breaks it.     *)
(*                                                                         *)
(* Three threads share the object: the application's (it reads, closes and *)
(* destroys), a thread that only sends, and the heartbeat.  A frame is     *)
(* written whole under write_mutex_, so it is one step; closed_ is an      *)
(* atomic that each of them sets on its own.  A frame is a kind and, for   *)
(* data, the number of the message.                                        *)
(***************************************************************************)
EXTENDS Naturals, Sequences, FiniteSets

CONSTANTS
    Ends,             \* the ends to check: [kind, max_missed, tls] records, with
                      \* bounds: sends and pings of this end; messages
                      \* (alternately in parts and whole) and probes, that is
                      \* pings, of the peer
    InFlight          \* bound: frames of the peer's own under way at once

ASSUME WebSocketAssumption ==
    /\ InFlight \in Nat
    /\ Ends \subseteq [kind : {"client", "server"}, max_missed : Nat, tls : BOOLEAN,
                        sends : Nat, pings : Nat, messages : Nat, probes : Nat]

VARIABLES
    end,            \* this end
    closed_, unacked_pings_, session,
    app, sender, heart,        \* where the three threads are
    wire,           \* frames on their way to this end
    out, heard,     \* frames this end wrote; how many the peer has read
    msg, got,       \* the message being put together, the ones handed over
    peer,           \* what the peer has said: messages, parts, pings, close
    up,             \* the connection carries bytes
    pongs,          \* history: pongs read
    trouble         \* history: a read failed, or the connection was lost

objects == <<closed_, unacked_pings_, session>>
vars == <<end, objects, app, sender, heart, wire, out, heard, msg, got, peer, up,
          pongs, trouble>>

F(kind, n) == [kind |-> kind, n |-> n]
Control(kind) == F(kind, 0)
Data == {"whole", "first", "last"}
None == 0

\* write_websocket_frame: the kernel takes the bytes; on a lost connection
\* nobody will read them.
Write(f) == out' = Append(out, f)

Count(s, kinds) == Cardinality({i \in DOMAIN s : s[i].kind \in kinds})
Pings == Count(out, {"ping"})

-----------------------------------------------------------------------------
(* The handshake                                                            *)

\* A WebSocket and, unless the ping interval is 0, its heartbeat.
Opened ==
    /\ app' = "loop"
    /\ heart' \in {"wait", "off"}
    /\ session' = end.tls

\* perform_websocket_handshake, and read_websocket_upgrade_response: a client
\* that is refused, or gets a bad answer, closes its socket.
Connect ==
    /\ app = "new" /\ end.kind = "client"
    /\ \/ Opened /\ UNCHANGED up
       \/ app' = "gone" /\ up' = FALSE /\ UNCHANGED <<heart, session>>
    /\ UNCHANGED <<end, closed_, unacked_pings_, sender, wire, out, heard, msg, got,
                   peer, pongs, trouble>>

\* Server::process_request on an upgrade: a handler that is found runs with
\* the new WebSocket; otherwise the request is answered as HTTP.
Upgrade ==
    /\ app = "new" /\ end.kind = "server"
    /\ \/ Opened
       \/ app' = "gone" /\ UNCHANGED <<heart, session>>
    /\ UNCHANGED <<end, closed_, unacked_pings_, sender, wire, out, heard, msg, got,
                   peer, up, pongs, trouble>>

-----------------------------------------------------------------------------
(* read                                                                     *)

Reading == app \in {"read", "rest"}
Awaits(t) == t \in {"read", "rest", "await"}
Fails == /\ closed_' = TRUE
         /\ app' = "failed"

\* One turn of the loop; the caller asks again after each message.
ReadTurn ==
    /\ app = "loop"
    /\ app' = IF closed_ THEN "failed" ELSE "read"
    /\ UNCHANGED <<end, objects, sender, heart, wire, out, heard, msg, got, peer, up,
                   pongs, trouble>>

\* read_websocket_frame fails: nothing came in time, the connection is gone,
\* or the bytes are no frame (reserved bits, a wrong mask, too long).
ReadFails ==
    /\ Reading
    /\ wire # <<>> => Head(wire).kind = "bad"
    /\ Fails
    /\ trouble' = TRUE
    /\ UNCHANGED <<end, unacked_pings_, session, sender, heart, wire, out, heard, msg,
                   got, peer, up, pongs>>

ReadPing ==
    /\ Reading /\ wire # <<>> /\ Head(wire).kind = "ping"
    /\ wire' = Tail(wire)
    /\ app' = IF app = "read" THEN "pong" ELSE "pong between"
    /\ UNCHANGED <<end, objects, sender, heart, out, heard, msg, got, peer, up, pongs,
                   trouble>>

WritePong ==
    /\ app \in {"pong", "pong between"}
    /\ Write(Control("pong"))
    /\ app' = IF app = "pong" THEN "loop" ELSE "rest"
    /\ UNCHANGED <<end, objects, sender, heart, wire, heard, msg, got, peer, up, pongs,
                   trouble>>

\* A wrong ReadPong, that leaves the count.
ReadPongOnly ==
    /\ Reading /\ wire # <<>> /\ Head(wire).kind = "pong"
    /\ wire' = Tail(wire)
    /\ UNCHANGED unacked_pings_
    /\ pongs' = pongs + 1
    /\ app' = IF app = "read" THEN "loop" ELSE app
    /\ UNCHANGED <<end, closed_, session, sender, heart, out, heard, msg, got, peer, up,
                   trouble>>

\* Under ping_mutex_, which the heartbeat holds except while it waits, sends
\* or closes.
ReadPong ==
    /\ Reading /\ wire # <<>> /\ Head(wire).kind = "pong"
    /\ wire' = Tail(wire)
    /\ unacked_pings_' = 0
    /\ pongs' = pongs + 1
    /\ app' = IF app = "read" THEN "loop" ELSE app
    /\ UNCHANGED <<end, closed_, session, sender, heart, out, heard, msg, got, peer, up,
                   trouble>>

\* A wrong ReadClose, that echoes whoever closed.
ReadCloseAlways ==
    /\ Reading /\ wire # <<>> /\ Head(wire).kind = "close"
    /\ wire' = Tail(wire)
    /\ closed_' = TRUE
    /\ app' = "echo"
    /\ UNCHANGED <<end, unacked_pings_, session, sender, heart, out, heard, msg, got,
                   peer, up, pongs, trouble>>

\* A Close is echoed by the thread that sets closed_ first.
ReadClose ==
    /\ Reading /\ wire # <<>> /\ Head(wire).kind = "close"
    /\ wire' = Tail(wire)
    /\ closed_' = TRUE
    /\ app' = IF closed_ THEN "failed" ELSE "echo"
    /\ UNCHANGED <<end, unacked_pings_, session, sender, heart, out, heard, msg, got,
                   peer, up, pongs, trouble>>

EchoClose ==
    /\ app = "echo"
    /\ Write(Control("close"))
    /\ app' = "failed"
    /\ UNCHANGED <<end, objects, sender, heart, wire, heard, msg, got, peer, up, pongs,
                   trouble>>

\* A whole message, or the last part of one: it is the caller's, unless it is
\* text that is not UTF-8; the caller then finds the connection closed.
ReadMessage ==
    /\ wire # <<>>
    /\ \/ app = "read" /\ Head(wire).kind = "whole"
       \/ app = "rest" /\ Head(wire).kind = "last"
    /\ wire' = Tail(wire)
    /\ msg' = None
    /\ \/ got' = Append(got, Head(wire).n) /\ app' = "loop"
       \/ got' = got /\ app' = "close"
    /\ UNCHANGED <<end, objects, sender, heart, out, heard, peer, up, pongs, trouble>>
ReadFirstPart ==
    /\ app = "read" /\ wire # <<>> /\ Head(wire).kind = "first"
    /\ wire' = Tail(wire)
    /\ msg' = Head(wire).n
    /\ app' = "rest"
    /\ UNCHANGED <<end, objects, sender, heart, out, heard, got, peer, up, pongs,
                   trouble>>

\* A continuation without a beginning, a beginning inside a message.
ReadOutOfPlace ==
    /\ wire # <<>>
    /\ \/ app = "read" /\ Head(wire).kind = "last"
       \/ app = "rest" /\ Head(wire).kind \in {"whole", "first"}
    /\ wire' = Tail(wire)
    /\ Fails
    /\ trouble' = TRUE
    /\ UNCHANGED <<end, unacked_pings_, session, sender, heart, out, heard, msg, got,
                   peer, up, pongs>>

-----------------------------------------------------------------------------
(* close: "close" begins it, "say" writes the frame, "await" reads on to    *)
(* the peer's Close.  The application and the heartbeat both call it.       *)

AppCloses ==
    /\ app = "loop"
    /\ app' = "close"
    /\ UNCHANGED <<end, objects, sender, heart, wire, out, heard, msg, got, peer, up,
                   pongs, trouble>>

Begun(t, quit) == IF closed_ THEN quit ELSE "say"

\* One step of close() for the thread in state t; next is its new state.
CloseStep(t, next, quit) ==
    \/ /\ t = "close" /\ next = Begun(t, quit)
       /\ closed_' = TRUE
       /\ UNCHANGED <<wire, out>>
    \/ /\ t = "say" /\ next = "await"
       /\ Write(Control("close"))
       /\ UNCHANGED <<wire, closed_>>
    \/ /\ t = "await"
       /\ IF wire = <<>> THEN next = quit /\ UNCHANGED wire       \* the short timeout
          ELSE /\ wire' = Tail(wire)
               /\ next = IF Head(wire).kind \in {"close", "bad"} THEN quit ELSE "await"
       /\ UNCHANGED <<out, closed_>>

AppCloseStep ==
    /\ CloseStep(app, app', "failed")
    /\ UNCHANGED <<end, unacked_pings_, session, sender, heart, heard, msg, got, peer,
                   up, pongs, trouble>>

-----------------------------------------------------------------------------
(* send, and the heartbeat                                                  *)

Sends == Count(out, Data)

Send ==
    /\ sender = "on" /\ app \notin {"new", "join", "gone"}
    /\ Sends < end.sends
    /\ ~closed_
    /\ Write(F("whole", Sends + 1))
    /\ UNCHANGED <<end, objects, app, sender, heart, wire, heard, msg, got, peer, up,
                   pongs, trouble>>

\* send() answers false once the WebSocket is closed, and the sender stops.
SenderStops ==
    /\ sender = "on"
    /\ sender' = "off"
    /\ UNCHANGED <<end, objects, app, heart, wire, out, heard, msg, got, peer, up, pongs,
                   trouble>>
\* A wrong PongsMissed, that takes the limit 0 for a limit.
PongsMissedAny == unacked_pings_ >= end.max_missed

PongsMissed == end.max_missed > 0 /\ unacked_pings_ >= end.max_missed

\* A wrong HeartWakes, that does not look at closed_.
HeartSleeps ==
    /\ heart = "wait"
    /\ \/ PongsMissed /\ heart' = "close"
       \/ ~PongsMissed /\ Pings < end.pings /\ heart' = "send"
    /\ UNCHANGED <<end, objects, app, sender, wire, out, heard, msg, got, peer, up, pongs,
                   trouble>>

\* The wait ends with the interval, with a notification or for no reason.
HeartWakes ==
    /\ heart = "wait"
    /\ \/ closed_ /\ heart' = "done"
       \/ ~closed_ /\ PongsMissed /\ heart' = "close"
       \/ ~closed_ /\ ~PongsMissed /\ Pings < end.pings /\ heart' = "send"
    /\ UNCHANGED <<end, objects, app, sender, wire, out, heard, msg, got, peer, up, pongs,
                   trouble>>

HeartSends ==
    /\ heart = "send"
    /\ \/ /\ closed_ \/ ~up
          /\ closed_' = TRUE /\ heart' = "done" /\ UNCHANGED out
       \/ /\ ~closed_
          /\ Write(Control("ping"))
          /\ heart' = "count" /\ UNCHANGED closed_
    /\ UNCHANGED <<end, unacked_pings_, session, app, sender, wire, heard, msg, got, peer,
                   up, pongs, trouble>>

HeartCounts ==
    /\ heart = "count"
    /\ unacked_pings_' = unacked_pings_ + 1
    /\ heart' = IF closed_ THEN "done" ELSE "wait"
    /\ UNCHANGED <<end, closed_, session, app, sender, wire, out, heard, msg, got, peer,
                   up, pongs, trouble>>

HeartCloseStep ==
    /\ CloseStep(heart, heart', "done")
    /\ UNCHANGED <<end, unacked_pings_, session, app, sender, heard, msg, got, peer, up,
                   pongs, trouble>>

-----------------------------------------------------------------------------
(* The end of the object                                                    *)

\* A wrong Leave, in which the server frees the session first too.
LeaveFrees ==
    /\ app \in {"loop", "failed"} /\ sender = "off"
    /\ session' = FALSE
    /\ app' = IF end.kind = "client" /\ ~closed_ THEN "close" ELSE "destroy"
    /\ UNCHANGED <<end, closed_, unacked_pings_, sender, heart, wire, out, heard, msg,
                   got, peer, up, pongs, trouble>>

\* ~WebSocketClient and connect() again: shutdown_and_close frees the TLS
\* session before it says goodbye on it.  A server's handler just returns.
Leave ==
    /\ app \in {"loop", "failed"} /\ sender = "off"
    /\ session' = (session /\ end.kind = "server")
    /\ app' = IF end.kind = "client" /\ ~closed_ THEN "close" ELSE "destroy"
    /\ UNCHANGED <<end, closed_, unacked_pings_, sender, heart, wire, out, heard, msg,
                   got, peer, up, pongs, trouble>>

\* ~WebSocket: closed_ is set under ping_mutex_, the heartbeat is notified.
Destroy ==
    /\ app = "destroy"
    /\ heart # "count"
    /\ closed_' = TRUE
    /\ app' = "join"
    /\ UNCHANGED <<end, unacked_pings_, session, sender, heart, wire, out, heard, msg,
                   got, peer, up, pongs, trouble>>

Joined ==
    /\ app = "join" /\ heart \in {"done", "off"}
    /\ app' = "gone" /\ up' = FALSE
    /\ session' = FALSE
    /\ UNCHANGED <<end, closed_, unacked_pings_, sender, heart, wire, out, heard, msg, got,
                   peer, pongs, trouble>>

-----------------------------------------------------------------------------
(* The peer                                                                 *)

Push(fs) == wire' = wire \o fs

PeerReads ==
    /\ up /\ app # "gone" /\ heard < Len(out)
    /\ heard' = heard + 1
    /\ LET k == out[heard'].kind IN
       \/ /\ k \in {"ping", "close"} /\ ~peer.closed
          /\ Push(<<Control(IF k = "ping" THEN "pong" ELSE k)>>)
          /\ peer' = [peer EXCEPT !.closed = (k = "close")]
       \/ /\ k # "close" \/ peer.closed
          /\ UNCHANGED <<wire, peer>>       \* a peer may also leave a ping alone
    /\ UNCHANGED <<end, objects, app, sender, heart, out, msg, got, up, pongs, trouble>>

\* A peer may go on sending while this end waits for its Close, for ever if it
\* likes: nothing answers it there.
MayChatter ==
    /\ "await" \in {app, heart}
    /\ app \notin {"read", "rest", "pong", "pong between"}

PeerSpeaks ==
    /\ up /\ app \notin {"new", "gone"} /\ ~peer.closed
    /\ Len(wire) < InFlight
    /\ \/ /\ peer.n < end.messages /\ ~peer.open
          /\ peer' = [peer EXCEPT !.n = @ + 1, !.open = (peer.n % 2) = 0]
          /\ Push(<<F(IF peer'.open THEN "first" ELSE "whole", peer'.n)>>)
       \/ /\ peer.open
          /\ peer' = [peer EXCEPT !.open = FALSE]
          /\ Push(<<F("last", peer.n)>>)
       \/ /\ peer.pings < end.probes \/ MayChatter
          /\ peer' = [peer EXCEPT !.pings = IF @ < end.probes THEN @ + 1 ELSE @]
          /\ Push(<<Control("ping")>>)
       \/ /\ peer' = [peer EXCEPT !.closed = TRUE]
          /\ Push(<<Control("close")>>)
       \/ /\ peer' = [peer EXCEPT !.closed = TRUE]      \* and nothing sensible after
          /\ Push(<<Control("bad")>>)
    /\ UNCHANGED <<end, objects, app, sender, heart, out, heard, msg, got, up, pongs,
                   trouble>>

ConnectionLost ==
    /\ up /\ app \notin {"new", "gone"}
    /\ up' = FALSE /\ trouble' = TRUE
    /\ UNCHANGED <<end, objects, app, sender, heart, wire, out, heard, msg, got, peer,
                   pongs>>

-----------------------------------------------------------------------------
Init ==
    /\ end \in Ends
    /\ closed_ = FALSE /\ unacked_pings_ = 0 /\ session = FALSE
    /\ app = "new" /\ sender = "on" /\ heart = "off"
    /\ wire = <<>> /\ out = <<>> /\ heard = 0
    /\ msg = None /\ got = <<>>
    /\ peer = [n |-> 0, open |-> FALSE, pings |-> 0, closed |-> FALSE]
    /\ up = TRUE /\ pongs = 0 /\ trouble = FALSE

AppStep ==
    \/ ReadTurn \/ ReadFails \/ ReadPing \/ WritePong \/ ReadPong \/ ReadClose
    \/ EchoClose \/ ReadMessage \/ ReadFirstPart \/ ReadOutOfPlace \/ AppCloseStep
    \/ Destroy \/ Joined
HeartStep == HeartWakes \/ HeartSends \/ HeartCounts \/ HeartCloseStep

Next ==
    \/ Connect \/ Upgrade \/ AppStep \/ AppCloses \/ Leave
    \/ Send \/ SenderStops \/ HeartStep
    \/ PeerReads \/ PeerSpeaks \/ ConnectionLost

\* Reads and waits end with their timeouts, so the application's thread and
\* the heartbeat go on; nothing is asked of the peer, nor of the application
\* that it leaves.
FairSpec == Init /\ [][Next]_vars /\ WF_vars(AppStep) /\ WF_vars(HeartStep)

-----------------------------------------------------------------------------
Threads == {"wait", "send", "count", "close", "say", "await", "done", "off"}
TypeOK ==
    /\ closed_ \in BOOLEAN /\ unacked_pings_ \in 0 .. end.pings /\ session \in BOOLEAN
    /\ heart \in Threads
    /\ app \in {"new", "loop", "read", "rest", "pong", "pong between", "echo", "close",
                "say", "await", "failed", "destroy", "join", "gone"}
    /\ (msg # None <=> app \in {"rest", "pong between"}) \/ closed_
    /\ app = "gone" => heart \in {"done", "off"}

Kinds(s) == [i \in DOMAIN s |-> s[i].kind]

\* After the Close frame of this end there is no further data frame and no
\* second Close, whichever threads were sending and closing.
NothingAfterClose ==
    \A i, j \in DOMAIN out :
       i < j /\ out[i].kind = "close" => out[j].kind \notin Data \cup {"close"}

\* The messages handed to the caller are the peer's, whole and in order, with
\* control frames between their parts; only a heartbeat that has given up
\* reads beside the caller and may take one away.
DeliveredInOrder ==
    end.max_missed = 0 =>
       \A i \in DOMAIN got : got[i] = i

\* While the heartbeat enforces no pongs, the frames have one reader.
OneReader ==
    end.max_missed = 0 => ~(Awaits(app) /\ Awaits(heart))

\* A client that leaves a connection on which nothing failed has said Close.
GoodbyeSaid ==
    end.kind = "client" /\ app = "gone" /\ closed_ /\ ~trouble
      => \E i \in DOMAIN out : out[i].kind = "close"

\* The heartbeat closes for missing pongs when at least all but one of the
\* allowed pings are unanswered.
PongTimeoutNearlyReal ==
    [][heart = "wait" /\ heart' = "close" => Pings - pongs >= end.max_missed - 1]_vars

\* A claim that the code does not keep, in no run: the
\* heartbeat closes only when that many pings are unanswered.
PongTimeoutReal ==
    [][heart = "wait" /\ heart' = "close" => Pings - pongs >= end.max_missed]_vars

\* Nothing is written or read on a TLS session that has been freed.
SessionInUse ==
    end.tls /\ \/ app \in {"say", "await", "read"}
               \/ heart \in {"say", "await"}
               \/ heart = "send" /\ ~closed_
      => session

\* The peer falls silent in the end.
PeerStops == <>[][Len(wire') <= Len(wire)]_wire

\* close() comes back: the wait for the peer's Close is short.
CloseReturns == app \in {"say", "await"} ~> app \notin {"say", "await"}

\* The destructor comes back: the heartbeat ends once it is told to.
DestructorEnds == app = "join" ~> app = "gone"

-----------------------------------------------------------------------------
(* What the run checks                                                      *)

\* However the reader, the senders, the heartbeat and close() interleave, this
\* end sends neither data nor Close after a Close, and a client that leaves has
\* said Close.
ClosesOnce == NothingAfterClose /\ GoodbyeSaid

\* What the caller reads is what the peer said, while nobody reads beside it.
ReadsAreWhole == OneReader /\ DeliveredInOrder

\* Threads and TLS session end in an order in which nobody uses what is gone.
EndsInOrder == TypeOK /\ SessionInUse

\* close() and the destructor come back, unless the peer never falls silent: each
\* of its frames begins the short wait anew.
EndReturns == PeerStops => CloseReturns /\ DestructorEnds

\* More than the code keeps, in no run: close() comes back whatever the peer sends.
EndReturnsAlways == CloseReturns /\ DestructorEnds
=============================================================================
