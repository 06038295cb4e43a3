------------------------------- MODULE Client -------------------------------
(***************************************************************************)
(* httplib::ClientImpl and SSLClient: one keep-alive connection shared by  *)
(* several threads.                                                        *)
(*                                                                         *)
(* A request runs under request_mutex_; socket_ is guarded by              *)
(* socket_mutex_, which send_ holds only while it prepares the connection  *)
(* and while it gives it back.  In between another thread may call stop(). *)
(* A redirect on the same host and a digest challenge send again from      *)
(* inside handle_request, so a call is a stack of frames of send_.         *)
(*                                                                         *)
(* The peer answers the requests of a connection in their order and may    *)
(* close it at any time.  Messages are records that say which request they *)
(* belong to; header texts, urls and bodies are left out.                  *)
(***************************************************************************)
EXTENDS Naturals, Sequences, SequencesExt, FiniteSets

CONSTANTS
    Callers,        \* threads that use the client
    Conns,          \* connections that can exist at once
    NoConn, Nobody, \* INVALID_SOCKET, std::thread::id()
    Settings,       \* the configurations to start from
    Calls,          \* bound: calls per thread
    Redirects,      \* redirect_count_ of a new request (20 in the code)
    AuthLimit,      \* authorization_count_ stops here (5 in the code)
    Statuses(_),    \* what the peer answers a client with these settings
    Requests(_),    \* the requests its callers build
    StreamsOverlap  \* may open_stream run while another thread's request does?

Methods == {"GET", "HEAD", "OPTIONS", "DELETE", "POST", "PUT", "PATCH"}
Uploads == {"none", "bytes", "provider", "chunked"}
\* The answers that the client tells apart.
Answers == {"ok", "empty", "notmodified", "redirect", "seeother", "elsewhere", "auth"}
\* What the client does not take for a final answer.
Interim == {"continue", "garbled"}

ASSUME ClientAssumption ==
    /\ NoConn \notin Conns /\ Nobody \notin Callers
    /\ {Calls, Redirects, AuthLimit} \subseteq Nat
    /\ Settings \subseteq [keep_alive : BOOLEAN, follow : BOOLEAN, digest : BOOLEAN,
                            ssl : BOOLEAN, mbedtls : BOOLEAN, proxy : BOOLEAN,
                            compress : BOOLEAN]
    /\ \A s \in Settings :
         /\ Requests(s) \subseteq [method : Methods, upload : Uploads, expect : BOOLEAN]
         /\ Statuses(s) \subseteq Answers

VARIABLES
    settings,      \* keep_alive_, follow_location_, digest credentials, ssl, mbedtls,
                   \* proxy, compress_
    request_mutex_, socket_, session,
    socket_requests_in_flight_, socket_requests_are_from_thread_,
    socket_should_be_closed_when_request_is_done_,
    net,           \* the connections as the kernel and the peer see them
    pc, stack,     \* the threads, and their frames of send_
    ret, error, res,
    handle,        \* the connection a StreamHandle owns
    calls,         \* calls begun so far
    stoppedCall    \* history: stop() met this thread's call

guarded == <<socket_requests_in_flight_, socket_requests_are_from_thread_,
             socket_should_be_closed_when_request_is_done_>>
result == <<ret, error, res>>
vars == <<settings, request_mutex_, socket_, session, guarded, net, pc, stack,
          result, handle, calls, stoppedCall>>

-----------------------------------------------------------------------------
(* Requests: the overloads differ in the method, in where the body comes    *)
(* from, and in who takes the response's body.                              *)

GetRequests     == {[method |-> "GET", upload |-> "none", expect |-> FALSE]}
HeadRequests    == {[method |-> "HEAD", upload |-> "none", expect |-> FALSE]}
OptionsRequests == {[method |-> "OPTIONS", upload |-> "none", expect |-> FALSE]}
DeleteRequests  == {[method |-> "DELETE", upload |-> u, expect |-> e] :
                        u \in {"none", "bytes"}, e \in BOOLEAN}
PostRequests    == {[method |-> "POST", upload |-> u, expect |-> e] :
                        u \in Uploads, e \in BOOLEAN}
PutRequests     == {[r EXCEPT !.method = "PUT"] : r \in PostRequests}
PatchRequests   == {[r EXCEPT !.method = "PATCH"] : r \in PostRequests}

\* send_with_content_provider_and_receiver: a compressing client runs the
\* provider to its end before the request exists, so it may cancel the call.
CompressesAtOnce(r) == settings.compress /\ r.upload = "provider"

\* Every frame's request is a message of its own: the hop tells them apart.
Message(t, n, hop, r) == [by |-> t, call |-> n, hop |-> hop, req |-> r]
NoMessage == [by |-> Nobody, call |-> 0, hop |-> 0,
              req |-> [method |-> "GET", upload |-> "none", expect |-> FALSE]]
NoReply   == [to |-> NoMessage, status |-> "none", close |-> FALSE]

Frame(m, redirects, auths, after) ==
    [msg |-> m, conn |-> NoConn, redirects |-> redirects, auths |-> auths,
     second |-> FALSE, expecting |-> m.req.expect, wrote |-> FALSE,
     after |-> after, res |-> NoReply]

Top(t)        == Last(stack[t])
SetTop(t, f)  == stack' = [stack EXCEPT ![t] = Front(@) \o <<f>>]
Goto(t, l)    == pc' = [pc EXCEPT ![t] = l]
Outcome(t, b, e) == /\ ret' = [ret EXCEPT ![t] = b]
                    /\ error' = [error EXCEPT ![t] = e]

-----------------------------------------------------------------------------
(* Connections.  A closed one that nobody refers to is a number to reuse;   *)
(* a dead socket_ is closed before the next one is made.                    *)

Unused == [fd |-> "closed", up |-> FALSE, asked |-> <<>>, replies |-> <<>>]
Fresh  == [fd |-> "open", up |-> TRUE, asked |-> <<>>, replies |-> <<>>]

Free == {c \in Conns :
            /\ net[c].fd = "closed" \/ c = socket_
            /\ \A t \in Callers : /\ handle[t] # c
                                  /\ \A i \in DOMAIN stack[t] : stack[t][i].conn # c}
NextFree == CHOOSE c \in Free : TRUE     \* connections are interchangeable

\* detail::is_socket_alive and tls::is_peer_closed: unread data counts as life.
PeerClosed(c) == net[c].replies = <<>> /\ (net[c].fd # "open" \/ ~net[c].up)
IsAlive == /\ socket_ # NoConn
           /\ ~PeerClosed(socket_)
           /\ settings.ssl => session

Closed(n, c) == IF c = NoConn THEN n ELSE [n EXCEPT ![c] = Unused]

\* disconnect: shutdown_ssl, shutdown_socket, close_socket.
Disconnect(n) == /\ net' = Closed(n, socket_)
                 /\ socket_' = NoConn
                 /\ session' = FALSE

(***************************************************************************)
(* ensure_socket_connection and setup_proxy_connection on a connection to  *)
(* make: "no" is a failure that leaves no socket, "refused" a CONNECT the  *)
(* proxy answers with something else than 200 (its response becomes the    *)
(* call's), "unsecured" a TLS handshake failing behind the proxy, which    *)
(* leaves the socket open without a session.                               *)
(***************************************************************************)
ConnectOutcomes ==
    {"no"} \cup (IF Free = {} THEN {} ELSE {"connected"})
           \cup (IF settings.ssl /\ settings.proxy THEN {"refused"} ELSE {})
           \cup (IF settings.ssl /\ settings.proxy /\ Free # {}
                   THEN {"unsecured"} ELSE {})

Connect(outcome) ==
    LET n == Closed(net, socket_) IN
    IF outcome \in {"connected", "unsecured"}
      THEN /\ net' = [n EXCEPT ![NextFree] = Fresh]
           /\ socket_' = NextFree
           /\ session' = (settings.ssl /\ outcome = "connected")
      ELSE /\ net' = n /\ socket_' = NoConn /\ session' = FALSE

\* The errors that the client itself compares are kept, the others are one.
ConnectError(outcome) == IF outcome = "refused" THEN "ProxyConnection" ELSE "Failed"

-----------------------------------------------------------------------------
(* send and send_                                                           *)

\* A thread calls Get, Post, ...: send locks request_mutex_ for the call.
Call(t) ==
    /\ pc[t] = "idle" /\ calls[t] < Calls
    /\ request_mutex_ = Nobody
    /\ calls' = [calls EXCEPT ![t] = @ + 1]
    /\ \E r \in Requests(settings) :
         LET m == Message(t, calls'[t], 0, r) IN
         \/ /\ stack' = [stack EXCEPT ![t] = <<Frame(m, Redirects, 0, "idle")>>]
            /\ Goto(t, "prepare")
            /\ request_mutex_' = t
         \/ /\ CompressesAtOnce(r)           \* the provider gave up: no request
            /\ UNCHANGED <<stack, pc, request_mutex_>>
    /\ UNCHANGED <<settings, socket_, session, guarded, net, result, handle,
                   stoppedCall>>

\* The head of send_, under socket_mutex_.
Enter(t, c) ==
    /\ socket_requests_in_flight_' = socket_requests_in_flight_ + 1
    /\ socket_requests_are_from_thread_' = t
    /\ SetTop(t, [Top(t) EXCEPT !.conn = c, !.wrote = FALSE,
                                !.expecting = Top(t).msg.req.expect])
    /\ Goto(t, "write")
    /\ UNCHANGED result

Prepare(t) ==
    /\ pc[t] = "prepare"
    /\ socket_should_be_closed_when_request_is_done_' = FALSE
    /\ IF IsAlive
         THEN Enter(t, socket_) /\ UNCHANGED <<net, socket_, session>>
         ELSE \E o \in ConnectOutcomes :
                /\ Connect(o)
                /\ IF o = "connected"
                     THEN Enter(t, socket_')
                     ELSE /\ Outcome(t, o = "refused", ConnectError(o))
                          /\ Goto(t, "return")
                          /\ UNCHANGED <<socket_requests_in_flight_, stack, res,
                                         socket_requests_are_from_thread_>>
    /\ UNCHANGED <<settings, request_mutex_, handle, calls, stoppedCall>>

\* The request and whether all of its body has been sent.
Ask(c, m, whole) ==
    IF net[c].fd = "open" /\ net[c].up
      THEN net' = [net EXCEPT ![c].asked = Append(@, [msg |-> m, whole |-> whole])]
      ELSE UNCHANGED net
CanWrite(c) == net[c].fd = "open"

(***************************************************************************)
(* write_request.  It may fail before anything is sent (a header that is   *)
(* not allowed, a connection that is gone), or in the body (a provider     *)
(* that gives up); process_request reads the response in either case.      *)
(***************************************************************************)
WriteRequest(t) ==
    LET f == Top(t)
        next == IF f.expecting THEN "expect"
                ELSE IF settings.ssl /\ ~settings.proxy THEN "peek" ELSE "read"
    IN
    /\ pc[t] = "write"
    /\ \/ /\ CanWrite(f.conn)
          /\ Ask(f.conn, f.msg, ~f.expecting)
          /\ SetTop(t, [f EXCEPT !.wrote = TRUE])
          /\ UNCHANGED error
       \/ /\ UNCHANGED <<net, stack>>
          /\ error' = [error EXCEPT ![t] = "Failed"]
       \/ /\ CanWrite(f.conn) /\ f.msg.req.upload # "none" /\ ~f.expecting
          /\ Ask(f.conn, f.msg, FALSE)
          /\ UNCHANGED stack
          /\ error' = [error EXCEPT ![t] = "Failed"]
    /\ Goto(t, next)
    /\ UNCHANGED <<settings, request_mutex_, socket_, session, guarded, ret, res,
                   handle, calls, stoppedCall>>

(***************************************************************************)
(* tls::is_peer_closed: a TLS client looks whether the peer has said       *)
(* good-bye before it waits for it; a peer that goes without a word is not *)
(* seen.  OpenSSL peeks; the Mbed TLS back end reads the byte it looks at, *)
(* and a response that has lost its first byte is not one.                 *)
(***************************************************************************)
PeekPeer(t) ==
    LET c == Top(t).conn IN
    /\ pc[t] = "peek"
    /\ \/ /\ PeerClosed(c) /\ ~net[c].up
          /\ Outcome(t, FALSE, "SSLPeerCouldBeClosed_")
          /\ Goto(t, "exit")
          /\ UNCHANGED net
       \/ /\ Goto(t, "read")
          /\ UNCHANGED <<ret, error>>
          /\ net' = IF settings.mbedtls /\ net[c].replies # <<>>
                      THEN [net EXCEPT ![c].replies[1].status = "garbled"]
                      ELSE net
    /\ UNCHANGED <<settings, request_mutex_, socket_, session, guarded, stack, res,
                   handle, calls, stoppedCall>>

\* write_request_body for a request whose head the peer has.
BodySent(c, m) ==
    IF net[c].asked # <<>> /\ Last(net[c].asked).msg = m
      THEN [net EXCEPT ![c].asked[Len(net[c].asked)].whole = TRUE]
      ELSE net

\* Expect: 100-continue.  An answer within the timeout is left to the reader;
\* without one the body is sent all the same.
AwaitContinue(t) ==
    LET f == Top(t) IN
    /\ pc[t] = "expect"
    /\ \/ /\ net[f.conn].replies # <<>>
          /\ Goto(t, "read")
          /\ UNCHANGED <<net, stack, ret, error>>
       \/ /\ net[f.conn].replies = <<>>
          /\ CanWrite(f.conn)
          /\ net' = BodySent(f.conn, f.msg)
          /\ SetTop(t, [f EXCEPT !.expecting = FALSE])
          /\ Goto(t, "read")
          /\ UNCHANGED <<ret, error>>
       \/ /\ net[f.conn].replies = <<>>
          /\ Outcome(t, FALSE, "Failed")
          /\ Goto(t, "exit")
          /\ UNCHANGED <<net, stack>>
    /\ UNCHANGED <<settings, request_mutex_, socket_, session, guarded, res, handle,
                   calls, stoppedCall>>

Reply(c) == Head(net[c].replies)
Taken(c) == [net EXCEPT ![c].replies = Tail(@)]
HasBody(m, r) == m.req.method # "HEAD" /\ r.status \notin {"empty", "notmodified"}

\* A wrong read, for comparison: it waits as long as the connection is up.
ReadForEver(t) ==
    LET f == Top(t) IN
    /\ pc[t] = "read"
    /\ PeerClosed(f.conn)
    /\ Outcome(t, FALSE, IF f.wrote THEN "Failed" ELSE error[t])
    /\ Goto(t, "exit")
    /\ UNCHANGED <<settings, request_mutex_, socket_, session, guarded, net, stack,
                   res, handle, calls, stoppedCall>>

\* Nothing comes (the connection is gone, or the read timeout passes), or no
\* response line.
ReadNothing(t) ==
    LET f == Top(t) IN
    /\ pc[t] = "read"
    /\ net[f.conn].replies # <<>> => Reply(f.conn).status = "garbled"
    /\ Outcome(t, FALSE, IF f.wrote THEN "Failed" ELSE error[t])
    /\ Goto(t, "exit")
    /\ UNCHANGED <<settings, request_mutex_, socket_, session, guarded, net, stack,
                   res, handle, calls, stoppedCall>>

\* 100 Continue: skipped, or the leave to send the body.
ReadContinue(t) ==
    LET f == Top(t) IN
    /\ pc[t] = "read"
    /\ net[f.conn].replies # <<>> /\ Reply(f.conn).status = "continue"
    /\ IF ~f.expecting
         THEN net' = Taken(f.conn) /\ UNCHANGED <<pc, stack, ret, error>>
         ELSE IF ~f.wrote
         THEN /\ net' = Taken(f.conn) /\ Goto(t, "exit")
              /\ UNCHANGED <<stack, ret, error>>
         ELSE \/ /\ CanWrite(f.conn)
                 /\ net' = [BodySent(f.conn, f.msg) EXCEPT ![f.conn].replies = Tail(@)]
                 /\ SetTop(t, [f EXCEPT !.expecting = FALSE])
                 /\ UNCHANGED <<pc, ret, error>>
              \/ /\ net' = Taken(f.conn)
                 /\ Outcome(t, FALSE, "Failed")
                 /\ Goto(t, "exit")
                 /\ UNCHANGED stack
    /\ UNCHANGED <<settings, request_mutex_, socket_, session, guarded, res, handle,
                   calls, stoppedCall>>

(***************************************************************************)
(* The final response, head and body.  The body may not come to its end:   *)
(* the receiver or a progress callback cancels, the payload limit is hit,  *)
(* the coding is wrong; the rest then stays in the connection.             *)
(***************************************************************************)
\* A wrong read: a head without its body will do.
ReadHeadOnly(t) ==
    LET f == Top(t)
        r == Reply(f.conn)
    IN
    /\ pc[t] = "read"
    /\ net[f.conn].replies # <<>> /\ r.status \notin Interim
    /\ f.wrote
    /\ \/ net' = Taken(f.conn)
       \/ net' = [net EXCEPT ![f.conn].replies[1].status = "rest"]
    /\ SetTop(t, [f EXCEPT !.res = r])
    /\ ret' = [ret EXCEPT ![t] = TRUE]
    /\ Goto(t, "handled")
    /\ UNCHANGED error
    /\ UNCHANGED <<settings, request_mutex_, socket_, session, guarded, res, handle,
                   calls, stoppedCall>>

ReadResponse(t) ==
    LET f == Top(t)
        r == Reply(f.conn)
    IN
    /\ pc[t] = "read"
    /\ net[f.conn].replies # <<>> /\ r.status \notin Interim
    /\ \/ /\ f.wrote
          /\ net' = Taken(f.conn)
          /\ SetTop(t, [f EXCEPT !.res = r])
          /\ ret' = [ret EXCEPT ![t] = TRUE]
          /\ Goto(t, "handled")
          /\ UNCHANGED error
       \/ /\ ~f.wrote
          /\ net' = Taken(f.conn)
          /\ ret' = [ret EXCEPT ![t] = FALSE]
          /\ Goto(t, "exit")
          /\ UNCHANGED <<stack, error>>
       \/ /\ f.wrote /\ HasBody(f.msg, r)
          /\ net' = [net EXCEPT ![f.conn].replies[1].status = "rest"]
          /\ Outcome(t, FALSE, "Failed")
          /\ Goto(t, "exit")
          /\ UNCHANGED stack
    /\ UNCHANGED <<settings, request_mutex_, socket_, session, guarded, res, handle,
                   calls, stoppedCall>>

\* A nested send: the frame keeps its place, the new one is prepared.
Nested(t, m, redirects, auths, after) ==
    /\ stack' = [stack EXCEPT ![t] = Append(@, Frame(m, redirects, auths, after))]
    /\ Goto(t, "prepare")
NextMessage(t, r) ==
    Message(t, calls[t], Top(t).msg.hop + 1, r)

\* detail::redirect: 303 turns everything but GET and HEAD into a bare GET.
Redirected(r, status) ==
    IF status = "seeother" /\ r.method \notin {"GET", "HEAD"}
      THEN [method |-> "GET", upload |-> "none", expect |-> FALSE]
      ELSE r

\* create_redirect_client: another host is asked by a client of its own that
\* exists for this request; of it only the answer is kept.
AskElsewhere(t) ==
    \/ /\ Outcome(t, FALSE, "Failed") /\ UNCHANGED stack
    \/ /\ UNCHANGED <<ret, error>>
       /\ \E s \in {"ok", "auth"} \cap Statuses(settings) :
            SetTop(t, [Top(t) EXCEPT !.res.status = s, !.res.close = FALSE])

\* handle_request after process_request: the connection the peer closes is
\* given up, then a redirect is followed.
Handled(t) ==
    LET f == Top(t)
        r == f.res
    IN
    /\ pc[t] = "handled"
    /\ IF r.close THEN Disconnect(net) ELSE UNCHANGED <<net, socket_, session>>
    /\ \/ /\ ~settings.follow
             \/ r.status \notin {"redirect", "seeother", "elsewhere", "notmodified"}
          /\ Goto(t, "auth") /\ UNCHANGED <<stack, ret, error>>
       \/ /\ settings.follow /\ r.status \in {"redirect", "seeother", "elsewhere"}
          /\ f.redirects = 0
          /\ Outcome(t, FALSE, "Failed")
          /\ Goto(t, "auth") /\ UNCHANGED stack
       \/ /\ settings.follow /\ r.status = "notmodified"    \* no Location
          /\ ret' = [ret EXCEPT ![t] = FALSE]
          /\ Goto(t, "auth") /\ UNCHANGED <<stack, error>>
       \/ /\ settings.follow /\ f.redirects > 0
          /\ r.status \in {"redirect", "seeother"}
          /\ Nested(t, NextMessage(t, Redirected(f.msg.req, r.status)),
                    f.redirects - 1, f.auths, "auth")
          /\ UNCHANGED <<ret, error>>
       \/ /\ settings.follow /\ f.redirects > 0 /\ r.status = "elsewhere"
          /\ AskElsewhere(t)
          /\ Goto(t, "auth")
    /\ UNCHANGED <<settings, request_mutex_, guarded, res, handle, calls, stoppedCall>>

\* A challenge is answered with digest credentials, AuthLimit times at most.
Authenticate(t) ==
    LET f == Top(t) IN
    /\ pc[t] = "auth"
    /\ IF settings.digest /\ f.res.status = "auth" /\ f.auths < AuthLimit
         THEN Nested(t, NextMessage(t, f.msg.req), f.redirects, f.auths + 1, "exit")
         ELSE Goto(t, "exit") /\ UNCHANGED stack
    /\ UNCHANGED <<settings, request_mutex_, socket_, session, guarded, net, result,
                   handle, calls, stoppedCall>>

\* A wrong end: a connection is kept whatever became of the request.
ExitKeeps(t) ==
    /\ pc[t] = "exit"
    /\ socket_requests_in_flight_' = socket_requests_in_flight_ - 1
    /\ socket_requests_are_from_thread_' =
         IF socket_requests_in_flight_ = 1 THEN Nobody
                                           ELSE socket_requests_are_from_thread_
    /\ IF \/ socket_should_be_closed_when_request_is_done_
          \/ ~settings.keep_alive
         THEN Disconnect(net)
         ELSE UNCHANGED <<net, socket_, session>>
    /\ error' = [error EXCEPT ![t] =
                   IF ~ret[t] /\ @ = "Success" THEN "Failed" ELSE @]
    /\ SetTop(t, [Top(t) EXCEPT !.conn = NoConn])
    /\ Goto(t, "return")
    /\ UNCHANGED <<settings, request_mutex_, ret, res, handle, calls, stoppedCall,
                   socket_should_be_closed_when_request_is_done_>>

\* The scope_exit of send_, under socket_mutex_.
Exit(t) ==
    /\ pc[t] = "exit"
    /\ socket_requests_in_flight_' = socket_requests_in_flight_ - 1
    /\ socket_requests_are_from_thread_' =
         IF socket_requests_in_flight_ = 1 THEN Nobody
                                           ELSE socket_requests_are_from_thread_
    /\ IF \/ socket_should_be_closed_when_request_is_done_
          \/ ~settings.keep_alive
          \/ ~ret[t]
         THEN Disconnect(net)
         ELSE UNCHANGED <<net, socket_, session>>
    /\ error' = [error EXCEPT ![t] =
                   IF ~ret[t] /\ @ = "Success" THEN "Failed" ELSE @]
    /\ SetTop(t, [Top(t) EXCEPT !.conn = NoConn])
    /\ Goto(t, "return")
    /\ UNCHANGED <<settings, request_mutex_, ret, res, handle, calls, stoppedCall,
                   socket_should_be_closed_when_request_is_done_>>

\* send: one more try when the TLS peer had closed; else the frame ends, and
\* the frame below goes on with the response, if there is one.
Return(t) ==
    LET f == Top(t)
        below == Front(stack[t])
    IN
    /\ pc[t] = "return"
    /\ \/ /\ error[t] = "SSLPeerCouldBeClosed_" /\ ~f.second
          /\ SetTop(t, [f EXCEPT !.second = TRUE])
          /\ Goto(t, "prepare")
          /\ UNCHANGED <<ret, error, request_mutex_, stoppedCall>>
       \/ /\ error[t] # "SSLPeerCouldBeClosed_" \/ f.second
          /\ below # <<>>
          /\ error' = [error EXCEPT ![t] =
                         IF @ = "SSLPeerCouldBeClosed_" THEN "Read" ELSE @]
          /\ stack' = [stack EXCEPT ![t] =
               IF ~ret[t] THEN below
               ELSE Front(below) \o
                      <<[Last(below) EXCEPT !.res = f.res,
                           !.redirects = IF f.after = "auth" THEN f.redirects
                                                             ELSE @]>>]
          /\ Goto(t, f.after)
          /\ UNCHANGED <<ret, request_mutex_, stoppedCall>>
       \/ /\ error[t] # "SSLPeerCouldBeClosed_" \/ f.second
          /\ below = <<>>                  \* the Result is the caller's now
          /\ stack' = [stack EXCEPT ![t] = <<>>]
          /\ Outcome(t, FALSE, "Success")
          /\ Goto(t, "idle")
          /\ request_mutex_' = Nobody
          /\ stoppedCall' = [stoppedCall EXCEPT ![t] = FALSE]
    /\ UNCHANGED <<settings, socket_, session, guarded, net, res, handle, calls>>

-----------------------------------------------------------------------------
(* stop(), the setters that drop the connection                             *)

\* A wrong stop: it closes the connection at once.
StopCloses ==
    /\ Disconnect(net)
    /\ UNCHANGED <<settings, request_mutex_, guarded, pc, stack, result, handle, calls,
                   stoppedCall>>

Stop ==
    /\ IF socket_requests_in_flight_ > 0
         THEN /\ socket_should_be_closed_when_request_is_done_' = TRUE
              /\ net' = IF socket_ = NoConn THEN net
                        ELSE [net EXCEPT ![socket_].fd = "shut"]
              /\ stoppedCall' = [t \in Callers |-> stoppedCall[t] \/ stack[t] # <<>>]
              /\ UNCHANGED <<socket_, session>>
         ELSE /\ Disconnect(net)
              /\ UNCHANGED <<socket_should_be_closed_when_request_is_done_, stoppedCall>>
    /\ UNCHANGED <<settings, request_mutex_, socket_requests_in_flight_,
                   socket_requests_are_from_thread_, pc, stack, result, handle, calls>>

\* set_proxy and set_no_proxy close the connection whoever uses it: the
\* client is configured between requests.
SetProxy ==
    /\ request_mutex_ = Nobody
    /\ Disconnect(net)
    /\ UNCHANGED <<settings, request_mutex_, guarded, pc, stack, result, handle,
                   calls, stoppedCall>>

-----------------------------------------------------------------------------
(* open_stream: the connection leaves the client and belongs to a handle.   *)

OpenStream(t) ==
    /\ pc[t] = "idle" /\ calls[t] < Calls
    /\ StreamsOverlap \/ request_mutex_ = Nobody
    /\ calls' = [calls EXCEPT ![t] = @ + 1]
    /\ \/ /\ IsAlive
          /\ handle' = [handle EXCEPT ![t] = socket_]
          /\ UNCHANGED net /\ socket_' = NoConn /\ session' = FALSE
          /\ Goto(t, "stream write")
       \/ /\ ~IsAlive /\ Free # {}
          /\ net' = [Closed(net, socket_) EXCEPT ![NextFree] = Fresh]
          /\ handle' = [handle EXCEPT ![t] = NextFree]
          /\ socket_' = NoConn /\ session' = FALSE
          /\ Goto(t, "stream write")
       \/ /\ ~IsAlive
          /\ \E o \in ConnectOutcomes \ {"connected"} : Connect(o)
          /\ UNCHANGED <<pc, handle>>
    /\ UNCHANGED <<settings, request_mutex_, guarded, stack, result, stoppedCall>>

StreamMessage(t) ==
    Message(t, calls[t], 0, [method |-> "GET", upload |-> "none", expect |-> FALSE])

StreamWrite(t) ==
    /\ pc[t] = "stream write"
    /\ \/ /\ CanWrite(handle[t])
          /\ Ask(handle[t], StreamMessage(t), TRUE)
          /\ Goto(t, "stream head")
       \/ UNCHANGED net /\ Goto(t, "stream end")
    /\ UNCHANGED <<settings, request_mutex_, socket_, session, guarded, stack, result,
                   handle, calls, stoppedCall>>

\* The head of the response; then StreamHandle::read, to the end or not.
StreamHead(t) ==
    LET c == handle[t] IN
    /\ pc[t] = "stream head"
    /\ \/ /\ net[c].replies # <<>>
          /\ net' = Taken(c)
          /\ IF Reply(c).status = "continue" THEN UNCHANGED <<res, pc>>
               ELSE res' = [res EXCEPT ![t] = Reply(c)] /\ Goto(t, "stream body")
       \/ /\ net[c].replies = <<>>
          /\ Goto(t, "stream end") /\ UNCHANGED <<net, res>>
    /\ UNCHANGED <<settings, request_mutex_, socket_, session, guarded, stack, ret,
                   error, handle, calls, stoppedCall>>

StreamBody(t) ==
    /\ pc[t] = "stream body"
    /\ Goto(t, "stream end")
    /\ UNCHANGED <<settings, request_mutex_, socket_, session, guarded, net, stack,
                   result, handle, calls, stoppedCall>>

\* ~StreamHandle: ClientConnection shuts TLS down and closes the socket.
StreamEnd(t) ==
    /\ pc[t] = "stream end"
    /\ net' = Closed(net, handle[t])
    /\ handle' = [handle EXCEPT ![t] = NoConn]
    /\ res' = [res EXCEPT ![t] = NoReply]
    /\ Goto(t, "idle")
    /\ UNCHANGED <<settings, request_mutex_, socket_, session, guarded, stack, ret, error,
                   calls, stoppedCall>>

-----------------------------------------------------------------------------
(* The peer                                                                 *)

\* It answers the oldest request when it has all of it; one whose body it
\* was told to expect it may invite, or turn down and close.
PeerAnswers(c) ==
    /\ net[c].up /\ net[c].asked # <<>>
    /\ LET q == Head(net[c].asked)
           answer(s, close) ==
             net' = [net EXCEPT ![c].asked = Tail(@), ![c].up = ~close,
                       ![c].replies = Append(@, [to |-> q.msg, status |-> s,
                                                 close |-> close])]
       IN \/ q.whole /\ \E s \in Statuses(settings), close \in BOOLEAN : answer(s, close)
          \/ /\ ~q.whole /\ q.msg.req.expect
             /\ \/ answer("failed", TRUE)
                \/ /\ \A i \in DOMAIN net[c].replies : net[c].replies[i].status # "continue"
                   /\ net' = [net EXCEPT ![c].replies =
                        Append(@, [to |-> q.msg, status |-> "continue", close |-> FALSE])]
    /\ UNCHANGED <<settings, request_mutex_, socket_, session, guarded, pc, stack,
                   result, handle, calls, stoppedCall>>

PeerCloses(c) ==
    /\ net[c].fd # "closed" /\ net[c].up
    /\ net' = [net EXCEPT ![c].up = FALSE]
    /\ UNCHANGED <<settings, request_mutex_, socket_, session, guarded, pc, stack,
                   result, handle, calls, stoppedCall>>

-----------------------------------------------------------------------------
Init ==
    /\ settings \in Settings
    /\ request_mutex_ = Nobody
    /\ socket_ = NoConn /\ session = FALSE
    /\ socket_requests_in_flight_ = 0
    /\ socket_requests_are_from_thread_ = Nobody
    /\ socket_should_be_closed_when_request_is_done_ = FALSE
    /\ net = [c \in Conns |-> Unused]
    /\ pc = [t \in Callers |-> "idle"]
    /\ stack = [t \in Callers |-> <<>>]
    /\ ret = [t \in Callers |-> FALSE]
    /\ error = [t \in Callers |-> "Success"]
    /\ res = [t \in Callers |-> NoReply]
    /\ handle = [t \in Callers |-> NoConn]
    /\ calls = [t \in Callers |-> 0]
    /\ stoppedCall = [t \in Callers |-> FALSE]

Step(t) ==
    \/ Prepare(t) \/ WriteRequest(t) \/ PeekPeer(t) \/ AwaitContinue(t)
    \/ ReadNothing(t) \/ ReadContinue(t) \/ ReadResponse(t)
    \/ Handled(t) \/ Authenticate(t) \/ Exit(t) \/ Return(t)
    \/ StreamWrite(t) \/ StreamHead(t) \/ StreamBody(t) \/ StreamEnd(t)

Next ==
    \/ \E t \in Callers : Call(t) \/ OpenStream(t) \/ Step(t)
    \/ Stop \/ SetProxy
    \/ \E c \in Conns : PeerAnswers(c) \/ PeerCloses(c)

\* A read returns after the read timeout, so a thread that is inside the
\* client always has a step; the peer and the callers owe nothing.
FairSpec == Init /\ [][Next]_vars /\ \A t \in Callers : WF_vars(Step(t))

-----------------------------------------------------------------------------
Labels == {"idle", "prepare", "write", "peek", "expect", "read", "handled", "auth",
           "exit", "return", "stream write", "stream head", "stream body", "stream end"}
ErrorNames == {"Success", "Failed", "Read", "SSLPeerCouldBeClosed_", "ProxyConnection"}

\* The variables hold what the class declares, and the count of requests in
\* flight is the number of frames that have a connection: a nested send
\* counts again, and all of them belong to the holder of request_mutex_.
TypeOK ==
    /\ request_mutex_ \in Callers \cup {Nobody}
    /\ socket_ \in Conns \cup {NoConn} /\ session \in BOOLEAN
    /\ socket_should_be_closed_when_request_is_done_ \in BOOLEAN
    /\ \A c \in Conns : net[c].fd \in {"open", "shut", "closed"} /\ net[c].up \in BOOLEAN
    /\ \A t \in Callers : pc[t] \in Labels /\ error[t] \in ErrorNames
    /\ \A t \in Callers : stack[t] # <<>> => request_mutex_ = t
    /\ LET held(t) == {i \in DOMAIN stack[t] : stack[t][i].conn # NoConn}
           t == request_mutex_
       IN socket_requests_in_flight_ = IF t = Nobody THEN 0 ELSE Cardinality(held(t))
    /\ socket_requests_are_from_thread_ =
         IF socket_requests_in_flight_ = 0 THEN Nobody ELSE request_mutex_

\* The connection a thread reads and writes, through send_ or a handle.
Uses(t, c) ==
    \/ pc[t] \in {"write", "peek", "expect", "read"} /\ Top(t).conn = c
    \/ handle[t] = c

\* No thread closes a connection another is reading or writing ("it is still
\* a bug since rarely the OS may reassign the socket id"), and a TLS client
\* never talks on a socket without its session (assert(socket.ssl)).
NoCloseInUse ==
    \A t \in Callers, c \in Conns :
       Uses(t, c) => /\ net[c].fd # "closed"
                     /\ (settings.ssl /\ stack[t] # <<>> /\ c = socket_) => session

\* Whatever ended the last request (a timeout, a cancelled download, a body
\* the peer turned down), a connection kept for the next one holds neither
\* an unread reply nor an unanswered request.
IdleIsClean ==
    socket_requests_in_flight_ = 0 /\ socket_ # NoConn =>
        net[socket_].replies = <<>> /\ net[socket_].asked = <<>>

\* The response a call is given answers the request that call sent.
ResponsesMatch ==
    \A t \in Callers :
       /\ pc[t] = "handled" => Top(t).res.to = Top(t).msg
       /\ pc[t] = "stream body" => res[t].to = StreamMessage(t)

\* Two threads never share a connection: the threads of one client take
\* turns, and an open stream has its connection to itself.
OneUser ==
    \A s, t \in Callers, c \in Conns : Uses(s, c) /\ Uses(t, c) => s = t

\* The threads of one client do not take their connections from each other,
\* with stop() at any moment.
UsersAreSafe == TypeOK /\ NoCloseInUse /\ OneUser

\* Every call returns: redirects, challenges and the TLS retry are counted.
CallsReturn == \A t \in Callers : (pc[t] # "idle") ~> (pc[t] = "idle")

\* A claim that the code does not keep, in no run: stop() during
\* a request, and no further request of that call is written.
StopIsHonoured ==
    [][\A t \in Callers : stoppedCall[t] /\ pc[t] = "prepare" => pc'[t] # "write"]_vars

\* A claim that the code does not keep, in no run: looking
\* whether the peer has closed takes nothing from what it sent.
PeekTakesNothing ==
    [][\A t \in Callers, c \in Conns :
         pc[t] = "peek" /\ pc'[t] = "read" => net'[c] = net[c]]_vars

\* A claim that the code does not keep, in no run: a call
\* that returns a response reports no error, unless it is the response of the
\* proxy.
SuccessHasNoError ==
    \A t \in Callers :
       pc[t] = "return" /\ ret[t] => error[t] \in {"Success", "ProxyConnection"}
=============================================================================
