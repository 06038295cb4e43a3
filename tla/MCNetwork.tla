----------------------------- MODULE MCNetwork ------------------------------
(* Instances of Network's parts, small and with all their cases.            *)
EXTENDS Network

CONSTANTS t1, t2, c1, c2, n1

\* Records of one, three and two bytes.
ThreeRecords == <<1, 4, 6>>

\* Three events, one of them typed and of several lines, each after a comment,
\* an empty line and a retry time; 0 is a request without any response.
Event(event, data, id) == [event |-> event, data |-> data, id |-> id]
Line(field, value) == [field |-> field, value |-> value]
ThreeEvents ==
    <<Event("message", <<"a">>, "1"), Event("update", <<"b", "", "b">>, "2"),
      Event("message", <<"c">>, "3")>>
CommentAndRetry == <<Line("comment", ""), Line("blank", ""), Line("retry", 2)>>
SomeStatuses == {0, 503, 404}

-----------------------------------------------------------------------------
\* What waits for somebody else comes back: create_socket from a name that never
\* resolves, SSEClient::stop from whatever the loop is doing, and a TLS
\* connection that was taken is closed (connections are interchangeable);
\* the name its session goes by until then is its own client's, or left over by
\* a handshake of the same thread that failed.
WaitsEnd ==
    ComesBack /\ E!StopReturns /\ S!TakenIsClosed(c1) /\ S!NameIsOwnOrLeftOver
=============================================================================
