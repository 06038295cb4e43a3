---------------------------- MODULE MCWebSocket -----------------------------
(* A server's end over TLS, and a client's that gives up after two pongs.   *)
EXTENDS WebSocket

End(kind, max_missed, tls) ==
    [kind |-> kind, max_missed |-> max_missed, tls |-> tls,
     sends |-> 0, pings |-> 0, messages |-> 0, probes |-> 0]

PlainEnds == {
    [End("server", 0, TRUE) EXCEPT !.sends = 1, !.pings = 1, !.messages = 2, !.probes = 1],
    [End("client", 2, FALSE) EXCEPT !.pings = 2, !.messages = 1],
    [End("client", 0, FALSE) EXCEPT !.sends = 2, !.pings = 1]}
=============================================================================
