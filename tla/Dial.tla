-------------------------------- MODULE Dial --------------------------------
(***************************************************************************)
(* detail::create_socket: a name becomes a list of addresses, and the      *)
(* first address that can be bound or connected becomes the socket.        *)
(*                                                                         *)
(* getaddrinfo_with_timeout is one of four programs, chosen at build time: *)
(* "inline" blocks; "cfhost" (macOS) runs the caller's run loop; "gai"     *)
(* (glibc) hands the resolver a request on the caller's stack; "thread"    *)
(* shares a heap object with a thread that the caller may abandon.  The    *)
(* list belongs to one of the two until it is freed.                       *)
(***************************************************************************)
EXTENDS Naturals

CONSTANTS
    Builds,          \* subset of {"inline", "cfhost", "gai", "thread"}
    MaxAddresses,    \* bound: addresses of a name
    Purposes,        \* subset of {"connect", "listen"}
    Interfaces       \* subset of BOOLEAN: is set_interface in force?

ASSUME DialAssumption == MaxAddresses \in Nat

VARIABLES
    build, purpose, intf,
    caller,      \* where create_socket is
    resolver,    \* "off", "works", "ended": whoever runs getaddrinfo
    list,        \* who owns the addrinfo list: "none", "resolver", "caller", "freed"
    left,        \* addresses not tried yet
    fds,         \* sockets created and not closed
    sock,        \* the socket create_socket returns, 0 for INVALID_SOCKET
    error,
    waits        \* history: timeouts waited out

about == <<build, purpose, intf>>
vars == <<about, caller, resolver, list, left, fds, sock, error, waits>>

-----------------------------------------------------------------------------
(* Names                                                                    *)

Works   == resolver' = "works" /\ caller' = "wait"
Refused == caller' = "failed" /\ UNCHANGED resolver

ResolveInline == build = "inline" /\ Works

\* A CFHost whose callback will fill in a context on the caller's stack.
ResolveCfHost == build = "cfhost" /\ (Works \/ Refused)

\* getaddrinfo_a, with a request on the caller's stack.
ResolveGai == build = "gai" /\ (Works \/ Refused)

\* A thread and a state it shares with the caller.
ResolveThread == build = "thread" /\ Works

Resolve ==
    /\ caller = "start"
    /\ ResolveInline \/ ResolveCfHost \/ ResolveGai \/ ResolveThread
    /\ UNCHANGED <<about, list, left, fds, sock, error, waits>>

\* getaddrinfo ends, with a list or an error.  The resolver keeps the list in
\* the request; an abandoned thread drops the last reference to it.  The run
\* loop of "cfhost" calls back only while its caller waits.
ResolverEnds ==
    /\ resolver = "works"
    /\ build = "cfhost" => caller = "wait"
    /\ resolver' = "ended"
    /\ list' \in IF build = "thread" /\ caller # "wait" THEN {"none", "freed"}
                 ELSE {"none", "resolver"}
    /\ UNCHANGED <<about, caller, left, fds, sock, error, waits>>

\* The caller takes the list over, or the error.
TakeList ==
    /\ caller = "wait" /\ resolver = "ended"
    /\ \/ /\ list = "resolver"
          /\ list' = "caller" /\ caller' = "dial"
          /\ left' \in 0 .. MaxAddresses
       \/ /\ list = "none"
          /\ caller' = "failed" /\ UNCHANGED <<list, left>>
    /\ UNCHANGED <<about, resolver, fds, sock, error, waits>>

\* "cfhost" makes the list from an array of addresses: there may be none, or
\* no memory.
CopyFails ==
    /\ caller = "wait" /\ resolver = "ended" /\ build = "cfhost"
    /\ list = "resolver"
    /\ list' = "freed" /\ caller' = "failed"
    /\ UNCHANGED <<about, resolver, left, fds, sock, error, waits>>

\* The connection timeout passes first: the run loop's request is cancelled,
\* the thread is detached.
Abandon ==
    /\ caller = "wait" /\ resolver = "works" /\ build \in {"cfhost", "thread"}
    /\ waits' = waits + 1
    /\ caller' = "failed"
    /\ UNCHANGED <<about, resolver, list, left, fds, sock, error>>

\* gai_suspend times out or is interrupted, perhaps as the answer arrives.
GaiGivesUp ==
    /\ caller = "wait" /\ build = "gai"
    /\ waits' = waits + 1
    /\ caller' = "cancel"
    /\ UNCHANGED <<about, resolver, list, left, fds, sock, error>>

\* A wrong CancelEnds, that leaves the list of an answer that was late.
CancelLeaks ==
    /\ caller = "cancel" /\ resolver = "ended"
    /\ UNCHANGED list
    /\ caller' = "failed"
    /\ UNCHANGED <<about, resolver, left, fds, sock, error, waits>>

\* gai_cancel, and the wait without a timeout for a resolver that had begun.
CancelEnds ==
    /\ caller = "cancel" /\ resolver = "ended"
    /\ list' = IF list = "resolver" THEN "freed" ELSE list
    /\ caller' = "failed"
    /\ UNCHANGED <<about, resolver, left, fds, sock, error, waits>>

Cancelled ==
    /\ caller = "cancel" /\ resolver = "works"
    /\ resolver' = "ended" /\ caller' = "failed"
    /\ UNCHANGED <<about, list, left, fds, sock, error, waits>>

-----------------------------------------------------------------------------
(* Addresses                                                                *)

\* socket() for the next address; an address it fails for is passed over.
Socket ==
    /\ caller = "dial" /\ left > 0
    /\ left' = left - 1
    /\ \/ fds' = fds \cup {left} /\ caller' = "bind"
       \/ UNCHANGED <<fds, caller>>
    /\ UNCHANGED <<about, resolver, list, sock, error, waits>>

Fd == left + 1

Rejects(e, quit) ==
    /\ fds' = fds \ {Fd}
    /\ caller' = IF quit THEN "failed" ELSE "dial"
    /\ error' = e
    /\ UNCHANGED sock
Accepts ==
    /\ sock' = Fd /\ caller' = "free"
    /\ error' = "Success"
    /\ UNCHANGED fds

\* Server::create_server_socket: bind and listen.
Listens ==
    /\ caller = "bind" /\ purpose = "listen"
    /\ Accepts \/ Rejects(error, FALSE)
    /\ UNCHANGED <<about, resolver, list, left, waits>>

\* create_client_socket: the interface's address is bound, and a nonblocking
\* connect succeeds, fails or is in progress.
Connects ==
    /\ caller = "bind" /\ purpose = "connect"
    /\ \/ intf /\ Rejects("BindIPAddress", FALSE)
       \/ Rejects("Connection", FALSE)
       \/ Accepts
       \/ caller' = "poll" /\ UNCHANGED <<fds, sock, error>>
    /\ UNCHANGED <<about, resolver, list, left, waits>>

\* wait_until_socket_is_ready: after a timeout no other address is tried.
Polled ==
    /\ caller = "poll"
    /\ \/ Accepts /\ UNCHANGED waits
       \/ Rejects("Connection", FALSE) /\ UNCHANGED waits
       \/ Rejects("ConnectionTimeout", TRUE) /\ waits' = waits + 1
    /\ UNCHANGED <<about, resolver, list, left>>

NoAddress ==
    /\ caller = "dial" /\ left = 0
    /\ caller' = "failed"
    /\ UNCHANGED <<about, resolver, list, left, fds, sock, error, waits>>

\* create_socket returns; the scope guard frees the list.  A client that has
\* no socket has an error.
Return ==
    /\ caller \in {"free", "failed"}
    /\ caller' = "done"
    /\ list' = IF list = "caller" THEN "freed" ELSE list
    /\ error' = IF purpose = "connect" /\ sock = 0 /\ error = "Success"
                  THEN "Connection" ELSE error
    /\ UNCHANGED <<about, resolver, left, fds, sock, waits>>

-----------------------------------------------------------------------------
Init ==
    /\ build \in Builds /\ purpose \in Purposes /\ intf \in Interfaces
    /\ caller = "start" /\ resolver = "off" /\ list = "none"
    /\ left = 0 /\ fds = {} /\ sock = 0 /\ error = "Success" /\ waits = 0

CallerStep ==
    \/ Resolve \/ TakeList \/ CopyFails \/ Abandon \/ GaiGivesUp \/ CancelEnds \/ Cancelled
    \/ Socket \/ Listens \/ Connects \/ Polled \/ NoAddress \/ Return

Next == CallerStep \/ ResolverEnds

\* The caller's waits are timed; a resolver may never answer.
Spec == Init /\ [][Next]_vars
Fairness == WF_vars(CallerStep)
FairSpec == Spec /\ Fairness

-----------------------------------------------------------------------------
TypeOK ==
    /\ caller \in {"start", "wait", "cancel", "dial", "bind", "poll", "free", "failed", "done"}
    /\ resolver \in {"off", "works", "ended"}
    /\ list \in {"none", "resolver", "caller", "freed"}
    /\ left \in 0 .. MaxAddresses /\ fds \subseteq 1 .. MaxAddresses
    /\ list = "caller" => caller \in {"dial", "bind", "poll", "free", "failed"}

\* When the caller has returned and the resolver has ended, in whichever
\* order, the list of addresses has been freed.
ListFreed == caller = "done" /\ resolver = "ended" => list \in {"none", "freed"}

\* Every socket that was created for an address is closed, except the one
\* that is returned; and a client gets a socket exactly when it gets no error.
SocketsAccounted ==
    /\ fds = IF caller \in {"bind", "poll"} THEN {Fd} ELSE {sock} \ {0}
    /\ caller = "done" /\ purpose = "connect" => (sock # 0) = (error = "Success")

\* A resolver that got a request on the caller's stack never ends after the
\* caller has left it.
RequestOutlivesResolver ==
    build = "gai" /\ resolver = "works" => caller \in {"wait", "cancel"}

\* A caller waits out one timeout at most, that of the name or that of one
\* address, however many addresses there are.
WaitsBounded == waits <= 1

\* However caller and resolver interleave and whichever address fails, nothing
\* that was got for the call outlives it and nothing it uses goes before it.
CallLeavesNothing ==
    /\ TypeOK /\ ListFreed /\ SocketsAccounted
    /\ RequestOutlivesResolver /\ WaitsBounded

\* Where a name that never resolves can be abandoned, the caller comes back.
\* (With "inline" and, once the resolver has begun, "gai" it waits.)
ComesBack ==
    build \in {"thread", "cfhost"} /\ caller = "wait" ~> caller = "done"
=============================================================================
