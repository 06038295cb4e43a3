# cpp-httplib in TLA+

TLA+ modules, TLC configurations and TLAPS proofs for `httplib.h`, the
single-header HTTP library, and for the robot plugin framework that lives beside
it in this repository. Every definition is read from the code; line numbers
below are those of `src/httplib.h` unless another file is named. `PROJECT.json`
holds the line-by-line correspondence, the hazards and, for every property, a
wrong variant of one definition that breaks it.

Check a run with `tlc -config <cfg> <module>.tla`, the proofs with
`tlapm <module>.tla` for `QueueLemmas` and each module whose name ends in `Proofs`.

## 1. Inventory

| Component | State | Operations | Talks to |
|---|---|---|---|
| Thread pool (1474-1514, 10087-10228) | queue of jobs, base, dynamic and finished threads, idle count, shutdown flag; one mutex, one condition variable | constructor (with rollback), `enqueue`, `worker`, `shutdown` | the server hands it connections |
| Server life cycle (11193-11230, 11753-11856) | atomics `svr_sock_`, `is_running_`, `is_decommissioned`; the listening socket | `bind_to_port`, `bind_to_any_port`, `listen`, `stop`, `decommission`, `wait_until_ready` | task queue, kernel, any thread that stops it |
| Server connection (5616-5681, 12127-12438) | the stream's read-ahead buffer, the keep-alive countdown, `connection_closed`, `body_consumed_` | the keep-alive loop, `process_request`: parse, refuse, Expect, upgrade, route, read, answer, drain | pool thread, client, user handlers, WebSocket |
| Ranges, static files (7676-7782, 8505-8605, 11582-11731) | the ranges of a request; file, its mapping | parse, check, join, write ranges; mount points, conditional requests | connection, file system |
| Multipart (7841-8160) | parser state, buffer; the client's segments | make a form, feed the parser | connection, client |
| Transfer of bodies (7180-7600) | reader, writer, chunk state, trailers | `write_content*`, `read_content*` | connection, client |
| Client (12439-13944, 14792-14896) | `socket_`, requests in flight, close-when-done flag; two mutexes | `send_` and the verbs, `stop`, redirect, digest, `open_stream` | server, other threads of the caller |
| SSE client (3663-3730, 4053-4250) | event parser, last id, retry interval, running flag | `start`, `start_async`, `stop`, the loop | client |
| WebSocket (4712-4882, 20019-20344) | closed flag, write mutex, unanswered pings, heartbeat thread, TLS session | `read`, `send`, `close`, heartbeat, destructor | stream of the connection, peer |
| Name resolution and connecting (5682-6346) | list of addresses, shared state of caller and resolver | resolve or give up, try each address | client, server |
| TLS (16000-18770) | sessions, certificate, `ctx_mutex_`, pending bytes | accept, handshake, verify, replace a certificate, read, write, peek | client, server, OpenSSL, wolfSSL, Mbed TLS |
| Plugin manager (`plugin_manager.cpp`) | metadata and a map of records under a shared mutex | scan, load, initialize, start, stop, unload, and each for all | dependency resolver, plugins |
| Dependency resolver (`dependency_resolver.cpp`) | none | load order, missing dependencies, cycles | plugin manager |
| Event bus, service registry (`event_bus.h`, `service_registry.h`) | subscriptions, services; a shared mutex each | subscribe, publish, unsubscribe, register, look up | plugins |
| Debug server (`examples/debug_server`, `mujoco_hardware_plugin.cpp`) | two `std::thread` members, flags, the plugin | the routes, trajectories, simulation, signal | HTTP server, plugin manager |
| Routing; other plugins, examples, benchmarks, docs | | | not modelled, section 8 |

What is hard in this code: the pool's threads come and go under one condition
variable that is notified outside the mutex; `stop()` shares three atomics, and
no lock, with the listening thread; the requests of a connection share one byte
stream, of which each may leave something behind or take too much; the client
closes a socket that another thread may be using; a WebSocket's heartbeat,
reader and closer write to one stream; a resolver answers after its caller gave
up; bodies, forms and records are cut anywhere; files and certificates are
replaced while they are used; plugins are unloaded by one thread and started by
another. `PROJECT.json` lists each of these hazards at its line, with the
properties that would catch it.

## 2. Modules

| Module | Models | Run by |
|---|---|---|
| `TaskQueue` | `class TaskQueue`, abstract: accept, start in order, finish, close | `ThreadPool` implements it, `ServerLifecycle` uses it |
| `ThreadPool` | `class ThreadPool` | `MCThreadPool` |
| `ServerLifecycle` | bind, listen, accept loop, stop, wait; the keep-alive loop of each connection | `MCServerLifecycle` |
| `ServerConnection` | the requests of one connection: the inside of `ServerLifecycle`'s step `RequestServed` | `MCServerConnection` |
| `Client` | `ClientImpl`, `SSLClient`, streams | `MCClient` |
| `WebSocket` | `ws::WebSocket`, `ws::WebSocketClient` | `MCWebSocket` |
| `Multipart`, `Ranges`, `Transfer`, `FileServing` | what becomes of a body | `MCContent` |
| `Content` | these four side by side | `MCContent` |
| `Dial`, `TlsServer`, `TlsClient`, `TlsStream`, `EventStream` | the edges of a connection | `MCNetwork` (`TlsClient` also alone) |
| `Network` | these five side by side | `MCNetwork` |
| `DependencyResolver`, `PluginManager`, `Services`, `DebugServer` | the robot framework | `MCRobot` |
| `Robot` | these side by side | `MCRobot` |
| `ServerConnectionProofs`, `ClientProofs`, `WebSocketProofs`, `NetworkProofs`, `RobotProofs` | theorems about the module they are named after | |
| `ServerProofs` | theorems about `ServerLifecycle`, and about `Content`: ranges, bodies, files | |
| `PoolAndFormProofs` | theorems about `ThreadPool`, and about `Content`: forms | |
| `QueueLemmas` | facts about sequences, paths and texts, for the proofs | |

`Content`, `Network` and `Robot` put components that share no state into
one state space: the variable `part` says which of them a behaviour is about, and
the variables of the others keep one value. A property of such a module is the
conjunction of the parts' properties, each under its `part`.

### Server side

**ThreadPool.** One action is one critical section of `mutex_`, or one step
outside it. `wpc[w]` says where a worker is: `start` (before the lock), `waiting`
(in the condition variable), `woken` or `timedout` (on its way back to the
mutex), `running`, `leaving`, `exited`. The increment and decrement of
`idle_thread_count_` around a wait that does not wait cancel out
(`ProceedAtOnce`). The two places that join threads while they hold the mutex
(`cleanup_finished_threads` in `enqueue` and in `shutdown`) hold `mutex_` across
steps, so a deadlock through them would be found. `std::thread` may throw, in the
constructor (whose catch block is modelled) and in `enqueue`. Spurious wakeups
are included. `outcome`, `runs` and `done` are history variables.

**ServerLifecycle.** Every load and store of the three atomics is a step. The
kernel keeps a state for each listening socket; a socket has an identity of its
own, descriptor numbers are not reused. `accept` on a socket that was shut down
or closed fails; it may also fail for good by itself (`AcceptMayFail`).
`decommission()` (11230) is a bare store that any thread may do at any time. The task
queue is the abstract one, whose constructor and `enqueue` may throw
(`ThreadsMayFail`, as in `ThreadPool`): the first leaves `listen()` (`ListenThrows`:
11786-11791), the second destroys the queue while its threads are joinable, which
ends the process (`aborted`). The code drops an open listening socket in three ways,
each recorded in `abandoned`: `getsockname` fails after the bind, `decommission()`
comes between bind and listen (11784), the queue cannot be built. A connection goes through `first` (keep_alive's first
select), `loop`, `serving`, `closing`.

**ServerConnection.** The byte stream is a sequence of tokens: the head of a
request (one token), the rest of a head that does not parse, and the units of its
body. A unit is what a reader of lines makes of it: the size line of a chunk, the
line of the last one, an empty line, a trailer field, or anything else. Data are made
of the same units, so a reader that is out of step takes data for sizes. `dec` is
where the reader is: `Start` a new one, `After` what it makes of one more unit, `Over`
that it has counted more than `payload_max_length_`. A Content-Length counts units.
`ReceiverStops` may happen after any read, inside a chunk too; the drain is a new
reader with a new count from wherever the first one stopped (12403), and may succeed
in the middle of a body as well as fail. A request kind says how it is framed (an
invalid Content-Length, `badLength`, and a Transfer-Encoding other than exactly
"chunked", `other`, are among the framings: neither is drained), whether it is refused
and why, whether it arrives in pieces and how much of its body the handler reads. A
response "refused" is the 400 or 413 of a body that could not be read. `rbuf` is the
read-ahead buffer of the `SocketStream` object, which lives for one request. The client is well-behaved: it waits for the final response before it
sends the next request, waits for 100 Continue when it expects it, and stops when
the server announces a close. Left out: error handlers that turn an error into
another status; a receiver that is called twice. A build without SSL also reads what
follows an unframed request of a connection that closes anyway (11532-11556): `BeginRead`
does so for the framing `other`.

### Client side

**Client.** A request runs under `request_mutex_`; `socket_mutex_` is held only
to prepare the connection and to give it back, and those two critical sections
are the steps `Prepare` and `Exit`. Redirects and digest challenges call `send_`
from inside `handle_request`, so each thread has a stack of frames. Between any
two steps another thread may call `stop()` or `set_proxy()`, the peer may answer or
close. `open_stream` takes no `request_mutex_`: `StreamsOverlap` says whether it may
run beside a request of another thread (it may not, in the run; the class does
not exclude it, and both then use one connection). `set_proxy` disconnects without a
lock (14897-14900); `SetProxy` comes between requests, as configuration does.

**WebSocket.** One end, with three threads (application, a sender, the
heartbeat), and a peer that keeps to RFC 6455, or drops the connection, or breaks
the rules. A frame is written whole under `write_mutex_`; `closed_` is set by
each thread on its own; the heartbeat counts a ping after it was sent (20190). While
`close()` waits for the peer's Close, which it does for one read timeout after each
frame (20154-20156), the peer may send without end (`MayChatter`).

**EventStream.** The server's feed and its resumption after Last-Event-ID are
the environment; a connection breaks anywhere, chunks end anywhere, statuses
other than 200 come at any time. `stop()` meets the loop in every state, the wait
for reconnection included. The client's buffer and what is under way are two places
in the feed, so a chunk is any later place. Events have an id of their own and data;
the first line of the data is not empty, because `parse_sse_line` drops such a line
(4101) and the handler then gets less than was sent. One owner calls `start`,
`start_async` and `stop`, one after the other: a second `start_async` while the thread
of the first is still joinable, also when its loop has ended (4058), ends the process,
and is left out.

**Dial.** `create_socket`: the four builds of `getaddrinfo_with_timeout`, who owns
the list of addresses, the addresses tried one after the other with their
sockets, the interface bound to, the poll.

**TlsServer, TlsClient, TlsStream.** What httplib does around the libraries.
The libraries themselves are external: a session takes the certificate when it
is made (OpenSSL) or during the handshake (Mbed TLS); records arrive in pieces;
decrypted bytes may wait in a session while the socket shows nothing. An update may
bring a bad certificate, a bad key, a bad client CA, or a key that is another
certificate's (`otherKey`): OpenSSL has then replaced the certificate already
(17472), and the context is left without a key unless the old one fits (`keyless`).
`is_peer_closed` peeks with OpenSSL and wolfSSL, and reads a byte with Mbed TLS; of a
connection that broke, OpenSSL does not say that it is closed, the others do.

### Bodies

**Multipart.** Both senders of a form and `FormDataParser`, the buffer fed in
pieces of any size. A byte is a string and a header line one byte; contents begin
like a boundary (`\r\n--`, `\r\r\n--x`). **Ranges** follows the list of ranges
from the header to the bytes written. **Transfer** has the three framings with
writer, wire and reader; the connection may end, and writes fail, anywhere.
**FileServing** has a file that is replaced, touched or cut while it is served,
and a client that revalidates and resumes.

### Robot framework

**PluginManager** with **DependencyResolver** (as functions over the graph of the
metadata): each critical section of `mutex_` is a step; operations that take it
several times are sequences of steps. Hooks may fail, by returning false: an `unload()`
that throws would leave its object and the rest of a batch undestroyed
(`plugin_manager.cpp:209`, `390`), and is left out. **Services**: `publish` runs
handlers under the shared lock, so a writer waits for all of them. **DebugServer**:
two request threads, the trajectory, the simulation, the server and the main
thread. What is undefined behaviour or ends the process is recorded in `crashed`.
Memory and threads may run out (`MayThrow`): `executeTrajectory` then ends in its catch
blocks (`debug_api.cpp:556-562`), `startSimulation` leaves `simulating_` set without a
thread (`mujoco_hardware_plugin.cpp:220`), main ends. Starting a plugin is the sequence
of critical sections it is in the code (`debug_api.cpp:250-266`). The model has one
plugin object: a plugin is loaded again only when nobody holds the destroyed one
(`Unused`), nor while it is being destroyed; who uses a destroyed plugin is in
`overlapped` before that. One signal may come at any step of main, before there is a
server or on its way out included; a second one during the first is left out.

## 3. Runs

| Run | Shows | Instance |
|---|---|---|
| `pool` | the pool's safety, that it implements `TaskQueue`, that accepted jobs run and threads end | 1 base thread, maximum 2, 3 identities, 2 jobs, 2 callers, queue limit 1, threads may fail to start |
| `server_safety` | races of two `stop()` with a server that listens twice | 2 connections, 2 stoppers, 2 binds, keep-alive limit 2; binds and threads may fail |
| `server_live` | `stop()` ends a running `listen()`; `wait_until_ready()` returns | 1 connection, 1 stopper, 1 waiter, 2 binds; accept, binds and threads may fail |
| `conn` | framing, one final response, announced close, the connection ends | 2 requests of 23 kinds, bodies of up to 9 units, a limit of 2 units of data, keep-alive counts from 1 to 3 |
| `client` | no connection is closed or taken under a request, only a clean one is kept, responses match | 2 threads, 2 connections, one call each with one redirect and one challenge, 7 settings (plain, redirect, digest, TLS of two back ends, tunnel, compression, no keep-alive) |
| `websocket` | close, reading, heartbeat, destruction | a server's end over TLS, a client's that enforces pongs, one that does not; up to 2 messages, sends and pings each way |
| `content` | forms, ranges, transfers, files | forms of up to 3 parts in any pieces; up to 2 arbitrary ranges of contents of 0 to 4 bytes, and lists at and beyond the limit of 4; bodies of 4 bytes; 3 versions of a file |
| `network` | dialling, TLS, event streams | 3 addresses; 2 threads, 2 connections and a certificate update; 2 client attempts; 3 records; 3 events and 4 connects |
| `robot` | plugins, bus, debug server | 2 plugins, 2 threads of 2 calls; 4 bus operations; 2 requests of 23 kinds and a trajectory of one step |
| `stop_lost` | violated: after `stop()`, `listen()` returns | 1 bind, 1 stopper |
| `drain_restarts` | violated: the drain spares the next request | 2 requests |
| `hostname_check` | violated: without the host name check only the chain is validated | 2 attempts |

Why the bounds are enough. *Pool*: its races involve one enqueue, one timeout and
one notification, or two enqueues; two jobs fill a queue of one beside a running
job, and the third identity is what a second dynamic thread, or one made again
after a join, needs; a larger pool is what the proofs are for. *Life cycle*: a
third `stop()` can do nothing a second cannot; the second bind is where leftovers
of the first server would show. *Connection*: a property can only break in what
one request leaves to the next, and bodies are as long as it takes to stop inside a
chunk, to find a last chunk in the data, and to pass the limit inside a chunk or at the
end of one. *Client*: two connections are what it takes to return the wrong one, one
redirect and one challenge are the two ways to nest. *WebSocket*: one frame of the
peer's own may be under way (`InFlight`), beside its answers; two pings reach
the limit of missed pongs. *Content*: a piece may be one byte, so every cut
occurs. *Network*: three addresses are a first, a middle and a last one; four
connects allow a failure, a success and a failure again. *Robot*: two plugins are
a dependency, two threads a race; of the two request threads one gets every
request and the other those that change something, since two that only read do
not meet.

Where a property has a premise, it says what the code relies on:

* `Orderly` (`ServerConnection`) has three parts. `Careful`: every request but the last
  has a handler that reads the whole body, or none of a body that arrived together
  with its head. `Undrained`: what is never drained (a head that does not parse, an
  upgrade with a body that the pre-routing handler answers, an invalid Content-Length,
  another Transfer-Encoding) arrived whole and expects no 100. `Misread`: no chunked
  body was read in part, by its handler or up to a failure, since the drain then
  starts in the middle, takes data for sizes and may stop there. Outside it the drain
  (12401-12408) and the buffer's lifetime (5677) lose bytes of the next request, or
  leave some of a body to be answered as a request; `drain_restarts` shows the first.
* `StopIsNotAnError`, and closing once in `ListenersAccounted`: servers whose `accept`
  fails only because of `stop()`. A listening socket that is left open is one of
  the three in `abandoned`. `WaitReturns` excepts a `stop()` in between, and a `listen()`
  that an exception leaves: `is_running_` was set too briefly, `is_decommissioned` never.
* `EndReturns` (`WebSocket`): `PeerStops`, the peer falls silent in the end. Each of its
  frames renews the timeout of the wait in `close()`, so that against a peer that keeps
  sending `close()` need not return, nor the destructor that joins a heartbeat in it
  (`EndReturnsAlways`, in no run).
* `ReadsAreWhole` (`WebSocket`): while nobody reads beside the application. A heartbeat
  that gives up does, in `close()`; what the application then reads is not claimed.
* `BodiesArrive` (`Transfer`): a provider writes no more than the length it announced
  (7442-7459 do not look); the end of an unframed body is that of its connection,
  which the response's author must see to (write_response_core does not).
* `CopyIsOneVersion` (`FileServing`): not when the file changed between stat and open,
  or was written in place while any part of the copy was sent. (A copy that was spoilt
  stays so when the download goes on: the attempt to prove the property without that
  ended in a counterexample, three blocks of which one was sent after the write.)
* `StopPrecedesUnload` (`PluginManager`): not when another thread started the plugin
  after it was looked at; `CrashNeedsOverlap` (`DebugServer`): nothing less than two
  requests that overlap does harm. `ManualStepping` and `SimulationComesBack`: not after
  two of them overlapped, which may leave a simulation thread that `simulating_`
  knows nothing of; that takes a third request, one more than the run has. An exception
  that ends a trajectory leaves the simulation as it is, stopped most often, so
  `SimulationComesBack` says of such an end only that the next trajectory is not
  refused. Also excepted from `CrashNeedsOverlap`: main cannot start a thread, and a
  trajectory that a request launches after `~DebugAPI` has joined the motion thread and
  before it has stopped the server.
* `BytesInOrder` (`TlsStream`): not for Mbed TLS sessions that write (section 5).
* `CertificateIsWhole` (`TlsServer`): OpenSSL; the context may be without a certificate
  or key after an update whose key is another certificate's. `UnreadIsAlive`
  (`TlsStream`): of the back ends that peek; only OpenSSL's verdict says besides that the
  peer has closed in order. `NameIsOwnOrLeftOver`: with Mbed TLS the
  name may be one that a failed handshake of the same thread left.

CHECK_DEADLOCK FALSE stands where behaviours end: clients that make their calls and
stop, a WebSocket that is gone, a body that was read.

## 4. Fairness

* `ThreadPool`: strong fairness of each worker's own steps and timeouts, since
  the mutex is contended but never held for ever, jobs return, and the deadline
  of `wait_for` is absolute; weak fairness of a caller inside `enqueue`; nobody has
  to call anything, no wakeup has to be spurious.
* `ServerLifecycle`: weak fairness of each thread inside a call, and of the queue's
  threads (that is `AcceptedJobRuns` of the pool). An `accept` that returns because
  of its idle interval is not required.
* `ServerConnection`: the server's thread runs, and each of its waits ends with data
  or a timeout. The client owes nothing.
* `Client`: weak fairness of each thread inside a call, since reads time out; peer,
  callers and `stop()` owe nothing.
* `WebSocket`: weak fairness of the application's thread inside `read`, `close()` and the
  destructor, whose reads and waits time out, and of the heartbeat. The peer owes
  nothing, nor has the application to leave.
* `Dial`: weak fairness of the caller. The resolver need not ever answer; `ComesBack`
  is about the builds that can abandon it ("inline", and "gai" once the resolver
  has begun, wait).
* `TlsServer`: pool threads run, handshakes end or time out. `EventStream`: the loop
  and the join of `stop()`; the server owes nothing.
* `Services`: weak fairness of a thread inside `publish` (handlers return), strong
  fairness of one that waits for the exclusive lock.
* `DebugServer`: weak fairness of each thread separately; requests and signals need
  not come.

In the composed modules fairness of a part that is off asks nothing: its actions
are not enabled.

## 5. Findings, and claims that the code does not keep

Three runs refute something the repository says; `PROJECT.json` quotes the lines:

* a `stop()` between bind and `is_running_ = true` is lost (11221);
* the drain of a partly read body starts over and takes the next request's bytes
  (12403);
* with Mbed TLS the host name is checked although the check was turned off (16142).

Modelling showed more disagreements. Those that are a property are stated in the
module, under the comment "A claim that the code does not keep" or "In no run", and
what the code does keep instead is checked:

| Definition | Claim | What the code does |
|---|---|---|
| `ThreadPool!SpawnsWhenAllBusy` | temporary threads when all are busy (README-websocket.md) | a worker that was notified still counts as idle |
| `ServerLifecycle!StopAssertion` | `svr_sock_` is valid in `stop()` (11222) | a second `stop()` finds it exchanged |
| `ServerLifecycle!KeepAliveSeesClosedSocket` | a closed server socket ends idle connections | after an accept error `svr_sock_` keeps the closed number |
| `ServerConnection!ErrorsEndConnection` | no connection stays open after an error | the header announces a close, the loop goes on; an expect handler's 417 is followed by a second response |
| `Client!StopIsHonoured` | a stopped call sends nothing more | a nested `send_` clears the flag (12694) |
| `Client!PeekTakesNothing`, `TlsStream!CheckIsHarmless` | looking for a closed peer loses nothing (18388) | with Mbed TLS it reads a byte and drops it |
| `Client!SuccessHasNoError` | a response comes without an error | an error of an earlier attempt may remain in it |
| `WebSocket!PongTimeoutReal` | closes when that many pings are unanswered | the count may be one too high |
| `Transfer!SuccessMeansDone` | success means `done()` (7551) | an empty write ends the loop |
| `FileServing!PartialIsValid` | a 206 is of the version If-Range names | stat and open may see different files |
| `TlsServer!AlwaysACertificate` | handshakes see the old or the new certificate (t03-ssl-server.md:63) | with Mbed TLS there may be none for a moment |
| `TlsServer!NameIsOwn` | the session has its own SNI name (17767) | a failed handshake's name stays in the thread |
| `PluginManager!NeverUnloadedRunning` | stop, then unload | another thread may start it in between |
| `DebugServer!NoMotionIsTrue`, `StartFailureIsReported` | what the messages say | a trajectory may be about to begin; `std::terminate` |

Smaller observations from the same reading, without a definition: a text behind
the last boundary of a form is refused unless it is CRLF; a form without parts is
refused; a suffix range longer than the content and any range of a stream are
answered 416; a handler with a content provider and a status of its own other
than 200 and 206 gets ranges that were never checked, so the assertions of
`get_range_offset_and_length` (8514) can fail, and with 200 the whole length is
announced and the ranges are written; a first position of a range with more digits
than fit is taken as left out, so `bytes=<huge>-2` is answered with the last two
bytes (7812); the redirect to a directory's index
drops the mount point; a mapped file that is cut while it is sent ends the process
with SIGBUS; `std::call_once` in the TLS client remembers that the CA was tried,
not that it failed; `shutdown_and_close` of a `WebSocketClient` over TLS frees the
session (20248) on which the goodbye is then written (20257); in the TLS stream's
retry loop `error_` is left unset when the retries run out.

## 6. Proofs

A proof module states a component's inductive invariant as `IInv`, shows
`Init => IInv` and `IInv /\ [Next]_vars => IInv'` action by action, and derives the
properties that the runs check. TLC checked each `IInv` on the run's instance
first, but for `FormInv`, which says that there is a text of any length. `QueueLemmas`
holds the facts about sequences that several of them need: what `Head`, `Tail`, `Append`
and `\o` do to the elements and to their being distinct; sequences read as paths of an
automaton; where in a long text a short one lies, and what `FlattenSeq` makes of a list.

| Module | Property of a run | Theorem | Hypothesis |
|---|---|---|---|
| `PoolAndFormProofs` | `TypeOK`, `IdleCountExact`, `StartedOnce`, `NoThreadOutlivesPool`, `ShutdownDrains` | `PoolTypes`, `PoolIdleCount`, `PoolStartsOnce`, `PoolThreadsJoined`, `PoolDrains` | |
| | `ThreadsBounded`, `NoStrandedJob` | `PoolThreadsBounded`, `PoolStrandsNoJob` | |
| | `ImplementsTaskQueue` | `PoolImplementsTaskQueue` | `BaseCount > 0` |
| | `FormsArrive` | `FormsArriveAlways` | |
| `ServerProofs` | `CopiesAreTrue`, `BodiesArrive` | `CopiesAreTrueAlways`, `BodiesArriveAlways` | |
| | `RangesServed` | `RangesServedAlways` | `ProvidersArePartial`, `FirstsFit` |
| | `StopIsNotAnError`, `ListenersAccounted`, `NoConnectionOutlivesListen` | `CleanShutdown`, `ListenersAreAccounted`, `ListenOutlivesConnections` | |
| `ServerConnectionProofs` | `LastIsAnnounced` | `LastResponseSaysClose` | |
| | `InStep`, `NoRequestLost`, `OneFinalResponse` | `ConnectionInStep`, `RequestsReachTheServer`, `ResponsesInOrder` | `"417" \notin ExpectStatuses` |
| `ClientProofs` | `UsersAreSafe`, `IdleIsClean`, `ResponsesMatch` | `UsersKeepTheirConnection`, `KeptConnectionIsClean`, `AnswersAreOwn` | `~StreamsOverlap` |
| `WebSocketProofs` | `ClosesOnce`, `ReadsAreWhole`, `PongTimeoutNearlyReal` | `EndClosesOnce`, `MessagesArriveWhole`, `GivesUpForAReason` | |
| | `EndsInOrder` | `NothingUsedAfterItsEnd` | TLS only at servers' ends |
| `NetworkProofs` | `CallLeavesNothing`, `TlsSound`, `EventsInOrder` | `CallIsClean`, `TlsIsSound`, `EventsArriveInOrder` | |
| `RobotProofs` | `DebugServerSound`, `PluginsSound` | `DebugServerIsSound`, `PluginsAreSound` | |
| | `ServicesSound`, a part of `FrameworkSteps` | `ServicesAreSound` | |

Every theorem is for all values of the constants that the module's named
assumption admits: any number of threads, callers, jobs, connections, requests,
frames, addresses, plugins or requests. The assumptions say that the constants are of
the kind they are meant to be: bounds are numbers, actors are different threads,
plugin names are finitely many and ordered, what is on disk goes by such names. The
hypotheses in the table say where the code itself does not keep the property:

* *A base thread.* With a base count of 0, which the constructor admits, nobody takes
  a job whose `std::thread` throws in `enqueue`, and `shutdown` returns with the job
  still queued; the abstract queue closes empty.
* *No 417.* When the expect handler answers 417 (12228-12238), the request goes on and
  gets a second final response; section 5 lists it.
* *Streams wait.* `open_stream` takes no `request_mutex_` and two threads may then use
  one connection; the hazard of `stop()` and a running request notes it.
* *TLS at servers' ends.* `shutdown_and_close` frees the session of a `WebSocketClient`
  over TLS before it says goodbye on it (20247-20257): such an end does not keep
  `SessionInUse`, and is not among the run's ends either (section 5).

* *Providers are partial, firsts fit.* A handler that gives a content provider and sets
  a status other than 206, and a first position that does not fit a `ssize_t`, are
  served wrongly (section 5).

**PoolAndFormProofs: the pool.** Type correctness is not inductive: `idle_thread_count_ - 1` stays
in `Nat` only because the count is exact, and it is exact only together with the
places of the workers. `IInv` therefore joins the types and the count with: a
worker holds a job exactly while it runs it (`RunningHasJob`); who holds the mutex
across steps (`MutexInv`); how the phases of Main relate to `shutdown_` and the lists
(`PhaseInv`); in which list each thread is (`ThreadInv`); what has been joined
(`JoinInv`); that an accepted job is queued, running or done (`JobInv`).
`ShutdownDrains` follows: with a base thread, which has exited, the queue is empty;
no worker runs anything; so an accepted job is done.

Three more invariants stand on it. `BoundInv`: a caller about to start a thread has
seen the lists below the maximum, and nobody else can add to them while it holds
the mutex. `StrandInv`: the jobs are no more than the workers on their way to the
queue and the callers past their push, as long as somebody sleeps; the step that
needs an argument is the caller whose `std::thread` throws, which leaves a job without
a notification, and there nobody sleeps, since a thread is started only when none
is idle and none can begin to wait while the mutex is held. `PlacesInv`: what is
running or done was started, and no two workers run one job. With it every step
of the pool maps to one of `TaskQueue` or to a stutter, under `active` = the jobs in
workers' hands, and `phase` from `shutdown_` and the end of Main.

**ServerProofs: the life cycle.** `SocketOwners`: an open listening socket is `svr_sock_`, or in
the hands of a `stop()` that exchanged it, or in `abandoned`, which grows only in the
three steps that drop one.
`StopOwns`, for servers whose `accept` fails only because of `stop()`: the sockets of
the stop() calls and `svr_sock_` are all different, each is closed as often as its
state says, and whenever `accept` fails the listener finds `svr_sock_` invalid.
`TasksKnown`: a connection is in the queue, on a thread or with the listener, and its
state says which; when the queue has closed it holds nothing.

**ServerProofs: files.** `Asked`: a request names the versions of the client's copy or
none. `Accepted`: between stat and open, a copy that goes on does so with a file that
is no younger. `Mapping`: as long as nobody has written in place, the mapping has the
size of the response and the content of the label. `Ordered`: each block of a copy is
no younger than those before it, and none is older than the label. `Unmodified`: what
a 304 was decided on. Versions are only added, so what was said of one stays true
(`DiskKeeps`, the lemma about every step of the owner of the files).

**ServerProofs: bodies.** The wire is read twice. `Counting` looks at bytes only: whatever
is cut or could not be written, the bytes on the wire go on where the reader's end
(`BytesFollow`), and a terminator is there only when the provider was done. `Chunking`
is the grammar of chunks and trailers: as long as nothing has failed, the wire leads
from the reader's place to the writer's (`ChunksFollow`), so the reader, which can stop
anywhere on that path, never meets what it would refuse. The first gives
`NeverTruncated`, both together `SuccessIsRead` and `TrailersFiltered`. `Path` says that
there are states, one for each place between two units, with a transition over
each unit; what a write adds is a path of its own (`ChunkCounts`, `ChunkReads`, `EndReads`), a cut leaves
a path to somewhere, a read takes its beginning away. `TransferAssumption` asks only
that the numbers are numbers and that a response has finitely many trailers.

**ServerProofs: ranges.** `RangesPlace` says what the list of ranges is at each step: those
of the header (`Parsed`), then those of the content (`Served`). Between the two stands
`coalesce_ranges`. Sorting permutes (`SortedIs`; that an injection of a finite set into
itself reaches everything). What `Join` has made of the first k ranges (`Coalesced`)
covers the same positions and is apart, unless two ranges are the same; the
strengthening it needs is that the last range ends where one of those joined does,
which begins no earlier, so that an identical range can only meet its twin. The fold
over the list is a recursive function; that it exists, and the induction along it,
are by a least counterexample (`JoinedExists`, `JoinedIs`).

**PoolAndFormProofs: forms.** `FormInv`: a form is one text `w` (`TextExists`), and there are
places `p <= q <= s` in it. The parser has used up what lies before `p`, its buffer is
what lies from `p` to `q`, the wire from `q` to `s`, and what the sender has still to
say goes on at `s`: its segments one behind the other (`Strung`), or a place in the
streamed item (`StreamAt`). `AtPlace` says where in which part `p` is, for each state of
the parser, and `PartsHeld` that the parts before it are those sent. What `buf_find` finds
is given by `FindIs`: the first place where the delimiter is, or else the first from
which the rest of the buffer is a beginning of it. `BodyEndsKeeps` and `BodyGoesOnKeeps`
use it on a content: a delimiter ends in the boundary's byte, a content has none, so
the first one found is the true one; and what is handed on when none is found is only
bytes of the content, also when they look like a delimiter's beginning. A line end
inside a content is no delimiter and one inside a header line does not occur. The
verdict (`FormVerdict`) then follows: a form is taken only when the text is used up.
`MultipartAssumption` asks for contents and preambles without the boundary's byte
(`make_multipart_data_boundary` draws it at random, and the sender does not look whether
a content has it), for header lines without a line end, and for the client's epilogue.

**ServerConnectionProofs.** The properties are about the moments between two requests;
what carries them from one to the next is an account of every token. The server
has taken all requests that were sent (`Taken`) or all but the newest (`Pending`). In
the first case `OwnBody` says what of the current request may still be on the
stream, in the second `HeadWaits` says that the newest one lies behind what is left
of the current one, beginning with its head. `InTurn` accounts for the responses.
`Within` and `Exactly` relate what is left to `dec`: each unit carries where its sender
was, the units of a body follow each other as the decoder expects
(`ConnectionAssumption`), and the next one on the stream is the one that `dec` waits for;
so a reader that began where a body begins ends where it ends, whatever the data look
like (of a length only the number counts). All of it is under `Orderly`, as the
properties are, and for a loop that will go on (`Alive`). The drain is a new reader,
which is why the premise excludes chunked bodies of which some was read, and why what is
never drained must lie in the buffer that goes away.

**ClientProofs.** `Threads`: the thread in a call holds `request_mutex_` and has frames,
and every frame has a connection but a top one that is being prepared or has
returned it. `InFlight`: `socket_requests_in_flight_` is their number. `Owners`: who
talks does so on `socket_`, which is open, and the handles of streams have other
connections. `Exchanges`: a connection holds at most one request and its answer,
for whoever waits, and nothing at all when nobody does. `stop()` and `Disconnect` are
steps of this invariant at every place of every thread.

**WebSocketProofs.** `OneCloser`: whoever sets `closed_` will write the Close frame, and
nobody else does; it holds because `close()` and both echoes exchange `closed_`
(20051, 20089, 20132). `OnTheWay`: the frames on the wire lead from what
the caller has been handed to what the peer has said. `PingsCounted`: pongs read
and pongs on the wire answer pings that the peer has heard, so the count of
unanswered pings is too high by the one being counted at most.

**NetworkProofs.** The parts of `Network` share no variable, so the invariant of the whole
is theirs, each under its `part`. *Dial*: `ResolverPlace` says where the resolver may be
for each place of the caller and each build; `ListOwner`; `SocketPlace`: the result is
set only on the way out; `WaitPlace`: no timeout has passed before one is waited for.
*TlsServer*: `OneThread`, one thread for each open connection and one connection for
each busy thread; a session is alive only on an open socket (`SessionPlace`);
`Certificates`: with OpenSSL a session uses the certificate it was created with, if it
got one, and no handshake is done without; the context has one at every step of an
update until one is `keyless`; `NamesKept`: with Mbed TLS the thread's
variable holds the name of its own handshake unless one failed on that thread, from
which `NameIsKept` follows, an action property. *TlsClient*: `ChecksPlace` says at each
place of `initialize_ssl` what the checks before it have let pass. *TlsStream*: what the
application has and what the session still holds are together what the peer sent up
to the last record taken (`BytesInOrder`, here for records and buffers of any size);
`CleanEnd`; `Verdicts`, about every answer that `is_peer_closed` has given.
*EventStream*: while a connection is read, `current_msg` is what the lines before the
buffer's place make of the next event (`ReadingPlace`, with `Parsed` for that message
and `ParsedLine` for what one more line does to it); `HandedInOrder`: `last_event_id_`
is the id of the last event handed over, so that the server goes on where the client
stands (`ResumesAfterHanded`); `AttemptsCounted` for the bound on failures.

**RobotProofs: the debug server.** What protects the thread objects is where everybody is.
`SimulationPlace`: the simulation thread is what the one actor inside start- or
stopSimulation has made of it so far, and in step with `simulating_` when nobody is.
`PluginPlace`: a plugin out of the map belongs to one handler, a hook runs on one.
`ServerPlace`: Main is inside the plugin only while nobody serves. `TrajectoryPlace`:
what the handlers that replace the trajectory thread have found. All this holds
until two operations overlap. The proof changed the model's properties: with
three requests, one more than the run has, a stop between another's two stores
leaves a simulation thread that `simulating_` knows nothing of, after which a
trajectory does not step alone; `ManualStepping` and `SimulationComesBack` say so now.
`SimulationReturns` proves the second, with an invariant of its own (`Executing`): where
the trajectory thread may end, `motion_executing_` is false.

**RobotProofs: the plugin manager.** `OneOwner` counts records and threads; what is
inductive is who has which object. `RecordsOwn`: a record's object fits the record's
state and is no other record's. `HeldOnce`: what a thread took out of the map to
destroy it is alive, in no record and with no other thread. `NoneLost`: what is alive
is in one of the two places. Each critical section is one lemma about the map and the
objects (`LoadKeeps`, `InitializeKeeps`, `StartKeepsStore`, `StopKeepsStore`,
`TakeKeeps`), which the operations that contain it cite. `LookedAt` says what
unloadPlugin and unloadAll still know of the records they looked at, as long as nobody
has started a plugin since (`raced`); from it follow `StopPrecedesUnload`
(`StopsBeforeUnload`) and nothing weaker: without the exception it is false.
`AloneInBatch` says what a batch operation that nobody disturbs has left to do;
`LastCall`, that the destructor's unloadAll is the last call, from which
`NothingOutlivesManager` follows. The batch operations walk a `std::map`; that its order
visits every name (`MapOrderElements`) is an induction over finite sets, made without
the library's induction theorems by taking a least set of names without an order.

**RobotProofs: the bus and the registry.** While anybody publishes nobody writes, so what
a publish has called is a beginning of the list it walks (`Delivers`), also when a
handler throws or publishes itself; a number given up is below `next_id_`, in no list
and never comes back (`Spares`). `remove_if` is a recursive function over the positions
of a list; that it exists, and what it keeps, is shown by a least counterexample
(`Without`).

Only model-checked: load order and completeness of the batch operations; liveness under
fairness, which is beyond the prover; what the recursive functions of the dependency
resolver compute for every input.

## 7. Plan

1. Proofs: the order that Kahn's algorithm finds, an induction over the data.
2. Modelling: `max_timeout` of the client, error handlers that rewrite a status,
   hooks of plugins that throw.

## 8. Not modelled

* Routing (regular expressions, path parameters, handler tables): pure functions
  of a path, fixed while the server listens; the choice of handler is open in
  `ServerConnection`.
* Header, URL, cookie, date, MIME, base64 and JSON parsing and formatting: data the
  properties do not tell apart.
* Compression formats, and everything inside OpenSSL, wolfSSL and Mbed TLS: library
  code, modelled from its use. Certificate stores and inspection of certificates.
* Windows branches, among them the overlapped name query (5760).
* The deadline of `max_timeout`; masking and UTF-8 validation of WebSocket frames,
  which are "bad" or not.
* Reuse of descriptor numbers by other parts of a process.
* Uses that a class leaves unprotected and the models keep apart: `set_proxy` during a
  request, `open_stream` beside a request, a second `start_async`, providers that write
  more than they announced, plugins whose `unload()` throws, a second signal.
* Kinematics and planning of the debug server; the other example plugins,
  examples, benchmarks, stress tests, the documentation generator and build files.
