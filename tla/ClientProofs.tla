---------------------------- MODULE ClientProofs -----------------------------
(***************************************************************************)
(* Proofs about Client for every set of threads, connections and settings, *)
(* any number of calls, redirects and challenges: nobody closes or shares  *)
(* a connection in use, what is kept is clean, and responses match.        *)
(*                                                                         *)
(* They need one hypothesis, that open_stream does not run beside another  *)
(* thread's request: the code has nothing that would prevent it, and then  *)
(* takes the connection away from under the request.                       *)
(*                                                                         *)
(* The inductive invariant has four parts.  Threads: the thread in a call  *)
(* has request_mutex_ and frames, and every frame but one that is being    *)
(* prepared or returned has a connection.  InFlight counts those.  Owners: *)
(* the thread that talks does so on socket_, and the handles have other    *)
(* connections.  Exchanges: a connection holds at most one request and its *)
(* answer, and nothing between two requests.                               *)
(***************************************************************************)
EXTENDS Client, QueueLemmas, FiniteSetTheorems

-----------------------------------------------------------------------------
(* Types *)

Messages == [by : Callers \cup {Nobody}, call : Nat, hop : Nat,
             req : [method : Methods, upload : Uploads, expect : BOOLEAN]]
ReplyStatuses == Answers \cup Interim \cup {"failed", "rest", "none"}
Replies == [to : Messages, status : ReplyStatuses, close : BOOLEAN]
Questions == [msg : Messages, whole : BOOLEAN]
Frames == [msg : Messages, conn : Conns \cup {NoConn}, redirects : Nat, auths : Nat,
           second : BOOLEAN, expecting : BOOLEAN, wrote : BOOLEAN,
           after : {"idle", "auth", "exit"}, res : Replies]
Sockets == [fd : {"open", "shut", "closed"}, up : BOOLEAN,
            asked : Seq(Questions), replies : Seq(Replies)]

Scalars ==
    /\ settings \in Settings
    /\ request_mutex_ \in Callers \cup {Nobody}
    /\ socket_ \in Conns \cup {NoConn} /\ session \in BOOLEAN
    /\ socket_requests_in_flight_ \in Nat
    /\ socket_should_be_closed_when_request_is_done_ \in BOOLEAN

Locals ==
    /\ pc \in [Callers -> Labels]
    /\ ret \in [Callers -> BOOLEAN] /\ error \in [Callers -> ErrorNames]
    /\ res \in [Callers -> Replies]
    /\ handle \in [Callers -> Conns \cup {NoConn}]
    /\ calls \in [Callers -> Nat]

Stacks == stack \in [Callers -> Seq(Frames)]
Nets == net \in [Conns -> Sockets]

Types == Scalars /\ Locals /\ Stacks /\ Nets

-----------------------------------------------------------------------------
(* Threads and their frames *)

InStream(t) == pc[t] \in {"stream write", "stream head", "stream body", "stream end"}
InCall(t) == pc[t] # "idle" /\ ~InStream(t)
Talks(t) == pc[t] \in {"write", "peek", "expect", "read"}
\* The frame on top has no connection, yet or any more.
Bare(t) == pc[t] \in {"prepare", "return"}

Framed(t) ==
    \A i \in DOMAIN stack[t] :
       /\ stack[t][i].conn = NoConn <=> Bare(t) /\ i = Len(stack[t])
       /\ stack[t][i].after = "idle" <=> i = 1

Threads ==
    \A t \in Callers :
       /\ InCall(t) <=> stack[t] # <<>>
       /\ InCall(t) <=> request_mutex_ = t
       /\ InStream(t) <=> handle[t] # NoConn
       /\ Framed(t)

InFlight ==
    /\ request_mutex_ = Nobody => socket_requests_in_flight_ = 0
    /\ \A t \in Callers :
         request_mutex_ = t =>
           socket_requests_in_flight_ = IF Bare(t) THEN Len(stack[t]) - 1 ELSE Len(stack[t])
    /\ socket_requests_are_from_thread_ =
         IF socket_requests_in_flight_ = 0 THEN Nobody ELSE request_mutex_

\* Every connection that is used is open and has one user.
Owners ==
    /\ socket_ # NoConn => net[socket_].fd # "closed"
    /\ \A t \in Callers :
         /\ Talks(t) => /\ socket_ # NoConn /\ Top(t).conn = socket_
                        /\ settings.ssl => session
         /\ handle[t] # NoConn => /\ handle[t] # socket_
                                  /\ net[handle[t]].fd # "closed"
    /\ \A s, t \in Callers : handle[s] # NoConn /\ handle[s] = handle[t] => s = t

-----------------------------------------------------------------------------
(* What a connection holds *)

Final(r) == r.status \notin Interim

Empty(s) == s.asked = <<>> /\ s.replies = <<>>

\* At most m and what answers it: an answer that counts is the last.
Holding(s, m) ==
    /\ Len(s.asked) <= 1
    /\ \A i \in DOMAIN s.asked : s.asked[i].msg = m
    /\ \A i \in DOMAIN s.replies :
         /\ s.replies[i].to = m
         /\ Final(s.replies[i]) => i = Len(s.replies) /\ s.asked = <<>>

Clean(c) == Empty(net[c])
Holds(c, m) == Holding(net[c], m)

\* A request whose response thread t waits for, or gave up waiting for.
Outstanding(t) == pc[t] \in {"peek", "expect", "read"} \/ (pc[t] = "exit" /\ ~ret[t])

Conversing(t) ==
    /\ pc[t] \in {"peek", "expect", "read"} =>
         /\ Holds(socket_, Top(t).msg)
         /\ Top(t).expecting /\ ~Top(t).wrote => Clean(socket_)
    /\ pc[t] = "handled" => Top(t).res.to = Top(t).msg

Streaming(t) ==
    /\ pc[t] = "stream write" => Clean(handle[t])
    /\ pc[t] = "stream head" => Holds(handle[t], StreamMessage(t))
    /\ pc[t] = "stream body" => res[t].to = StreamMessage(t)

KeptClean == socket_ # NoConn /\ (\A t \in Callers : ~Outstanding(t)) => Clean(socket_)

Exchanges == (\A t \in Callers : Conversing(t) /\ Streaming(t)) /\ KeptClean

IInv == Types /\ Threads /\ InFlight /\ Owners /\ Exchanges

-----------------------------------------------------------------------------
(* Lemmas about frames *)

\* The last element, and what is before it.
LEMMA LastFront ==
    ASSUME NEW S, NEW s \in Seq(S), s # <<>>
    PROVE  /\ Len(s) \in Nat \ {0} /\ DOMAIN s = 1 .. Len(s)
           /\ Last(s) = s[Len(s)] /\ Last(s) \in S
           /\ Front(s) \in Seq(S) /\ Len(Front(s)) = Len(s) - 1
           /\ DOMAIN Front(s) = 1 .. Len(s) - 1
           /\ \A i \in 1 .. Len(s) - 1 : Front(s)[i] = s[i]
           /\ Front(s) = <<>> <=> Len(s) = 1
<1>1. Len(s) \in Nat \ {0} /\ DOMAIN s = 1 .. Len(s)
  BY TakeFirst
<1>2. Last(s) = s[Len(s)] /\ Last(s) \in S
  BY <1>1, ElementOfSeq DEF Last
<1>3. /\ Front(s) \in Seq(S) /\ Len(Front(s)) = Len(s) - 1
      /\ \A i \in 1 .. Len(s) - 1 : Front(s)[i] = s[i]
  BY <1>1, SubSeqProperties DEF Front
<1>4. DOMAIN Front(s) = 1 .. Len(s) - 1
  BY <1>3, LenProperties
<1>5. Front(s) = <<>> <=> Len(s) = 1
  BY <1>1, <1>3, EmptySeq
<1> QED
  BY <1>1, <1>2, <1>3, <1>4, <1>5

\* Replacing the last element.
WithLast(s, e) == Front(s) \o <<e>>

\* Only the last element changes.
LEMMA LastReplaced ==
    ASSUME NEW S, NEW s \in Seq(S), s # <<>>, NEW e \in S
    PROVE  /\ WithLast(s, e) \in Seq(S) /\ WithLast(s, e) # <<>>
           /\ Len(WithLast(s, e)) = Len(s) /\ DOMAIN WithLast(s, e) = DOMAIN s
           /\ WithLast(s, e)[Len(s)] = e
           /\ \A i \in 1 .. Len(s) - 1 : WithLast(s, e)[i] = s[i]
<1> DEFINE f == Front(s)
           r == WithLast(s, e)
<1>1. /\ Len(s) \in Nat \ {0} /\ DOMAIN s = 1 .. Len(s)
      /\ f \in Seq(S) /\ Len(f) = Len(s) - 1
      /\ \A i \in 1 .. Len(s) - 1 : f[i] = s[i]
  BY LastFront
<1> HIDE DEF f
<1>2. r = Append(f, e)
  BY <1>1 DEF f, WithLast
<1> HIDE DEF r
<1>3. /\ Append(f, e) \in Seq(S) /\ Append(f, e) # <<>>
      /\ Len(Append(f, e)) = Len(f) + 1 /\ DOMAIN Append(f, e) = 1 .. Len(f) + 1
      /\ Append(f, e)[Len(f) + 1] = e
      /\ \A i \in 1 .. Len(f) : Append(f, e)[i] = f[i]
  <2>1. f \in Seq(S)
    BY <1>1
  <2> QED
    BY <2>1, AddLast
<1>4. Len(f) + 1 = Len(s)
  BY <1>1
<1>5. /\ r \in Seq(S) /\ r # <<>> /\ Len(r) = Len(s) /\ DOMAIN r = DOMAIN s
      /\ r[Len(s)] = e /\ \A i \in 1 .. Len(s) - 1 : r[i] = s[i]
  BY <1>1, <1>2, <1>3, <1>4
<1> QED
  BY <1>5 DEF r

\* What happens to a frame leaves it one.
LEMMA FrameUpdates ==
    ASSUME NEW f \in Frames
    PROVE  /\ f.msg \in Messages /\ f.msg.req.expect \in BOOLEAN /\ f.msg.hop \in Nat
           /\ f.redirects \in Nat /\ f.auths \in Nat /\ f.after \in {"idle", "auth", "exit"}
           /\ f.conn \in Conns \cup {NoConn} /\ f.res \in Replies
           /\ \A c \in Conns \cup {NoConn}, w, x \in BOOLEAN :
                [f EXCEPT !.conn = c, !.wrote = w, !.expecting = x] \in Frames
           /\ \A c \in Conns \cup {NoConn} : [f EXCEPT !.conn = c] \in Frames
           /\ [f EXCEPT !.wrote = TRUE] \in Frames
           /\ [f EXCEPT !.expecting = FALSE] \in Frames
           /\ [f EXCEPT !.second = TRUE] \in Frames
           /\ \A r \in Replies : [f EXCEPT !.res = r] \in Frames
           /\ \A r \in Replies, n \in Nat : [f EXCEPT !.res = r, !.redirects = n] \in Frames
           /\ \A s \in ReplyStatuses : [f EXCEPT !.res.status = s, !.res.close = FALSE] \in Frames
<1>1. /\ f.msg \in Messages /\ f.msg.req.expect \in BOOLEAN /\ f.msg.hop \in Nat
      /\ f.redirects \in Nat /\ f.auths \in Nat /\ f.after \in {"idle", "auth", "exit"}
      /\ f.conn \in Conns \cup {NoConn} /\ f.res \in Replies
  BY DEF Frames, Messages
<1>2. /\ \A c \in Conns \cup {NoConn}, w, x \in BOOLEAN :
           [f EXCEPT !.conn = c, !.wrote = w, !.expecting = x] \in Frames
      /\ \A c \in Conns \cup {NoConn} : [f EXCEPT !.conn = c] \in Frames
      /\ [f EXCEPT !.wrote = TRUE] \in Frames
      /\ [f EXCEPT !.expecting = FALSE] \in Frames
      /\ [f EXCEPT !.second = TRUE] \in Frames
  BY DEF Frames
<1>3. /\ \A r \in Replies : [f EXCEPT !.res = r] \in Frames
      /\ \A r \in Replies, n \in Nat : [f EXCEPT !.res = r, !.redirects = n] \in Frames
  BY DEF Frames
<1>4. ASSUME NEW s \in ReplyStatuses
      PROVE  [f EXCEPT !.res.status = s, !.res.close = FALSE] \in Frames
  <2>1. [f.res EXCEPT !.status = s, !.close = FALSE] \in Replies
    BY <1>1 DEF Replies
  <2>2. [f EXCEPT !.res.status = s, !.res.close = FALSE]
          = [f EXCEPT !.res = [f.res EXCEPT !.status = s, !.close = FALSE]]
    BY DEF Frames, Replies
  <2> QED
    BY <1>3, <2>1, <2>2
<1> QED
  BY <1>1, <1>2, <1>3, <1>4

\* Where a thread in a call is.
LEMMA InTheCall ==
    ASSUME Stacks, Threads, NEW t \in Callers, InCall(t)
    PROVE  /\ stack[t] \in Seq(Frames) /\ stack[t] # <<>>
           /\ Len(stack[t]) \in Nat \ {0} /\ DOMAIN stack[t] = 1 .. Len(stack[t])
           /\ Top(t) = stack[t][Len(stack[t])] /\ Top(t) \in Frames
           /\ request_mutex_ = t /\ handle[t] = NoConn
           /\ \A s \in Callers : s # t => stack[s] = <<>> /\ ~InCall(s)
           /\ Top(t).conn = NoConn <=> Bare(t)
<1>1. /\ stack[t] \in Seq(Frames) /\ stack[t] # <<>>
      /\ request_mutex_ = t /\ handle[t] = NoConn
      /\ \A s \in Callers : s # t => stack[s] = <<>> /\ ~InCall(s)
  BY DEF Stacks, Threads, InCall
<1>2. /\ Len(stack[t]) \in Nat \ {0} /\ DOMAIN stack[t] = 1 .. Len(stack[t])
      /\ Top(t) = stack[t][Len(stack[t])] /\ Top(t) \in Frames
  BY <1>1, LastFront DEF Top
<1> QED
  BY <1>1, <1>2 DEF Threads, Framed

-----------------------------------------------------------------------------
(* Lemmas about a connection *)

\* A connection that is not used, and a new one.
LEMMA NewSockets ==
    /\ Unused \in Sockets /\ Fresh \in Sockets
    /\ Empty(Unused) /\ Empty(Fresh) /\ Fresh.fd # "closed"
<1>1. <<>> \in Seq(Questions) /\ <<>> \in Seq(Replies)
  BY NoElement
<1> QED
  BY <1>1 DEF Unused, Fresh, Sockets, Empty

\* One that holds nothing holds nothing but m.
LEMMA EmptyHolds == ASSUME NEW s, NEW m, Empty(s) PROVE Holding(s, m)
<1>1. DOMAIN s.asked = {} /\ DOMAIN s.replies = {} /\ Len(s.asked) = 0
  BY NoElement, EmptySeq DEF Empty
<1> QED
  BY <1>1 DEF Holding

\* A request is asked.
LEMMA SocketAsked ==
    ASSUME NEW s \in Sockets, NEW m \in Messages, NEW w \in BOOLEAN, NEW r,
           r = [s EXCEPT !.asked = Append(s.asked, [msg |-> m, whole |-> w])]
    PROVE  /\ r \in Sockets /\ r.fd = s.fd
           /\ Empty(s) => Holding(r, m)
<1> DEFINE q == [msg |-> m, whole |-> w]
<1>1. /\ s.asked \in Seq(Questions) /\ q \in Questions /\ q.msg = m
  BY DEF Sockets, Questions
<1> HIDE DEF q
<1>2. Append(s.asked, q) \in Seq(Questions)
  BY <1>1, AddLast
<1>3. /\ r \in Sockets /\ r.fd = s.fd /\ r.replies = s.replies
      /\ r.asked = Append(s.asked, q)
  BY <1>2 DEF Sockets, q
<1>4. ASSUME Empty(s) PROVE Holding(r, m)
  <2>1. Len(s.asked) = 0 /\ DOMAIN r.replies = {}
    BY <1>3, <1>4, NoElement, EmptySeq DEF Empty
  <2>2. Len(r.asked) = 1 /\ DOMAIN r.asked = 1 .. 1 /\ r.asked[1] = q
    BY <1>1, <1>3, <2>1, AddLast
  <2> QED
    BY <1>1, <2>1, <2>2 DEF Holding
<1> QED
  BY <1>3, <1>4

\* The body of the last request follows.
LEMMA SocketSent ==
    ASSUME NEW s \in Sockets, s.asked # <<>>, NEW r,
           r = [s EXCEPT !.asked[Len(s.asked)].whole = TRUE]
    PROVE  /\ r \in Sockets /\ r.fd = s.fd /\ r.replies = s.replies
           /\ \A m : Holding(s, m) => Holding(r, m)
<1> DEFINE a == s.asked
           n == Len(a)
           e == [a[n] EXCEPT !.whole = TRUE]
           b == [a EXCEPT ![n] = e]
<1>1. a \in Seq(Questions) /\ n \in Nat \ {0} /\ DOMAIN a = 1 .. n /\ a[n] \in Questions
  <2>1. a \in Seq(Questions)
    BY DEF Sockets
  <2> QED
    BY <2>1, LastFront
<1>2. e \in Questions /\ e.msg = a[n].msg
  BY <1>1 DEF Questions
<1>3. r = [s EXCEPT !.asked = b]
  BY <1>1 DEF Sockets, Questions
<1> HIDE DEF e, n
<1>4. b \in Seq(Questions) /\ Len(b) = Len(a) /\ DOMAIN b = DOMAIN a
  BY <1>1, <1>2, ExceptSeq DEF n
<1>5. \A i \in DOMAIN a : b[i].msg = a[i].msg
  BY <1>1, <1>2
<1>6. b # <<>> /\ a # <<>>
  BY <1>1, <1>4, EmptySeq DEF n
<1> HIDE DEF a, b
<1>7. /\ r \in Sockets /\ r.fd = s.fd /\ r.replies = s.replies /\ r.asked = b /\ s.asked = a
  BY <1>3, <1>4 DEF Sockets, a
<1> QED
  BY <1>4, <1>5, <1>6, <1>7 DEF Holding

\* A reply is read; a final one leaves nothing behind.
LEMMA SocketRead ==
    ASSUME NEW s \in Sockets, s.replies # <<>>, NEW r, r = [s EXCEPT !.replies = Tail(s.replies)]
    PROVE  /\ r \in Sockets /\ r.fd = s.fd
           /\ \A m : Holding(s, m) => Holding(r, m) /\ Head(s.replies).to = m
           /\ \A m : Holding(s, m) /\ Final(Head(s.replies)) => Empty(r)
           /\ Head(s.replies) \in Replies
<1> DEFINE a == s.replies
           b == Tail(a)
<1>1. /\ a \in Seq(Replies) /\ a # <<>> /\ s \in Sockets
  BY DEF Sockets
<1> HIDE DEF a
<1>2. /\ b \in Seq(Replies) /\ Len(a) \in Nat \ {0} /\ Len(b) = Len(a) - 1
      /\ DOMAIN a = 1 .. Len(a) /\ DOMAIN b = 1 .. Len(a) - 1
      /\ Head(a) = a[1] /\ Head(a) \in Replies
      /\ \A i \in 1 .. Len(a) - 1 : b[i] = a[i + 1]
  BY <1>1, TakeFirst
<1> HIDE DEF b
<1>3. /\ r \in Sockets /\ r.fd = s.fd /\ r.replies = b /\ s.replies = a /\ r.asked = s.asked
  BY <1>2 DEF Sockets, a, b
<1>4. ASSUME NEW m, Holding(s, m) PROVE Holding(r, m) /\ Head(a).to = m
  <2>1. ASSUME NEW i \in DOMAIN b
        PROVE  b[i].to = m /\ (Final(b[i]) => i = Len(b) /\ s.asked = <<>>)
    <3>1. i + 1 \in DOMAIN a /\ b[i] = a[i + 1] /\ i \in Nat
      BY <1>2
    <3>2. a[i + 1].to = m /\ (Final(a[i + 1]) => i + 1 = Len(a) /\ s.asked = <<>>)
      BY <1>3, <1>4, <3>1 DEF Holding
    <3> QED
      BY <1>2, <3>1, <3>2
  <2>2. 1 \in DOMAIN a
    BY <1>2
  <2> QED
    BY <1>2, <1>3, <1>4, <2>1, <2>2 DEF Holding
<1>5. ASSUME NEW m, Holding(s, m), Final(Head(a)) PROVE Empty(r)
  <2>1. 1 = Len(a) /\ s.asked = <<>>
    BY <1>2, <1>3, <1>5 DEF Holding
  <2>2. b = <<>>
    <3>1. Len(b) = Len(a) - 1 /\ b \in Seq(Replies) /\ Len(a) = 1
      BY <1>2, <2>1
    <3> QED
      BY <3>1, EmptySeq
  <2> QED
    BY <1>3, <2>1, <2>2 DEF Empty
<1> QED
  BY <1>2, <1>3, <1>4, <1>5

\* Looking at a reply spoils it, or only its head is read.
LEMMA SocketSpoilt ==
    ASSUME NEW s \in Sockets, s.replies # <<>>, NEW x \in ReplyStatuses, NEW r,
           r = [s EXCEPT !.replies[1].status = x]
    PROVE  /\ r \in Sockets /\ r.fd = s.fd /\ r.asked = s.asked /\ r.replies # <<>>
           /\ x = "garbled" => \A m : Holding(s, m) => Holding(r, m)
<1> DEFINE a == s.replies
           e == [a[1] EXCEPT !.status = x]
           b == [a EXCEPT ![1] = e]
<1>1. a \in Seq(Replies) /\ Len(a) \in Nat \ {0} /\ DOMAIN a = 1 .. Len(a) /\ a[1] \in Replies
  <2>1. a \in Seq(Replies)
    BY DEF Sockets
  <2> QED
    BY <2>1, TakeFirst
<1>2. e \in Replies /\ e.to = a[1].to /\ e.status = x
  BY <1>1 DEF Replies
<1>3. r = [s EXCEPT !.replies = b]
  BY <1>1 DEF Sockets, Replies
<1> HIDE DEF e
<1>4. b \in Seq(Replies) /\ Len(b) = Len(a) /\ DOMAIN b = DOMAIN a
  BY <1>1, <1>2, ExceptSeq
<1>5. /\ \A i \in DOMAIN a : b[i].to = a[i].to /\ (i # 1 => b[i] = a[i])
      /\ b[1] = e
  BY <1>1, <1>2
<1>6. b # <<>>
  BY <1>1, <1>4, EmptySeq
<1> HIDE DEF a, b
<1>7. /\ r \in Sockets /\ r.fd = s.fd /\ r.replies = b /\ s.replies = a /\ r.asked = s.asked
  BY <1>3, <1>4 DEF Sockets, a
<1>8. ASSUME x = "garbled", NEW m, Holding(s, m) PROVE Holding(r, m)
  BY <1>2, <1>4, <1>5, <1>7, <1>8 DEF Holding, Final, Interim
<1> QED
  BY <1>6, <1>7, <1>8

\* The peer answers the oldest request, once and for all or in the meantime.
LEMMA SocketAnswered ==
    ASSUME NEW s \in Sockets, s.asked # <<>>, NEW x \in ReplyStatuses, NEW b \in BOOLEAN, NEW r,
           \/ /\ x \notin Interim
              /\ r = [s EXCEPT !.asked = Tail(s.asked), !.up = ~b,
                               !.replies = Append(s.replies, [to |-> Head(s.asked).msg,
                                                              status |-> x, close |-> b])]
           \/ /\ x = "continue"
              /\ r = [s EXCEPT !.replies = Append(s.replies, [to |-> Head(s.asked).msg,
                                                              status |-> x, close |-> b])]
    PROVE  r \in Sockets /\ r.fd = s.fd /\ \A m : Holding(s, m) => Holding(r, m)
<1> DEFINE a == s.replies
           q == s.asked
           e == [to |-> Head(q).msg, status |-> x, close |-> b]
           c == Append(a, e)
           d == Tail(q)
<1>1. a \in Seq(Replies) /\ q \in Seq(Questions) /\ q # <<>>
  BY DEF Sockets
<1> HIDE DEF a, q
<1>2. /\ Head(q) = q[1] /\ Head(q) \in Questions /\ d \in Seq(Questions)
      /\ Len(q) \in Nat \ {0} /\ Len(d) = Len(q) - 1 /\ DOMAIN q = 1 .. Len(q)
      /\ DOMAIN d = 1 .. Len(q) - 1 /\ \A i \in 1 .. Len(q) - 1 : d[i] = q[i + 1]
  BY <1>1, TakeFirst
<1>3. e \in Replies /\ e.to = Head(q).msg /\ e.status = x
  BY <1>2 DEF Questions, Replies
<1> HIDE DEF e
<1>4. /\ c \in Seq(Replies) /\ Len(a) \in Nat /\ Len(c) = Len(a) + 1
      /\ DOMAIN a = 1 .. Len(a) /\ DOMAIN c = 1 .. Len(a) + 1
      /\ c[Len(a) + 1] = e /\ \A i \in 1 .. Len(a) : c[i] = a[i]
  BY <1>1, <1>3, AddLast
<1> HIDE DEF c, d
<1>5. /\ r \in Sockets /\ r.fd = s.fd /\ r.replies = c
      /\ \/ x \notin Interim /\ r.asked = d
         \/ x = "continue" /\ r.asked = q
  BY <1>2, <1>4 DEF Sockets, c, d, e, a, q
<1>6. ASSUME NEW m, Holding(s, m) PROVE Holding(r, m)
  <2>1. /\ Len(q) = 1 /\ \A i \in DOMAIN q : q[i].msg = m
        /\ \A i \in DOMAIN a : a[i].to = m /\ ~Final(a[i])
    <3>1. s.asked = q /\ s.replies = a
      BY DEF a, q
    <3>2. Len(q) <= 1 /\ \A i \in DOMAIN q : q[i].msg = m
      BY <1>6, <3>1 DEF Holding
    <3>3. \A i \in DOMAIN a : a[i].to = m /\ ~Final(a[i])
      BY <1>1, <1>6, <3>1 DEF Holding
    <3>4. Len(q) = 1
      BY <1>2, <3>2
    <3> QED
      BY <3>2, <3>3, <3>4
  <2>2. d = <<>> /\ e.to = m
    BY <1>2, <1>3, <2>1, EmptySeq
  <2>3. \A i \in DOMAIN c : c[i].to = m /\ (Final(c[i]) => i = Len(c) /\ x \notin Interim)
    BY <1>3, <1>4, <2>1, <2>2 DEF Final
  <2>4. Len(r.asked) <= 1 /\ \A i \in DOMAIN r.asked : r.asked[i].msg = m
    <3>1. Len(<<>>) = 0 /\ DOMAIN <<>> = {}
      BY EmptySeq
    <3>2. CASE r.asked = d
      BY <2>2, <3>1, <3>2
    <3>3. CASE r.asked = q
      <4>1. Len(r.asked) = 1
        BY <2>1, <3>3
      <4>2. \A i \in DOMAIN r.asked : r.asked[i].msg = m
        BY <2>1, <3>3
      <4> QED
        BY <4>1, <4>2
    <3> QED
      BY <1>5, <3>2, <3>3
  <2> QED
    BY <1>5, <2>2, <2>3, <2>4 DEF Holding, Interim
<1> QED
  BY <1>5, <1>6

-----------------------------------------------------------------------------
(* Lemmas about what steps do to the connections *)

\* Connection c is used, the others are not.
Touches(c) ==
    /\ Nets'
    /\ \A d \in Conns : net'[d].fd = net[d].fd /\ (d # c => net'[d] = net[d])

\* What is held stays held.
Keeps(c) == \A m : Holds(c, m) => Holds(c, m)'

\* What each connection is.
LEMMA SocketType == Nets => \A c \in Conns : net[c] \in Sockets
BY DEF Nets

\* A connection is replaced by one with the same descriptor.
LEMMA NetReplaced ==
    ASSUME Nets, NEW c \in Conns, NEW r \in Sockets, r.fd = net[c].fd,
           net' = [net EXCEPT ![c] = r]
    PROVE  Touches(c) /\ net'[c] = r
BY DEF Nets, Touches

\* Nothing is done to any.
LEMMA NetStays == ASSUME Nets, UNCHANGED net, NEW c PROVE Touches(c) /\ Keeps(c)
BY DEF Nets, Touches, Keeps, Holds

\* write_request sends a request, or its first part, if anybody reads it.
LEMMA NetAsked ==
    ASSUME Nets, NEW c \in Conns, NEW m \in Messages, NEW w \in BOOLEAN, Ask(c, m, w)
    PROVE  Touches(c) /\ (Clean(c) => Holds(c, m)')
<1>1. CASE UNCHANGED net
  BY <1>1, NetStays, EmptyHolds DEF Clean, Holds, Keeps
<1>2. CASE net' = [net EXCEPT ![c].asked = Append(@, [msg |-> m, whole |-> w])]
  <2>1. PICK r : r = [net[c] EXCEPT !.asked = Append(net[c].asked, [msg |-> m, whole |-> w])]
    OBVIOUS
  <2>2. net' = [net EXCEPT ![c] = r]
    BY <1>2, <2>1
  <2>3. r \in Sockets /\ r.fd = net[c].fd /\ (Empty(net[c]) => Holding(r, m))
    BY <2>1, SocketType, SocketAsked
  <2> QED
    BY <2>2, <2>3, NetReplaced DEF Clean, Holds
<1> QED
  BY <1>1, <1>2 DEF Ask

\* write_request_body sends the rest of it.
LEMMA NetSent ==
    ASSUME Nets, NEW c \in Conns, NEW m, NEW n, n = BodySent(c, m)
    PROVE  /\ n \in [Conns -> Sockets]
           /\ \A d \in Conns : n[d].fd = net[d].fd /\ (d # c => n[d] = net[d])
           /\ n[c].replies = net[c].replies
           /\ \A x : Holding(net[c], x) => Holding(n[c], x)
<1>1. CASE n = net
  BY <1>1 DEF Nets
<1>2. CASE net[c].asked # <<>> /\ n = [net EXCEPT ![c].asked[Len(net[c].asked)].whole = TRUE]
  <2>1. PICK r : r = [net[c] EXCEPT !.asked[Len(net[c].asked)].whole = TRUE]
    OBVIOUS
  <2>2. n = [net EXCEPT ![c] = r]
    BY <1>2, <2>1
  <2>3. net[c] \in Sockets
    BY SocketType
  <2>4. /\ r \in Sockets /\ r.fd = net[c].fd /\ r.replies = net[c].replies
        /\ \A x : Holding(net[c], x) => Holding(r, x)
    BY <1>2, <2>1, <2>3, SocketSent
  <2> QED
    BY <2>2, <2>4 DEF Nets
<1> QED
  BY <1>1, <1>2 DEF BodySent

\* A reply is read from a connection.
LEMMA NetRead ==
    ASSUME Nets, NEW c \in Conns, net[c].replies # <<>>, net' = Taken(c)
    PROVE  /\ Touches(c) /\ Keeps(c) /\ Reply(c) \in Replies
           /\ \A m : Holds(c, m) => Reply(c).to = m
           /\ \A m : Holds(c, m) /\ Final(Reply(c)) => Clean(c)'
<1>1. PICK r : r = [net[c] EXCEPT !.replies = Tail(net[c].replies)]
  OBVIOUS
<1>2. net' = [net EXCEPT ![c] = r]
  BY <1>1 DEF Taken
<1>3. /\ r \in Sockets /\ r.fd = net[c].fd
      /\ \A m : Holding(net[c], m) => Holding(r, m) /\ Head(net[c].replies).to = m
      /\ \A m : Holding(net[c], m) /\ Final(Head(net[c].replies)) => Empty(r)
      /\ Head(net[c].replies) \in Replies
  BY <1>1, SocketType, SocketRead
<1> QED
  BY <1>2, <1>3, NetReplaced DEF Clean, Holds, Keeps, Reply

\* 100 Continue is read, and the body is sent.
LEMMA NetSentRead ==
    ASSUME Nets, NEW c \in Conns, NEW m, net[c].replies # <<>>,
           net' = [BodySent(c, m) EXCEPT ![c].replies = Tail(@)]
    PROVE  Touches(c) /\ Keeps(c)
<1>1. PICK n : n = BodySent(c, m)
  OBVIOUS
<1>2. PICK r : r = [n[c] EXCEPT !.replies = Tail(n[c].replies)]
  OBVIOUS
<1>3. /\ n \in [Conns -> Sockets] /\ n[c].replies = net[c].replies
      /\ \A d \in Conns : n[d].fd = net[d].fd /\ (d # c => n[d] = net[d])
      /\ \A x : Holding(net[c], x) => Holding(n[c], x)
  BY <1>1, NetSent
<1>4. net' = [n EXCEPT ![c] = r]
  BY <1>1, <1>2
<1>5. r \in Sockets /\ r.fd = n[c].fd /\ \A x : Holding(n[c], x) => Holding(r, x)
  BY <1>2, <1>3, SocketRead
<1> QED
  BY <1>3, <1>4, <1>5 DEF Touches, Nets, Keeps, Holds

\* A reply is looked at, or not read to its end.
LEMMA NetSpoilt ==
    ASSUME Nets, NEW c \in Conns, net[c].replies # <<>>, NEW x \in ReplyStatuses,
           net' = [net EXCEPT ![c].replies[1].status = x]
    PROVE  Touches(c) /\ (x = "garbled" => Keeps(c))
<1>1. PICK r : r = [net[c] EXCEPT !.replies[1].status = x]
  OBVIOUS
<1>2. net' = [net EXCEPT ![c] = r]
  BY <1>1
<1>3. /\ r \in Sockets /\ r.fd = net[c].fd
      /\ x = "garbled" => \A m : Holding(net[c], m) => Holding(r, m)
  BY <1>1, SocketType, SocketSpoilt
<1> QED
  BY <1>2, <1>3, NetReplaced DEF Holds, Keeps

\* The peer answers a request that was asked; what holds nothing stays so.
LEMMA NetAnswered ==
    ASSUME Scalars, Nets, NEW c \in Conns, PeerAnswers(c)
    PROVE  Touches(c) /\ Keeps(c) /\ (Clean(c) => Clean(c)')
<1> DEFINE q == Head(net[c].asked)
           answer(x, b) == [to |-> q.msg, status |-> x, close |-> b]
<1>1. settings \in Settings /\ net[c] \in Sockets /\ net[c].asked # <<>>
  BY SocketType DEF Scalars, PeerAnswers
<1>2. ASSUME NEW x \in ReplyStatuses, x \notin Interim, NEW b \in BOOLEAN,
             net' = [net EXCEPT ![c].asked = Tail(@), ![c].up = ~b,
                                ![c].replies = Append(@, answer(x, b))]
      PROVE  \E r \in Sockets : /\ net' = [net EXCEPT ![c] = r] /\ r.fd = net[c].fd
                                /\ \A m : Holding(net[c], m) => Holding(r, m)
  <2>1. PICK r : r = [net[c] EXCEPT !.asked = Tail(net[c].asked), !.up = ~b,
                                    !.replies = Append(net[c].replies, answer(x, b))]
    OBVIOUS
  <2>2. r \in Sockets /\ r.fd = net[c].fd /\ \A m : Holding(net[c], m) => Holding(r, m)
    <3>1. x \notin Interim /\ x \in ReplyStatuses /\ b \in BOOLEAN
      BY <1>2
    <3> HIDE <1>2
    <3> DEFINE s == net[c]
    <3>2. s \in Sockets /\ s.asked # <<>>
      BY <1>1
    <3>3. r = [s EXCEPT !.asked = Tail(s.asked), !.up = ~b,
                        !.replies = Append(s.replies, [to |-> Head(s.asked).msg,
                                                       status |-> x, close |-> b])]
      BY <2>1
    <3> HIDE DEF s
    <3>4. r \in Sockets /\ r.fd = s.fd /\ \A m : Holding(s, m) => Holding(r, m)
      <4>1. \/ /\ x \notin Interim
               /\ r = [s EXCEPT !.asked = Tail(s.asked), !.up = ~b,
                                !.replies = Append(s.replies, [to |-> Head(s.asked).msg,
                                                               status |-> x, close |-> b])]
            \/ /\ x = "continue"
               /\ r = [s EXCEPT !.replies = Append(s.replies, [to |-> Head(s.asked).msg,
                                                               status |-> x, close |-> b])]
        BY <3>1, <3>3
      <4> QED
        BY <3>1, <3>2, <4>1, SocketAnswered
    <3> QED
      BY <3>4 DEF s
  <2>3. net' = [net EXCEPT ![c] = r]
    BY <1>2, <2>1
  <2> QED
    BY <2>2, <2>3
<1>3. ASSUME net' = [net EXCEPT ![c].replies = Append(@, answer("continue", FALSE))]
      PROVE  \E r \in Sockets : /\ net' = [net EXCEPT ![c] = r] /\ r.fd = net[c].fd
                                /\ \A m : Holding(net[c], m) => Holding(r, m)
  <2>1. PICK r : r = [net[c] EXCEPT !.replies =
                        Append(net[c].replies, answer("continue", FALSE))]
    OBVIOUS
  <2>2. r \in Sockets /\ r.fd = net[c].fd /\ \A m : Holding(net[c], m) => Holding(r, m)
    <3> DEFINE s == net[c]
               x == "continue"
               b == FALSE
    <3>1. x = "continue" /\ x \in ReplyStatuses /\ b \in BOOLEAN
      <4>1. x = "continue"
        OBVIOUS
      <4>2. x \in ReplyStatuses
        BY DEF ReplyStatuses, Interim
      <4>3. b \in BOOLEAN
        OBVIOUS
      <4> QED
        BY <4>1, <4>2, <4>3
    <3>2. s \in Sockets /\ s.asked # <<>>
      BY <1>1
    <3>3. r = [s EXCEPT !.replies = Append(s.replies, [to |-> Head(s.asked).msg,
                                                       status |-> x, close |-> b])]
      BY <2>1
    <3> HIDE DEF s, x, b
    <3>4. r \in Sockets /\ r.fd = s.fd /\ \A m : Holding(s, m) => Holding(r, m)
      <4>1. \/ /\ x \notin Interim
               /\ r = [s EXCEPT !.asked = Tail(s.asked), !.up = ~b,
                                !.replies = Append(s.replies, [to |-> Head(s.asked).msg,
                                                               status |-> x, close |-> b])]
            \/ /\ x = "continue"
               /\ r = [s EXCEPT !.replies = Append(s.replies, [to |-> Head(s.asked).msg,
                                                               status |-> x, close |-> b])]
        BY <3>1, <3>3
      <4> QED
        BY <3>1, <3>2, <4>1, SocketAnswered
    <3> QED
      BY <3>4 DEF s
  <2>3. net' = [net EXCEPT ![c] = r]
    BY <1>3, <2>1
  <2> QED
    BY <2>2, <2>3
<1>4. PICK r \in Sockets : /\ net' = [net EXCEPT ![c] = r] /\ r.fd = net[c].fd
                           /\ \A m : Holding(net[c], m) => Holding(r, m)
  <2>1. \A s \in Statuses(settings) : s \in ReplyStatuses /\ s \notin Interim
    BY <1>1, ClientAssumption DEF Answers, Interim, ReplyStatuses
  <2>2. "failed" \in ReplyStatuses /\ "failed" \notin Interim
    BY DEF Interim, ReplyStatuses
  <2>3. CASE \E s \in Statuses(settings), b \in BOOLEAN :
               net' = [net EXCEPT ![c].asked = Tail(@), ![c].up = ~b,
                                  ![c].replies = Append(@, answer(s, b))]
    BY <1>2, <2>1, <2>3
  <2>4. CASE net' = [net EXCEPT ![c].asked = Tail(@), ![c].up = ~TRUE,
                                ![c].replies = Append(@, answer("failed", TRUE))]
    BY <1>2, <2>2, <2>4
  <2> QED
    BY <1>3, <2>3, <2>4 DEF PeerAnswers
<1>5. ~Clean(c)
  BY <1>1 DEF Clean, Empty
<1> QED
  BY <1>4, <1>5, NetReplaced DEF Holds, Keeps

\* The peer closes.
LEMMA NetHungUp ==
    ASSUME Nets, NEW c \in Conns, PeerCloses(c)
    PROVE  Touches(c) /\ Keeps(c) /\ (Clean(c) => Clean(c)')
<1>1. PICK r : r = [net[c] EXCEPT !.up = FALSE]
  OBVIOUS
<1>2. net' = [net EXCEPT ![c] = r]
  BY <1>1 DEF PeerCloses
<1>3. /\ r \in Sockets /\ r.fd = net[c].fd /\ r.asked = net[c].asked
      /\ r.replies = net[c].replies
  BY <1>1, SocketType DEF Sockets
<1>4. \A m : Holding(net[c], m) => Holding(r, m)
  BY <1>3 DEF Holding
<1>5. Empty(net[c]) => Empty(r)
  BY <1>3 DEF Empty
<1>6. Touches(c) /\ net'[c] = r
  BY <1>2, <1>3, NetReplaced
<1> QED
  BY <1>4, <1>5, <1>6 DEF Clean, Holds, Keeps

\* A connection is closed.
LEMMA NetClosed ==
    ASSUME Nets, NEW c \in Conns \cup {NoConn}, NEW n, n = Closed(net, c)
    PROVE  /\ n \in [Conns -> Sockets]
           /\ \A d \in Conns : n[d] = IF d = c THEN Unused ELSE net[d]
BY NewSockets, ClientAssumption DEF Nets, Closed

\* disconnect.
LEMMA NetDisconnected ==
    ASSUME Scalars, Nets, Disconnect(net)
    PROVE  /\ Nets' /\ socket_' = NoConn /\ session' = FALSE
           /\ \A d \in Conns : d # socket_ => net'[d] = net[d]
BY NetClosed DEF Scalars, Disconnect, Nets

\* A new connection has a number that nobody refers to.
LEMMA NextIsFree ==
    ASSUME Free # {}
    PROVE  /\ NextFree \in Conns
           /\ \A t \in Callers : handle[t] # NextFree
BY DEF NextFree, Free

\* create_and_connect_socket, ensure_socket_connection and what is behind them.
LEMMA NetConnected ==
    ASSUME Scalars, Locals, Nets, NEW o \in ConnectOutcomes, Connect(o)
    PROVE  /\ Nets' /\ socket_' \in Conns \cup {NoConn} /\ session' \in BOOLEAN
           /\ o = "connected" => socket_' # NoConn /\ (settings.ssl => session')
           /\ socket_' # NoConn => /\ net'[socket_'] = Fresh
                                   /\ \A t \in Callers : handle[t] # socket_'
           /\ \A d \in Conns : d # socket_ /\ d # socket_' => net'[d] = net[d]
<1>1. PICK n : n = Closed(net, socket_)
  OBVIOUS
<1>2. /\ n \in [Conns -> Sockets]
      /\ \A d \in Conns : d # socket_ => n[d] = net[d]
  BY <1>1, NetClosed DEF Scalars
<1>3. CASE o \in {"connected", "unsecured"}
  <2>1. Free # {}
    BY <1>3 DEF ConnectOutcomes
  <2>2. /\ net' = [n EXCEPT ![NextFree] = Fresh] /\ socket_' = NextFree
        /\ session' = (settings.ssl /\ o = "connected")
    BY <1>1, <1>3 DEF Connect
  <2>3. NextFree \in Conns /\ \A t \in Callers : handle[t] # NextFree
    BY <2>1, NextIsFree
  <2>4. session' \in BOOLEAN /\ (o = "connected" /\ settings.ssl => session')
    BY <2>2
  <2>5. NextFree # NoConn
    BY <2>3, ClientAssumption
  <2>6. Nets' /\ net'[NextFree] = Fresh
        /\ \A d \in Conns : d # NextFree => net'[d] = n[d]
    BY <1>2, <2>2, <2>3, NewSockets DEF Nets
  <2> QED
    BY <1>2, <2>2, <2>3, <2>4, <2>5, <2>6
<1>4. CASE o \notin {"connected", "unsecured"}
  BY <1>1, <1>2, <1>4 DEF Connect, Nets
<1> QED
  BY <1>3, <1>4

-----------------------------------------------------------------------------
(* Lemmas about what steps do to the frames *)

\* The frames of t keep their connections and what comes after them.
Reframed(t) ==
    /\ Stacks' /\ DOMAIN stack'[t] = DOMAIN stack[t] /\ Len(stack'[t]) = Len(stack[t])
    /\ \A i \in DOMAIN stack[t] : /\ stack'[t][i].conn = stack[t][i].conn
                                  /\ stack'[t][i].after = stack[t][i].after
    /\ \A s \in Callers : s # t => stack'[s] = stack[s]

\* A step that leaves the stacks alone.
LEMMA NothingReframed ==
    ASSUME Stacks, UNCHANGED stack, NEW t \in Callers PROVE Reframed(t) /\ Top(t)' = Top(t)
BY DEF Stacks, Reframed, Top

\* Thread t has another frame on top.
LEMMA TopSet ==
    ASSUME Stacks, NEW t \in Callers, stack[t] # <<>>, NEW f \in Frames, SetTop(t, f)
    PROVE  /\ Stacks' /\ stack'[t] # <<>> /\ Top(t)' = f
           /\ DOMAIN stack'[t] = 1 .. Len(stack[t]) /\ DOMAIN stack[t] = 1 .. Len(stack[t])
           /\ Len(stack'[t]) = Len(stack[t]) /\ stack'[t][Len(stack[t])] = f
           /\ \A i \in 1 .. Len(stack[t]) - 1 : stack'[t][i] = stack[t][i]
           /\ \A s \in Callers : s # t => stack'[s] = stack[s]
<1> DEFINE s == stack[t]
           r == WithLast(s, f)
<1>1. s \in Seq(Frames) /\ s # <<>> /\ DOMAIN s = 1 .. Len(s)
  BY LastFront DEF Stacks
<1>2. stack' = [stack EXCEPT ![t] = r]
  BY DEF SetTop, WithLast
<1> HIDE DEF s
<1>3. /\ r \in Seq(Frames) /\ r # <<>> /\ Len(r) = Len(s) /\ DOMAIN r = DOMAIN s
      /\ r[Len(s)] = f /\ \A i \in 1 .. Len(s) - 1 : r[i] = s[i]
  <2>1. s \in Seq(Frames) /\ s # <<>> /\ f \in Frames
    BY <1>1
  <2>2. r \in Seq(Frames)
    BY <2>1, LastReplaced
  <2>3. r # <<>>
    BY <2>1, LastReplaced
  <2>4. Len(r) = Len(s) /\ DOMAIN r = DOMAIN s
    BY <2>1, LastReplaced
  <2>5. r[Len(s)] = f
    BY <2>1, LastReplaced
  <2>6. \A i \in 1 .. Len(s) - 1 : r[i] = s[i]
    BY <2>1, LastReplaced
  <2> QED
    BY <2>2, <2>3, <2>4, <2>5, <2>6
<1> HIDE DEF r
<1>4. stack'[t] = r /\ Stacks' /\ \A u \in Callers : u # t => stack'[u] = stack[u]
  BY <1>2, <1>3 DEF Stacks
<1>5. Top(t)' = f
  BY <1>3, <1>4 DEF Top, Last
<1> QED
  BY <1>1, <1>3, <1>4, <1>5 DEF s

\* It keeps the connection of the one it had.
LEMMA TopReframed ==
    ASSUME Stacks, NEW t \in Callers, stack[t] # <<>>, NEW f \in Frames, SetTop(t, f),
           f.conn = Top(t).conn, f.after = Top(t).after
    PROVE  Reframed(t) /\ Top(t)' = f
<1> DEFINE n == Len(stack[t])
<1>1. /\ Stacks' /\ Top(t)' = f
      /\ DOMAIN stack'[t] = 1 .. n /\ DOMAIN stack[t] = 1 .. n
      /\ Len(stack'[t]) = n /\ stack'[t][n] = f
      /\ \A i \in 1 .. n - 1 : stack'[t][i] = stack[t][i]
      /\ \A s \in Callers : s # t => stack'[s] = stack[s]
  BY TopSet
<1>2. n \in Nat /\ Top(t) = stack[t][n]
  BY LastFront DEF Stacks, Top
<1> HIDE DEF n
<1>3. \A i \in 1 .. n : i = n \/ i \in 1 .. n - 1
  BY <1>2
<1> QED
  BY <1>1, <1>2, <1>3 DEF Reframed, n

\* A frame is put on top of the others.
LEMMA FramePushed ==
    ASSUME Stacks, NEW t \in Callers, NEW f \in Frames,
           stack' = [stack EXCEPT ![t] = Append(@, f)]
    PROVE  /\ Stacks' /\ stack'[t] # <<>> /\ Top(t)' = f
           /\ Len(stack[t]) \in Nat /\ Len(stack'[t]) = Len(stack[t]) + 1
           /\ DOMAIN stack[t] = 1 .. Len(stack[t])
           /\ DOMAIN stack'[t] = 1 .. Len(stack[t]) + 1
           /\ stack'[t][Len(stack[t]) + 1] = f
           /\ \A i \in 1 .. Len(stack[t]) : stack'[t][i] = stack[t][i]
           /\ \A s \in Callers : s # t => stack'[s] = stack[s]
<1> DEFINE s == stack[t]
           r == Append(s, f)
<1>1. s \in Seq(Frames)
  BY DEF Stacks
<1>2. stack' = [stack EXCEPT ![t] = r]
  OBVIOUS
<1> HIDE DEF s
<1>3. /\ r \in Seq(Frames) /\ r # <<>> /\ Len(s) \in Nat /\ Len(r) = Len(s) + 1
      /\ DOMAIN s = 1 .. Len(s) /\ DOMAIN r = 1 .. Len(s) + 1 /\ r[Len(s) + 1] = f
      /\ \A i \in 1 .. Len(s) : r[i] = s[i]
  BY <1>1, AddLast
<1> HIDE DEF r
<1>4. stack'[t] = r /\ Stacks' /\ \A u \in Callers : u # t => stack'[u] = stack[u]
  BY <1>2, <1>3 DEF Stacks
<1>5. Top(t)' = f
  BY <1>3, <1>4 DEF Top, Last
<1> QED
  BY <1>1, <1>3, <1>4, <1>5 DEF s

\* The frames without the one on top, and what the next one takes over from it.
Resumes(s, g) ==
    \/ g = Front(s)
    \/ \E r \in Replies, n \in Nat :
         g = WithLast(Front(s), [Last(Front(s)) EXCEPT !.res = r, !.redirects = n])

\* The frame below, with the result of the one that returned.
LEMMA ResumedFrames ==
    ASSUME NEW s \in Seq(Frames), s # <<>>, Front(s) # <<>>, NEW g, Resumes(s, g)
    PROVE  /\ g \in Seq(Frames) /\ g # <<>>
           /\ Len(s) \in Nat /\ Len(s) > 1 /\ Len(g) = Len(s) - 1
           /\ DOMAIN s = 1 .. Len(s) /\ DOMAIN g = 1 .. Len(s) - 1
           /\ \A i \in 1 .. Len(s) - 1 : g[i].conn = s[i].conn /\ g[i].after = s[i].after
<1> DEFINE b == Front(s)
<1>1. /\ Len(s) \in Nat \ {0} /\ DOMAIN s = 1 .. Len(s)
      /\ b \in Seq(Frames) /\ Len(b) = Len(s) - 1 /\ DOMAIN b = 1 .. Len(s) - 1
      /\ \A i \in 1 .. Len(s) - 1 : b[i] = s[i]
  BY LastFront
<1>2. b # <<>>
  OBVIOUS
<1>3. \/ g = b
      \/ \E r \in Replies, n \in Nat :
           g = WithLast(b, [Last(b) EXCEPT !.res = r, !.redirects = n])
  BY DEF Resumes
<1> HIDE DEF b
<1>4. Len(b) \in Nat \ {0} /\ Last(b) = b[Len(b)] /\ Last(b) \in Frames
  BY <1>1, <1>2, LastFront
<1>5. CASE g = b
  <2>1. Len(b) \in Nat \ {0} /\ Len(s) \in Nat /\ Len(b) = Len(s) - 1
    BY <1>1, <1>4
  <2>2. Len(s) > 1
    BY <2>1
  <2> QED
    BY <1>1, <1>2, <1>5, <2>2
<1>6. ASSUME NEW r \in Replies, NEW n \in Nat,
             g = WithLast(b, [Last(b) EXCEPT !.res = r, !.redirects = n])
      PROVE  /\ g \in Seq(Frames) /\ g # <<>>
             /\ Len(s) > 1 /\ Len(g) = Len(s) - 1 /\ DOMAIN g = 1 .. Len(s) - 1
             /\ \A i \in 1 .. Len(s) - 1 : g[i].conn = s[i].conn /\ g[i].after = s[i].after
  <2> DEFINE e == [Last(b) EXCEPT !.res = r, !.redirects = n]
  <2>1. e \in Frames /\ e.conn = Last(b).conn /\ e.after = Last(b).after
    BY <1>4 DEF Frames
  <2>2. g = WithLast(b, e)
    BY <1>6
  <2> HIDE DEF e
  <2>3. /\ g \in Seq(Frames) /\ g # <<>> /\ Len(g) = Len(b) /\ DOMAIN g = DOMAIN b
        /\ g[Len(b)] = e /\ \A i \in 1 .. Len(b) - 1 : g[i] = b[i]
    <3>1. b \in Seq(Frames) /\ b # <<>> /\ e \in Frames
      BY <1>1, <1>2, <2>1
    <3>2. g \in Seq(Frames)
      BY <2>2, <3>1, LastReplaced
    <3>3. g # <<>>
      BY <2>2, <3>1, LastReplaced
    <3>4. Len(g) = Len(b) /\ DOMAIN g = DOMAIN b
      BY <2>2, <3>1, LastReplaced
    <3>5. g[Len(b)] = e
      <4>1. WithLast(b, e)[Len(b)] = e
        BY <3>1, LastReplaced
      <4> QED
        BY <2>2, <4>1
    <3>6. \A i \in 1 .. Len(b) - 1 : g[i] = b[i]
      <4>1. \A i \in 1 .. Len(b) - 1 : WithLast(b, e)[i] = b[i]
        BY <3>1, LastReplaced
      <4> QED
        BY <2>2, <4>1
    <3> QED
      BY <3>2, <3>3, <3>4, <3>5, <3>6
  <2>4. Len(b) \in Nat \ {0} /\ Len(s) \in Nat /\ Len(b) = Len(s) - 1
    BY <1>1, <1>4
  <2>5. Len(s) > 1 /\ \A i \in 1 .. Len(s) - 1 : i = Len(b) \/ i \in 1 .. Len(b) - 1
    BY <2>4
  <2> QED
    BY <1>1, <1>4, <2>1, <2>3, <2>5
<1> QED
  BY <1>1, <1>3, <1>5, <1>6

\* The frame on top is taken away, and the next one takes over its response.
LEMMA FramePopped ==
    ASSUME Stacks, NEW t \in Callers, stack[t] # <<>>, Front(stack[t]) # <<>>,
           NEW g, Resumes(stack[t], g), stack' = [stack EXCEPT ![t] = g]
    PROVE  /\ Stacks' /\ stack'[t] # <<>>
           /\ Len(stack[t]) \in Nat /\ Len(stack[t]) > 1 /\ Len(stack'[t]) = Len(stack[t]) - 1
           /\ DOMAIN stack[t] = 1 .. Len(stack[t])
           /\ DOMAIN stack'[t] = 1 .. Len(stack[t]) - 1
           /\ \A i \in 1 .. Len(stack[t]) - 1 : /\ stack'[t][i].conn = stack[t][i].conn
                                                /\ stack'[t][i].after = stack[t][i].after
           /\ \A s \in Callers : s # t => stack'[s] = stack[s]
<1> DEFINE s == stack[t]
<1>1. s \in Seq(Frames) /\ s # <<>> /\ Front(s) # <<>> /\ Resumes(s, g)
  BY DEF Stacks
<1> HIDE DEF s
<1>2. /\ g \in Seq(Frames) /\ g # <<>>
      /\ Len(s) \in Nat /\ Len(s) > 1 /\ Len(g) = Len(s) - 1
      /\ DOMAIN s = 1 .. Len(s) /\ DOMAIN g = 1 .. Len(s) - 1
      /\ \A i \in 1 .. Len(s) - 1 : g[i].conn = s[i].conn /\ g[i].after = s[i].after
  BY <1>1, ResumedFrames
<1>3. stack'[t] = g /\ Stacks' /\ \A u \in Callers : u # t => stack'[u] = stack[u]
  BY <1>2 DEF Stacks
<1> QED
  BY <1>2, <1>3 DEF s

-----------------------------------------------------------------------------
(* Lemmas about what every step of a kind leaves as it is *)

\* A thread whose frames all have a connection.
LEMMA HasConnection ==
    ASSUME Types, Threads, InFlight, NEW t \in Callers, InCall(t), ~Bare(t)
    PROVE  /\ socket_requests_in_flight_ = Len(stack[t]) /\ Len(stack[t]) \in Nat \ {0}
           /\ socket_requests_in_flight_ # 0
<1>1. request_mutex_ = t /\ Len(stack[t]) \in Nat \ {0}
  BY InTheCall DEF Types
<1>2. socket_requests_in_flight_ = Len(stack[t])
  BY <1>1 DEF InFlight
<1> QED
  BY <1>1, <1>2

\* The thread that talks to the peer.
LEMMA Talking ==
    ASSUME IInv, NEW t \in Callers, Talks(t)
    PROVE  /\ InCall(t) /\ ~Bare(t) /\ stack[t] # <<>>
           /\ Top(t) \in Frames /\ Top(t).msg \in Messages
           /\ socket_ \in Conns /\ Top(t).conn = socket_
           /\ \A s \in Callers : s # t => ~InCall(s)
           /\ pc[t] # "write" => /\ Holds(socket_, Top(t).msg)
                                 /\ Top(t).expecting /\ ~Top(t).wrote => Clean(socket_)
           /\ pc[t] = "write" => Clean(socket_)
<1>1. InCall(t) /\ ~Bare(t)
  BY DEF Talks, InCall, InStream, Bare
<1>2. /\ stack[t] # <<>> /\ Top(t) \in Frames
      /\ \A s \in Callers : s # t => ~InCall(s)
  BY <1>1, InTheCall DEF IInv, Types
<1>3. Top(t).msg \in Messages
  BY <1>2, FrameUpdates
<1>4. socket_ \in Conns /\ Top(t).conn = socket_
  BY DEF IInv, Owners, Types, Scalars
<1>5. pc[t] # "write" => /\ Holds(socket_, Top(t).msg)
                         /\ Top(t).expecting /\ ~Top(t).wrote => Clean(socket_)
  BY DEF IInv, Exchanges, Conversing, Talks
<1>6. pc[t] = "write" => Clean(socket_)
  <2> SUFFICES ASSUME pc[t] = "write" PROVE Clean(socket_)
    OBVIOUS
  <2>1. \A s \in Callers : ~Outstanding(s)
    BY <1>2 DEF Outstanding, InCall, InStream
  <2> QED
    BY <1>4, <2>1, ClientAssumption DEF IInv, Exchanges, KeptClean
<1> QED
  BY <1>1, <1>2, <1>3, <1>4, <1>5, <1>6

\* A thread that does nothing, while another one has the mutex before or after.
LEMMA OtherThread ==
    ASSUME Threads, NEW s \in Callers, pc'[s] = pc[s], stack'[s] = stack[s],
           handle'[s] = handle[s], request_mutex_' = s <=> request_mutex_ = s
    PROVE  /\ InCall(s)' <=> stack'[s] # <<>>
           /\ InCall(s)' <=> request_mutex_' = s
           /\ InStream(s)' <=> handle'[s] # NoConn
           /\ Framed(s)'
<1>1. (InCall(s)' <=> InCall(s)) /\ (InStream(s)' <=> InStream(s)) /\ (Bare(s)' <=> Bare(s))
  BY DEF InCall, InStream, Bare
<1>2. Framed(s)'
  BY <1>1 DEF Threads, Framed
<1> QED
  BY <1>1, <1>2 DEF Threads

\* The thread in the call goes on with its frame on top, or with one like it.
GoesOn(t, l) ==
    /\ Reframed(t) /\ Goto(t, l)
    /\ UNCHANGED <<settings, request_mutex_, guarded, handle, calls, res>>

\* A thread that goes on inside its call keeps the mutex and its frames.
LEMMA ThreadsGoOn ==
    ASSUME Types, Threads, InFlight, NEW t \in Callers, InCall(t), ~Bare(t),
           NEW l \in {"peek", "expect", "read", "handled", "auth", "exit"}, GoesOn(t, l)
    PROVE  Threads' /\ InFlight'
<1>1. /\ request_mutex_ = t /\ request_mutex_' = t /\ stack[t] # <<>>
      /\ Len(stack[t]) \in Nat \ {0} /\ handle[t] = NoConn
  BY InTheCall DEF Types, GoesOn
<1>2. pc'[t] = l /\ \A s \in Callers : s # t => pc'[s] = pc[s]
  BY DEF Types, Locals, GoesOn, Goto
<1>3. stack'[t] # <<>>
  <2>1. stack'[t] \in Seq(Frames) /\ Len(stack'[t]) = Len(stack[t])
    BY DEF GoesOn, Reframed, Stacks
  <2> QED
    BY <1>1, <2>1, EmptySeq
<1>4. InCall(t)' /\ ~InStream(t)' /\ ~Bare(t)'
  BY <1>2 DEF InCall, InStream, Bare
<1>5. Framed(t)'
  BY <1>4 DEF Threads, Framed, GoesOn, Reframed
<1>6. ASSUME NEW s \in Callers, s # t
      PROVE  /\ InCall(s)' <=> stack'[s] # <<>>
             /\ InCall(s)' <=> request_mutex_' = s
             /\ InStream(s)' <=> handle'[s] # NoConn
             /\ Framed(s)'
  <2>1. /\ pc'[s] = pc[s] /\ stack'[s] = stack[s] /\ handle'[s] = handle[s]
        /\ request_mutex_' = request_mutex_
    BY <1>2, <1>6 DEF GoesOn, Reframed
  <2> QED
    BY <2>1, OtherThread
<1>7. Threads'
  <2>1. /\ InCall(t)' <=> stack'[t] # <<>>
        /\ InCall(t)' <=> request_mutex_' = t
        /\ InStream(t)' <=> handle'[t] # NoConn
        /\ Framed(t)'
    BY <1>1, <1>3, <1>4, <1>5 DEF GoesOn
  <2> QED
    BY <1>6, <2>1 DEF Threads
<1>8. InFlight'
  <2>1. t # Nobody
    BY ClientAssumption
  <2>2. /\ socket_requests_in_flight_' = Len(stack'[t])
        /\ socket_requests_in_flight_ # 0
    BY HasConnection DEF GoesOn, Reframed, guarded
  <2> QED
    BY <1>1, <1>4, <2>1, <2>2 DEF InFlight, GoesOn, guarded
<1> QED
  BY <1>7, <1>8

\* Nobody starts to talk, and no descriptor is opened or closed.
LEMMA OwnersStay ==
    ASSUME Types, Owners, \A d \in Conns : net'[d].fd = net[d].fd \/ net'[d].fd = "shut",
           UNCHANGED <<settings, socket_, session, handle>>,
           \A s \in Callers : Talks(s)' => Talks(s) /\ Top(s)'.conn = Top(s).conn
    PROVE  Owners'
<1>1. socket_ # NoConn => net'[socket_].fd # "closed"
  BY DEF Owners, Types, Scalars
<1>2. \A t \in Callers : handle[t] # NoConn => net'[handle[t]].fd # "closed"
  BY DEF Owners, Types, Locals
<1> QED
  BY <1>1, <1>2 DEF Owners

\* A thread that is not in the call, while another one changes socket_ only.
LEMMA OthersStay ==
    ASSUME Types, Threads, Owners, NEW s \in Callers, ~InCall(s), Streaming(s),
           \A d \in Conns : d # socket_ => net'[d] = net[d],
           pc'[s] = pc[s], handle'[s] = handle[s], calls'[s] = calls[s], res'[s] = res[s]
    PROVE  Conversing(s)' /\ Streaming(s)' /\ ~Outstanding(s)'
<1>1. Conversing(s)' /\ ~Outstanding(s)'
  BY DEF Conversing, Outstanding, InCall, InStream
<1>2. handle[s] # NoConn => net'[handle[s]] = net[handle[s]]
  BY DEF Owners, Types, Locals
<1>3. Streaming(s)'
  <2>1. CASE handle[s] # NoConn
    BY <1>2, <2>1 DEF Streaming, Clean, Holds, StreamMessage
  <2>2. CASE ~InStream(s)
    BY <2>2 DEF Streaming, InStream
  <2> QED
    BY <2>1, <2>2 DEF Threads
<1> QED
  BY <1>1, <1>3

\* The thread that talks goes on: what its step has to leave as it should be.
LEMMA TurnGoesOn ==
    ASSUME IInv, NEW t \in Callers, Talks(t),
           NEW l \in {"peek", "expect", "read", "handled", "auth", "exit"}, GoesOn(t, l),
           Touches(socket_), UNCHANGED <<socket_, session>>,
           ret' \in [Callers -> BOOLEAN], error' \in [Callers -> ErrorNames],
           Conversing(t)',
           l \notin {"peek", "expect", "read"} /\ (l = "exit" => ret'[t]) => Clean(socket_)'
    PROVE  IInv'
<1>1. /\ InCall(t) /\ ~Bare(t) /\ socket_ \in Conns
      /\ \A s \in Callers : s # t => ~InCall(s)
  BY Talking
<1>2. Types /\ Threads /\ InFlight /\ Owners /\ Exchanges
  BY DEF IInv
<1>3. pc' \in [Callers -> Labels] /\ pc'[t] = l /\ \A s \in Callers : s # t => pc'[s] = pc[s]
  BY <1>2 DEF Types, Locals, GoesOn, Goto, Labels
<1>4. Types'
  <2>1. Scalars'
    BY <1>2 DEF Types, Scalars, GoesOn, guarded
  <2>2. Locals'
    BY <1>2, <1>3 DEF Types, Locals, GoesOn
  <2> QED
    BY <2>1, <2>2 DEF Types, GoesOn, Reframed, Touches
<1>5. Threads' /\ InFlight'
  BY <1>1, <1>2, ThreadsGoOn
<1>6. Owners'
  <2>1. \A s \in Callers : Talks(s)' => Talks(s) /\ Top(s)'.conn = Top(s).conn
    <3>1. Top(t)'.conn = Top(t).conn
      <4>1. Top(t) = stack[t][Len(stack[t])] /\ Len(stack[t]) \in DOMAIN stack[t]
        BY <1>1, <1>2, InTheCall DEF Types
      <4>2. Top(t)' = stack'[t][Len(stack[t])]
        BY DEF GoesOn, Reframed, Top, Last
      <4> QED
        BY <4>1, <4>2 DEF GoesOn, Reframed
    <3>2. ASSUME NEW s \in Callers, s # t
          PROVE  Talks(s)' => Talks(s) /\ Top(s)'.conn = Top(s).conn
      BY <1>3, <3>2 DEF Talks, GoesOn, Reframed, Top
    <3> QED
      BY <3>1, <3>2
  <2>2. /\ UNCHANGED <<settings, socket_, session, handle>>
        /\ \A d \in Conns : net'[d].fd = net[d].fd
    BY DEF GoesOn, Touches
  <2> QED
    BY <1>2, <2>1, <2>2, OwnersStay
<1>7. ASSUME NEW s \in Callers, s # t
      PROVE  Conversing(s)' /\ Streaming(s)'
  <2>1. ~InCall(s) /\ Streaming(s)
    BY <1>1, <1>2, <1>7 DEF Exchanges
  <2>2. /\ \A d \in Conns : d # socket_ => net'[d] = net[d]
        /\ pc'[s] = pc[s] /\ handle'[s] = handle[s] /\ calls'[s] = calls[s]
        /\ res'[s] = res[s]
    BY <1>3, <1>7 DEF Touches, GoesOn
  <2> QED
    BY <1>2, <2>1, <2>2, OthersStay
<1>8. Streaming(t)'
  BY <1>3 DEF Streaming
<1>9. KeptClean'
  <2>1. CASE l \in {"peek", "expect", "read"} \/ (l = "exit" /\ ~ret'[t])
    BY <1>3, <2>1 DEF KeptClean, Outstanding
  <2>2. CASE Clean(socket_)'
    BY <2>2 DEF KeptClean
  <2> QED
    BY <2>1, <2>2
<1> QED
  BY <1>4, <1>5, <1>6, <1>7, <1>8, <1>9 DEF IInv, Exchanges

\* A step of a thread that has no connection, or of one that drops it.
Lets(s) ==
    /\ ~Talks(s)'
    /\ InStream(s)' => pc'[s] = pc[s] /\ calls'[s] = calls[s]
    /\ pc'[s] = "handled" => pc[s] = "handled" /\ Top(s)' = Top(s)

\* Nobody waits on a connection that is let go, or nobody waits at all.
LEMMA LetsGo ==
    ASSUME IInv, \A s \in Callers : Lets(s), UNCHANGED <<settings, handle, res>>,
           \/ Disconnect(net)
           \/ UNCHANGED <<net, socket_, session>> /\ \A s \in Callers : ~Outstanding(s)
    PROVE  /\ Nets' /\ Owners' /\ Exchanges'
           /\ socket_' \in Conns \cup {NoConn} /\ session' \in BOOLEAN
<1>1. Scalars /\ Locals /\ Nets /\ Threads /\ Owners /\ Exchanges
  BY DEF IInv, Types
<1>2. /\ Nets' /\ socket_' \in Conns \cup {NoConn}
      /\ socket_' = NoConn \/ (socket_' = socket_ /\ net' = net /\ Clean(socket_))
      /\ \A d \in Conns : d # socket_ => net'[d] = net[d]
  <2>1. CASE Disconnect(net)
    <3>1. /\ Nets' /\ socket_' = NoConn
          /\ \A d \in Conns : d # socket_ => net'[d] = net[d]
      BY <1>1, <2>1, NetDisconnected
    <3> QED
      BY <3>1
  <2>2. CASE UNCHANGED <<net, socket_, session>> /\ \A s \in Callers : ~Outstanding(s)
    <3>1. net' = net /\ socket_' = socket_ /\ (socket_ = NoConn \/ Clean(socket_))
      BY <1>1, <2>2 DEF Exchanges, KeptClean
    <3>2. socket_' \in Conns \cup {NoConn}
      BY <1>1, <3>1 DEF Scalars
    <3>3. Nets'
      BY <1>1, <3>1 DEF Nets
    <3> QED
      BY <3>1, <3>2, <3>3
  <2> QED
    BY <2>1, <2>2
<1>3. session' \in BOOLEAN
  BY <1>1 DEF Scalars, Disconnect
<1>4. ASSUME NEW t \in Callers, handle[t] # NoConn
      PROVE  /\ net'[handle[t]] = net[handle[t]] /\ handle[t] # socket_'
             /\ net[handle[t]].fd # "closed"
  BY <1>1, <1>2, <1>4 DEF Locals, Owners
<1>5. Owners'
  BY <1>1, <1>2, <1>4 DEF Owners, Lets
<1>6. ASSUME NEW t \in Callers PROVE Conversing(t)' /\ Streaming(t)'
  <2>1. Conversing(t)'
    BY <1>1 DEF Lets, Talks, Conversing, Exchanges
  <2>2. Streaming(t)'
    <3>1. CASE InStream(t)'
      <4>1. InStream(t) /\ pc'[t] = pc[t] /\ calls'[t] = calls[t]
        BY <3>1 DEF Lets, InStream
      <4>2. net'[handle[t]] = net[handle[t]]
        BY <1>1, <1>4, <4>1 DEF Threads
      <4> QED
        BY <1>1, <4>1, <4>2 DEF Exchanges, Streaming, Clean, Holds, StreamMessage
    <3>2. CASE ~InStream(t)'
      BY <3>2 DEF Streaming, InStream
    <3> QED
      BY <3>1, <3>2
  <2> QED
    BY <2>1, <2>2
<1>7. KeptClean'
  BY <1>2 DEF KeptClean, Clean
<1> QED
  BY <1>2, <1>5, <1>6, <1>7, <1>3 DEF Exchanges

\* A step of a stream, which has its connection to itself.
LEMMA StreamGoesOn ==
    ASSUME IInv, NEW t \in Callers, InStream(t),
           NEW l \in {"stream write", "stream head", "stream body", "stream end"}, Goto(t, l),
           Touches(handle[t]), Streaming(t)',
           res' \in [Callers -> Replies], \A s \in Callers : s # t => res'[s] = res[s],
           UNCHANGED <<settings, request_mutex_, socket_, session, guarded, stack, ret,
                       error, handle, calls>>
    PROVE  IInv'
<1>1. Types /\ Threads /\ InFlight /\ Owners /\ Exchanges
  BY DEF IInv
<1>2. pc' \in [Callers -> Labels] /\ pc'[t] = l /\ \A s \in Callers : s # t => pc'[s] = pc[s]
  BY <1>1 DEF Types, Locals, Goto, Labels
<1>3. Types'
  <2>1. Scalars' /\ Locals' /\ Stacks'
    BY <1>1, <1>2 DEF Types, Scalars, Locals, Stacks, guarded
  <2> QED
    BY <2>1 DEF Types, Touches
<1>4. \A s \in Callers : /\ InCall(s)' <=> InCall(s)
                         /\ InStream(s)' <=> InStream(s)
                         /\ Bare(s)' <=> Bare(s)
                         /\ Talks(s)' <=> Talks(s)
                         /\ Outstanding(s)' <=> Outstanding(s)
  BY <1>2 DEF InCall, InStream, Bare, Talks, Outstanding
<1>5. Threads'
  BY <1>1, <1>4 DEF Threads, Framed
<1>6. InFlight'
  BY <1>1, <1>4 DEF InFlight, guarded
<1>7. Owners'
  <2>1. \A s \in Callers : Talks(s)' => Talks(s) /\ Top(s)'.conn = Top(s).conn
    BY <1>4 DEF Top
  <2>2. \A d \in Conns : net'[d].fd = net[d].fd
    BY DEF Touches
  <2> QED
    BY <1>1, <2>1, <2>2, OwnersStay
<1>8. /\ handle[t] # NoConn /\ handle[t] # socket_
      /\ \A s \in Callers : s # t /\ handle[s] # NoConn => handle[s] # handle[t]
  BY <1>1 DEF Threads, Owners
<1>9. socket_ # NoConn => net'[socket_] = net[socket_]
  BY <1>1, <1>8 DEF Types, Scalars, Touches
<1>10. ASSUME NEW s \in Callers, s # t PROVE Conversing(s)' /\ Streaming(s)'
  <2>1. Conversing(s)'
    <3>1. CASE Talks(s)
      <4>1. socket_ # NoConn
        BY <1>1, <3>1 DEF Owners
      <4> QED
        BY <1>1, <1>2, <1>9, <1>10, <4>1 DEF Exchanges, Conversing, Holds, Clean, Top
    <3>2. CASE ~Talks(s)
      BY <1>1, <1>2, <1>10, <3>2 DEF Exchanges, Conversing, Talks, Top
    <3> QED
      BY <3>1, <3>2
  <2>2. Streaming(s)'
    <3>1. CASE InStream(s)
      <4>1. net'[handle[s]] = net[handle[s]]
        <5>1. handle[s] # NoConn /\ handle[s] \in Conns \cup {NoConn}
          BY <1>1, <3>1 DEF Threads, Types, Locals
        <5> QED
          BY <1>8, <1>10, <5>1 DEF Touches
      <4> QED
        BY <1>1, <1>2, <1>10, <4>1 DEF Exchanges, Streaming, Clean, Holds, StreamMessage
    <3>2. CASE ~InStream(s)
      BY <1>2, <1>10, <3>2 DEF Streaming, InStream
    <3> QED
      BY <3>1, <3>2
  <2> QED
    BY <2>1, <2>2
<1>11. Conversing(t)'
  BY <1>2 DEF Conversing
<1>12. KeptClean'
  BY <1>1, <1>4, <1>9 DEF Exchanges, KeptClean, Clean
<1> QED
  BY <1>3, <1>5, <1>6, <1>7, <1>10, <1>11, <1>12 DEF IInv, Exchanges

-----------------------------------------------------------------------------
(* The exchange of a request: every step keeps the invariant *)

\* write_request.
LEMMA WriteKeeps == ASSUME IInv, NEW t \in Callers, WriteRequest(t) PROVE IInv'
<1> DEFINE f == Top(t)
           l == IF f.expecting THEN "expect"
                ELSE IF settings.ssl /\ ~settings.proxy THEN "peek" ELSE "read"
<1>1. Talks(t) /\ pc[t] = "write"
  BY DEF WriteRequest, Talks
<1>2. /\ stack[t] # <<>> /\ f \in Frames /\ f.msg \in Messages
      /\ socket_ \in Conns /\ f.conn = socket_ /\ Clean(socket_)
  BY <1>1, Talking
<1>3. Types
  BY DEF IInv
<1>4. /\ Reframed(t) /\ Touches(socket_) /\ Holding(net'[socket_], f.msg)
      /\ Top(t)'.msg = f.msg
      /\ Top(t)'.expecting /\ ~Top(t)'.wrote => Empty(net'[socket_])
  <2>1. ASSUME NEW w \in BOOLEAN, Ask(socket_, f.msg, w)
        PROVE  Touches(socket_) /\ Holding(net'[socket_], f.msg)
    <3>1. Nets /\ f.msg \in Messages /\ w \in BOOLEAN /\ Clean(socket_)
      BY <1>2, <1>3, <2>1 DEF Types
    <3>2. PICK m, c : m = f.msg /\ c = socket_
      OBVIOUS
    <3>3. Touches(c) /\ (Clean(c) => Holds(c, m)')
      BY <1>2, <2>1, <3>1, <3>2, NetAsked
    <3> QED
      BY <3>1, <3>2, <3>3 DEF Holds
  <2>2. CASE Ask(f.conn, f.msg, ~f.expecting) /\ SetTop(t, [f EXCEPT !.wrote = TRUE])
    <3> DEFINE g == [f EXCEPT !.wrote = TRUE]
    <3>1. /\ g \in Frames /\ g.conn = f.conn /\ g.after = f.after
          /\ g.msg = f.msg /\ g.wrote
      BY <1>2 DEF Frames
    <3> HIDE DEF g
    <3>2. Reframed(t) /\ Top(t)' = g
      BY <1>2, <1>3, <2>2, <3>1, TopReframed DEF Types, g
    <3>3. (~f.expecting) \in BOOLEAN
      OBVIOUS
    <3>4. Touches(socket_) /\ Holding(net'[socket_], f.msg)
      BY <1>2, <2>1, <2>2, <3>3
    <3> QED
      BY <3>1, <3>2, <3>4
  <2>3. CASE UNCHANGED <<net, stack>>
    <3>1. Reframed(t) /\ Top(t)' = Top(t) /\ Touches(socket_)
      BY <1>2, <1>3, <2>3, NothingReframed, NetStays DEF Types
    <3>2. Empty(net'[socket_])
      BY <1>2, <2>3 DEF Clean
    <3>3. Holding(net'[socket_], f.msg)
      BY <1>2, <2>3, EmptyHolds DEF Clean, Holds
    <3> QED
      BY <3>1, <3>2, <3>3
  <2>4. CASE ~f.expecting /\ Ask(f.conn, f.msg, FALSE) /\ UNCHANGED stack
    <3>1. Reframed(t) /\ Top(t)' = Top(t)
      BY <1>3, <2>4, NothingReframed DEF Types
    <3>2. Touches(socket_) /\ Holding(net'[socket_], f.msg)
      BY <1>2, <2>1, <2>4
    <3> QED
      BY <2>4, <3>1, <3>2
  <2> QED
    BY <2>2, <2>3, <2>4 DEF WriteRequest
<1>5. GoesOn(t, l) /\ UNCHANGED <<socket_, session, ret>>
  BY <1>4 DEF WriteRequest, GoesOn
<1>6. l \in {"expect", "peek", "read"}
  OBVIOUS
<1>7. error' \in [Callers -> ErrorNames] /\ ret' \in [Callers -> BOOLEAN]
  BY <1>3 DEF Types, Locals, WriteRequest, ErrorNames
<1> HIDE DEF l
<1>8. Conversing(t)'
  <2>1. pc'[t] = l
    BY <1>3, <1>5 DEF Types, Locals, GoesOn, Goto
  <2> QED
    BY <1>4, <1>5, <1>6, <2>1 DEF Conversing, Holds, Clean
<1> QED
  BY <1>1, <1>4, <1>5, <1>6, <1>7, <1>8, TurnGoesOn

\* A turn that ends without a response: the connection is not kept.
LEMMA TurnFails ==
    ASSUME IInv, NEW t \in Callers, Talks(t), Touches(socket_), Goto(t, "exit"),
           UNCHANGED <<settings, request_mutex_, guarded, handle, calls, res, stack,
                       socket_, session>>,
           NEW e \in ErrorNames, Outcome(t, FALSE, e)
    PROVE  IInv'
<1>1. Types
  BY DEF IInv
<1>2. GoesOn(t, "exit")
  BY <1>1, NothingReframed DEF Types, GoesOn
<1>3. error' \in [Callers -> ErrorNames] /\ ret' \in [Callers -> BOOLEAN] /\ ~ret'[t]
  BY <1>1 DEF Types, Locals, Outcome
<1>4. Conversing(t)'
  BY <1>1 DEF Types, Locals, Goto, Conversing
<1> QED
  BY <1>2, <1>3, <1>4, TurnGoesOn

\* A turn that goes on waiting for the response, with nothing read for good.
LEMMA TurnWaits ==
    ASSUME IInv, NEW t \in Callers, Talks(t), pc[t] # "write",
           Touches(socket_), \A m : Holds(socket_, m) => Holding(net'[socket_], m),
           Empty(net[socket_]) => Empty(net'[socket_]),
           pc' = pc \/ Goto(t, "read"), pc'[t] = "read",
           UNCHANGED <<settings, request_mutex_, guarded, handle, calls, res, ret, error,
                       socket_, session>>,
           \/ UNCHANGED stack
           \/ SetTop(t, [Top(t) EXCEPT !.expecting = FALSE])
    PROVE  IInv'
<1>1. Types
  BY DEF IInv
<1>2. /\ stack[t] # <<>> /\ Top(t) \in Frames /\ socket_ \in Conns
      /\ Holds(socket_, Top(t).msg)
      /\ Top(t).expecting /\ ~Top(t).wrote => Clean(socket_)
  BY Talking
<1>3. /\ Reframed(t) /\ Top(t)'.msg = Top(t).msg
      /\ Top(t)'.expecting => Top(t)' = Top(t)
  <2>1. CASE UNCHANGED stack
    BY <1>1, <2>1, NothingReframed DEF Types
  <2>2. CASE SetTop(t, [Top(t) EXCEPT !.expecting = FALSE])
    <3> DEFINE g == [Top(t) EXCEPT !.expecting = FALSE]
    <3>1. /\ g \in Frames /\ g.conn = Top(t).conn /\ g.after = Top(t).after
          /\ g.msg = Top(t).msg /\ ~g.expecting
      BY <1>2 DEF Frames
    <3> HIDE DEF g
    <3>2. Reframed(t) /\ Top(t)' = g
      BY <1>1, <1>2, <2>2, <3>1, TopReframed DEF Types, g
    <3> QED
      BY <3>1, <3>2
  <2> QED
    BY <2>1, <2>2
<1>4. Goto(t, "read")
  BY <1>1 DEF Types, Locals, Goto
<1>5. GoesOn(t, "read")
  BY <1>3, <1>4 DEF GoesOn
<1>6. Conversing(t)'
  <2>1. Holds(socket_, Top(t).msg)'
    <3>1. Holding(net'[socket_], Top(t).msg)
      BY <1>2
    <3> QED
      BY <1>3, <3>1 DEF Holds
  <2>2. Top(t)'.expecting /\ ~Top(t)'.wrote => Clean(socket_)'
    BY <1>2, <1>3 DEF Clean
  <2> QED
    BY <2>1, <2>2 DEF Conversing
<1>7. error' \in [Callers -> ErrorNames] /\ ret' \in [Callers -> BOOLEAN]
  BY <1>1 DEF Types, Locals
<1> QED
  BY <1>5, <1>6, <1>7, TurnGoesOn

\* is_peer_closed.
LEMMA PeekKeeps == ASSUME IInv, NEW t \in Callers, PeekPeer(t) PROVE IInv'
<1>1. Talks(t) /\ pc[t] = "peek"
  BY DEF PeekPeer, Talks
<1>2. socket_ \in Conns /\ Top(t).conn = socket_
  BY <1>1, Talking
<1>3. Types /\ Nets
  BY DEF IInv, Types
<1>4. CASE Outcome(t, FALSE, "SSLPeerCouldBeClosed_") /\ Goto(t, "exit") /\ UNCHANGED net
  <2>1. Touches(socket_)
    BY <1>3, <1>4, NetStays
  <2>2. "SSLPeerCouldBeClosed_" \in ErrorNames
    BY DEF ErrorNames
  <2> QED
    BY <1>1, <1>4, <2>1, <2>2, TurnFails DEF PeekPeer
<1>5. ASSUME Goto(t, "read"), UNCHANGED <<ret, error>>,
             net' = IF settings.mbedtls /\ net[socket_].replies # <<>>
                      THEN [net EXCEPT ![socket_].replies[1].status = "garbled"]
                      ELSE net
      PROVE  IInv'
  <2>1. /\ Touches(socket_) /\ \A m : Holds(socket_, m) => Holding(net'[socket_], m)
        /\ Empty(net[socket_]) => Empty(net'[socket_])
    <3>1. CASE net' = net
      BY <1>3, <3>1, NetStays DEF Holds
    <3>2. CASE /\ net[socket_].replies # <<>>
               /\ net' = [net EXCEPT ![socket_].replies[1].status = "garbled"]
      <4>1. PICK c \in Conns : c = socket_
        BY <1>2
      <4>2. "garbled" \in ReplyStatuses
        BY DEF ReplyStatuses, Interim
      <4>3. Touches(c) /\ Keeps(c)
        BY <1>3, <3>2, <4>1, <4>2, NetSpoilt
      <4>4. ~Empty(net[socket_])
        BY <3>2 DEF Empty
      <4> QED
        BY <4>1, <4>3, <4>4 DEF Keeps, Holds
    <3> QED
      BY <1>5, <3>1, <3>2
  <2>2. pc'[t] = "read"
    BY <1>3, <1>5 DEF Types, Locals, Goto
  <2>3. /\ UNCHANGED <<settings, request_mutex_, guarded, handle, calls, res, ret, error,
                       socket_, session, stack>>
    BY <1>5 DEF PeekPeer
  <2> QED
    BY <1>1, <1>5, <2>1, <2>2, <2>3, TurnWaits
<1> QED
  BY <1>2, <1>4, <1>5 DEF PeekPeer

\* Expect: 100-continue.
LEMMA AwaitKeeps == ASSUME IInv, NEW t \in Callers, AwaitContinue(t) PROVE IInv'
<1>1. Talks(t) /\ pc[t] = "expect"
  BY DEF AwaitContinue, Talks
<1>2. socket_ \in Conns /\ Top(t).conn = socket_ /\ Holds(socket_, Top(t).msg)
  BY <1>1, Talking
<1>3. Types /\ Nets
  BY DEF IInv, Types
<1>4. CASE Goto(t, "read") /\ UNCHANGED <<net, stack, ret, error>>
  <2>1. /\ Touches(socket_) /\ \A m : Holds(socket_, m) => Holding(net'[socket_], m)
        /\ Empty(net[socket_]) => Empty(net'[socket_])
    BY <1>3, <1>4, NetStays DEF Holds
  <2>2. pc'[t] = "read"
    BY <1>3, <1>4 DEF Types, Locals, Goto
  <2>3. /\ UNCHANGED <<settings, request_mutex_, guarded, handle, calls, res, ret, error,
                       socket_, session, stack>>
    BY <1>4 DEF AwaitContinue
  <2> QED
    BY <1>1, <1>4, <2>1, <2>2, <2>3, TurnWaits
<1>5. CASE /\ net' = BodySent(socket_, Top(t).msg)
           /\ SetTop(t, [Top(t) EXCEPT !.expecting = FALSE])
           /\ Goto(t, "read") /\ UNCHANGED <<ret, error>>
  <2>1. /\ net' \in [Conns -> Sockets]
        /\ \A d \in Conns : net'[d].fd = net[d].fd /\ (d # socket_ => net'[d] = net[d])
        /\ \A m : Holding(net[socket_], m) => Holding(net'[socket_], m)
    BY <1>2, <1>3, <1>5, NetSent
  <2>2. Touches(socket_) /\ \A m : Holds(socket_, m) => Holding(net'[socket_], m)
    BY <2>1 DEF Touches, Nets, Holds
  <2>3. Empty(net[socket_]) => Empty(net'[socket_])
    BY <1>5 DEF BodySent, Empty
  <2>4. pc'[t] = "read"
    BY <1>3, <1>5 DEF Types, Locals, Goto
  <2>5. /\ UNCHANGED <<settings, request_mutex_, guarded, handle, calls, res, ret, error,
                       socket_, session>>
    BY <1>5 DEF AwaitContinue
  <2> QED
    BY <1>1, <1>5, <2>2, <2>3, <2>4, <2>5, TurnWaits
<1>6. CASE Outcome(t, FALSE, "Failed") /\ Goto(t, "exit") /\ UNCHANGED <<net, stack>>
  <2>1. Touches(socket_)
    BY <1>3, <1>6, NetStays
  <2>2. "Failed" \in ErrorNames
    BY DEF ErrorNames
  <2> QED
    BY <1>1, <1>6, <2>1, <2>2, TurnFails DEF AwaitContinue
<1> QED
  BY <1>2, <1>4, <1>5, <1>6 DEF AwaitContinue

\* No response.
LEMMA NothingKeeps == ASSUME IInv, NEW t \in Callers, ReadNothing(t) PROVE IInv'
<1>1. Talks(t)
  BY DEF ReadNothing, Talks
<1>2. Types /\ Nets
  BY DEF IInv, Types
<1>3. Touches(socket_)
  BY <1>2, NetStays DEF ReadNothing
<1>4. PICK e : e = IF Top(t).wrote THEN "Failed" ELSE error[t]
  OBVIOUS
<1>5. e \in ErrorNames
  BY <1>2, <1>4 DEF Types, Locals, ErrorNames
<1> QED
  BY <1>1, <1>3, <1>4, <1>5, TurnFails DEF ReadNothing

\* 100 Continue.
LEMMA ContinueKeeps == ASSUME IInv, NEW t \in Callers, ReadContinue(t) PROVE IInv'
<1>1. Talks(t) /\ pc[t] = "read"
  BY DEF ReadContinue, Talks
<1>2. /\ socket_ \in Conns /\ Top(t).conn = socket_ /\ net[socket_].replies # <<>>
      /\ Top(t).expecting /\ ~Top(t).wrote => Clean(socket_)
  BY <1>1, Talking DEF ReadContinue
<1>3. Types /\ Nets
  BY DEF IInv, Types
<1>4. ~Empty(net[socket_])
  BY <1>2 DEF Empty
<1>5. ASSUME net' = Taken(socket_)
      PROVE  Touches(socket_) /\ \A m : Holds(socket_, m) => Holding(net'[socket_], m)
  <2>1. PICK c \in Conns : c = socket_
    BY <1>2
  <2>2. Touches(c) /\ Keeps(c)
    BY <1>2, <1>3, <1>5, <2>1, NetRead
  <2> QED
    BY <2>1, <2>2 DEF Keeps, Holds
<1>6. CASE net' = Taken(socket_) /\ UNCHANGED <<pc, stack, ret, error>>
  <2>1. pc'[t] = "read"
    BY <1>1, <1>6
  <2>2. /\ UNCHANGED <<settings, request_mutex_, guarded, handle, calls, res, ret, error,
                       socket_, session, stack>>
    BY <1>6 DEF ReadContinue
  <2> QED
    BY <1>1, <1>4, <1>5, <1>6, <2>1, <2>2, TurnWaits
<1>7. ~(Top(t).expecting /\ ~Top(t).wrote)
  BY <1>2, <1>4 DEF Clean
<1>8. CASE /\ net' = [BodySent(socket_, Top(t).msg) EXCEPT ![socket_].replies = Tail(@)]
           /\ SetTop(t, [Top(t) EXCEPT !.expecting = FALSE])
           /\ UNCHANGED <<pc, ret, error>>
  <2>1. Touches(socket_) /\ \A m : Holds(socket_, m) => Holding(net'[socket_], m)
    <3>1. PICK c, m : c = socket_ /\ m = Top(t).msg
      BY <1>2
    <3>2. Touches(c) /\ Keeps(c)
      BY <1>2, <1>3, <1>8, <3>1, NetSentRead
    <3> QED
      BY <3>1, <3>2 DEF Keeps, Holds
  <2>2. pc'[t] = "read"
    BY <1>1, <1>8
  <2>3. /\ UNCHANGED <<settings, request_mutex_, guarded, handle, calls, res, ret, error,
                       socket_, session>>
    BY <1>8 DEF ReadContinue
  <2> QED
    BY <1>1, <1>4, <1>8, <2>1, <2>2, <2>3, TurnWaits
<1>9. CASE /\ net' = Taken(socket_) /\ Outcome(t, FALSE, "Failed")
           /\ Goto(t, "exit") /\ UNCHANGED stack
  <2>1. "Failed" \in ErrorNames
    BY DEF ErrorNames
  <2> QED
    BY <1>1, <1>5, <1>9, <2>1, TurnFails DEF ReadContinue
<1> QED
  BY <1>2, <1>6, <1>7, <1>8, <1>9 DEF ReadContinue

\* The final response: with it the connection holds nothing any more.
LEMMA ResponseKeeps == ASSUME IInv, NEW t \in Callers, ReadResponse(t) PROVE IInv'
<1> DEFINE f == Top(t)
           r == Reply(socket_)
<1>1. Talks(t) /\ pc[t] = "read"
  BY DEF ReadResponse, Talks
<1>2. /\ stack[t] # <<>> /\ f \in Frames
      /\ socket_ \in Conns /\ f.conn = socket_ /\ Holds(socket_, f.msg)
  BY <1>1, Talking
<1>3. net[socket_].replies # <<>> /\ Final(r)
  BY <1>2 DEF ReadResponse, Final
<1>4. Types /\ Nets
  BY DEF IInv, Types
<1>5. ASSUME net' = Taken(socket_)
      PROVE  /\ Touches(socket_) /\ Empty(net'[socket_])
             /\ r \in Replies /\ r.to = f.msg
  <2>1. PICK c, m : c = socket_ /\ m = f.msg
    BY <1>2
  <2>2. Reply(c) \in Replies /\ Reply(c).to = m /\ Touches(c) /\ Clean(c)'
    <3>1. /\ Holds(c, m) /\ Final(Reply(c)) /\ net' = Taken(c) /\ net[c].replies # <<>>
          /\ c \in Conns
      BY <1>2, <1>3, <1>5, <2>1
    <3> QED
      BY <1>4, <3>1, NetRead
  <2> QED
    BY <2>1, <2>2 DEF Clean
<1>6. CASE /\ net' = Taken(socket_) /\ SetTop(t, [f EXCEPT !.res = r])
           /\ ret' = [ret EXCEPT ![t] = TRUE] /\ Goto(t, "handled") /\ UNCHANGED error
  <2> DEFINE g == [f EXCEPT !.res = r]
  <2>1. /\ g \in Frames /\ g.conn = f.conn /\ g.after = f.after
        /\ g.msg = f.msg /\ g.res = r
    BY <1>2, <1>5, <1>6 DEF Frames
  <2>2. SetTop(t, g)
    BY <1>6
  <2> HIDE DEF g
  <2>3. Reframed(t) /\ Top(t)' = g
    BY <1>2, <1>4, <2>1, <2>2, TopReframed DEF Types
  <2>4. GoesOn(t, "handled") /\ UNCHANGED <<socket_, session>>
    BY <1>6, <2>3 DEF GoesOn, ReadResponse
  <2>5. Conversing(t)' /\ Clean(socket_)'
    <3>1. pc'[t] = "handled"
      BY <1>4, <1>6 DEF Types, Locals, Goto
    <3>2. Top(t)'.res.to = Top(t)'.msg
      BY <1>5, <1>6, <2>1, <2>3
    <3> QED
      BY <1>5, <1>6, <2>4, <3>1, <3>2 DEF Conversing, Clean
  <2>6. error' \in [Callers -> ErrorNames] /\ ret' \in [Callers -> BOOLEAN]
    BY <1>4, <1>6 DEF Types, Locals
  <2> QED
    BY <1>1, <1>5, <1>6, <2>4, <2>5, <2>6, TurnGoesOn
<1>7. CASE /\ net' = Taken(socket_) /\ ret' = [ret EXCEPT ![t] = FALSE]
           /\ Goto(t, "exit") /\ UNCHANGED <<stack, error>>
  <2>1. PICK e : e = error[t]
    OBVIOUS
  <2>2. e \in ErrorNames /\ Outcome(t, FALSE, e)
    BY <1>4, <1>7, <2>1 DEF Types, Locals, Outcome
  <2> QED
    BY <1>1, <1>5, <1>7, <2>2, TurnFails DEF ReadResponse
<1>8. CASE /\ net' = [net EXCEPT ![socket_].replies[1].status = "rest"]
           /\ Outcome(t, FALSE, "Failed") /\ Goto(t, "exit") /\ UNCHANGED stack
  <2>1. "Failed" \in ErrorNames /\ "rest" \in ReplyStatuses
    BY DEF ErrorNames, ReplyStatuses
  <2>2. Touches(socket_)
    BY <1>2, <1>3, <1>4, <1>8, <2>1, NetSpoilt
  <2> QED
    BY <1>1, <1>8, <2>1, <2>2, TurnFails DEF ReadResponse
<1> QED
  BY <1>2, <1>6, <1>7, <1>8 DEF ReadResponse

-----------------------------------------------------------------------------
(* The frames of a call: every step keeps the invariant *)

\* What a message and a frame are made of.
LEMMA MessageTypes ==
    /\ NoReply \in Replies
    /\ \A t \in Callers, n, h \in Nat,
          r \in [method : Methods, upload : Uploads, expect : BOOLEAN] :
         Message(t, n, h, r) \in Messages
    /\ \A m \in Messages, n, k \in Nat, a \in {"idle", "auth", "exit"} :
         /\ Frame(m, n, k, a) \in Frames
         /\ Frame(m, n, k, a).conn = NoConn /\ Frame(m, n, k, a).after = a
    /\ \A s, r : r \in [method : Methods, upload : Uploads, expect : BOOLEAN] =>
         Redirected(r, s) \in [method : Methods, upload : Uploads, expect : BOOLEAN]
<1>1. NoMessage \in Messages
  BY DEF NoMessage, Messages, Methods, Uploads
<1>2. NoReply \in Replies
  BY <1>1 DEF NoReply, Replies, ReplyStatuses
<1>3. \A t \in Callers, n, h \in Nat,
         r \in [method : Methods, upload : Uploads, expect : BOOLEAN] :
        Message(t, n, h, r) \in Messages
  BY DEF Message, Messages
<1>4. ASSUME NEW m \in Messages, NEW n \in Nat, NEW k \in Nat, NEW a \in {"idle", "auth", "exit"}
      PROVE  /\ Frame(m, n, k, a) \in Frames
             /\ Frame(m, n, k, a).conn = NoConn /\ Frame(m, n, k, a).after = a
  <2>1. m.req.expect \in BOOLEAN
    BY DEF Messages
  <2> QED
    BY <1>2, <2>1 DEF Frame, Frames
<1>5. \A s, r : r \in [method : Methods, upload : Uploads, expect : BOOLEAN] =>
        Redirected(r, s) \in [method : Methods, upload : Uploads, expect : BOOLEAN]
  BY DEF Redirected, Methods, Uploads
<1> QED
  BY <1>2, <1>3, <1>4, <1>5

\* A request is sent from inside another one.
LEMMA NestedSend ==
    ASSUME Types, Threads, InFlight, NEW t \in Callers, InCall(t), ~Bare(t),
           NEW m \in Messages, NEW n \in Nat, NEW k \in Nat, NEW a \in {"auth", "exit"},
           Nested(t, m, n, k, a), UNCHANGED <<request_mutex_, guarded, handle>>
    PROVE  Stacks' /\ Threads' /\ InFlight'
<1> DEFINE f == Frame(m, n, k, a)
           z == Len(stack[t])
<1>1. f \in Frames /\ f.conn = NoConn /\ f.after = a
  BY MessageTypes
<1>2. stack' = [stack EXCEPT ![t] = Append(@, f)] /\ Goto(t, "prepare")
  BY DEF Nested
<1>3. Stacks
  BY DEF Types
<1> HIDE DEF f
<1>4. /\ Stacks' /\ stack'[t] # <<>>
      /\ z \in Nat /\ Len(stack'[t]) = z + 1
      /\ DOMAIN stack[t] = 1 .. z /\ DOMAIN stack'[t] = 1 .. z + 1
      /\ stack'[t][z + 1] = f
      /\ \A i \in 1 .. z : stack'[t][i] = stack[t][i]
      /\ \A s \in Callers : s # t => stack'[s] = stack[s]
  BY <1>1, <1>2, <1>3, FramePushed
<1>5. /\ request_mutex_ = t /\ request_mutex_' = t /\ handle[t] = NoConn /\ handle'[t] = NoConn
      /\ \A s \in Callers : s # t => ~InCall(s)
  BY <1>3, InTheCall
<1>6. z # 0 /\ socket_requests_in_flight_ = z
  BY HasConnection
<1>7. pc'[t] = "prepare" /\ \A s \in Callers : s # t => pc'[s] = pc[s]
  BY <1>2 DEF Types, Locals, Goto
<1>8. InCall(t)' /\ ~InStream(t)' /\ Bare(t)'
  BY <1>7 DEF InCall, InStream, Bare
<1> HIDE DEF z
<1>9. Framed(t)'
  <2> SUFFICES ASSUME NEW i \in 1 .. z + 1
               PROVE  /\ stack'[t][i].conn = NoConn <=> i = z + 1
                      /\ stack'[t][i].after = "idle" <=> i = 1
    BY <1>4, <1>8 DEF Framed
  <2>1. CASE i = z + 1
    <3>1. z + 1 # 1
      BY <1>4, <1>6
    <3> QED
      BY <1>1, <1>4, <2>1, <3>1
  <2>2. CASE i # z + 1
    <3>1. i \in 1 .. z
      BY <1>4, <2>2
    <3>2. stack[t][i].conn # NoConn /\ (stack[t][i].after = "idle" <=> i = 1)
      BY <1>4, <3>1 DEF Threads, Framed
    <3> QED
      BY <1>4, <2>2, <3>1, <3>2
  <2> QED
    BY <2>1, <2>2
<1>10. Threads'
  <2>1. ASSUME NEW s \in Callers, s # t
        PROVE  /\ InCall(s)' <=> stack'[s] # <<>>
               /\ InCall(s)' <=> request_mutex_' = s
               /\ InStream(s)' <=> handle'[s] # NoConn
               /\ Framed(s)'
    BY <1>4, <1>7, <2>1, OtherThread
  <2>2. /\ InCall(t)' <=> stack'[t] # <<>>
        /\ InCall(t)' <=> request_mutex_' = t
        /\ InStream(t)' <=> handle'[t] # NoConn
    BY <1>4, <1>5, <1>8
  <2> QED
    BY <1>9, <2>1, <2>2 DEF Threads
<1>11. InFlight'
  <2>1. t # Nobody
    BY ClientAssumption
  <2>2. /\ socket_requests_in_flight_' = socket_requests_in_flight_
        /\ socket_requests_are_from_thread_' = socket_requests_are_from_thread_
    BY DEF guarded
  <2>3. socket_requests_in_flight_' = Len(stack'[t]) - 1
    BY <1>4, <1>6, <2>2
  <2> QED
    BY <1>5, <1>8, <2>1, <2>2, <2>3 DEF InFlight
<1> QED
  BY <1>4, <1>10, <1>11

\* A step of thread t in the call, without talking: what it leaves of the rest.
LEMMA CallGoesOn ==
    ASSUME IInv, NEW t \in Callers, InCall(t),
           NEW l \in {"idle", "prepare", "auth", "exit", "return"}, Goto(t, l),
           UNCHANGED <<settings, handle, res, calls>>,
           \/ Disconnect(net)
           \/ UNCHANGED <<net, socket_, session>> /\ ~Outstanding(t)
    PROVE  /\ Nets' /\ Owners' /\ Exchanges'
           /\ socket_' \in Conns \cup {NoConn} /\ session' \in BOOLEAN
<1>1. Types
  BY DEF IInv
<1>2. \A s \in Callers : s # t => ~InCall(s)
  BY InTheCall DEF IInv, Types
<1>3. pc'[t] = l /\ \A s \in Callers : s # t => pc'[s] = pc[s]
  BY <1>1 DEF Types, Locals, Goto
<1>4. \A s \in Callers : Lets(s)
  <2>1. Lets(t)
    BY <1>3 DEF Lets, Talks, InStream
  <2>2. ASSUME NEW s \in Callers, s # t PROVE Lets(s)
    BY <1>2, <1>3, <2>2 DEF Lets, Talks, InStream, InCall
  <2> QED
    BY <2>1, <2>2
<1>5. \A s \in Callers : s # t => ~Outstanding(s)
  BY <1>2 DEF Outstanding, InCall, InStream
<1> QED
  BY <1>4, <1>5, LetsGo

\* What a nested request sends.
LEMMA NextMessageType ==
    ASSUME Types, NEW t \in Callers, Top(t) \in Frames
    PROVE  /\ Top(t).msg \in Messages
           /\ NextMessage(t, Top(t).msg.req) \in Messages
           /\ \A s : NextMessage(t, Redirected(Top(t).msg.req, s)) \in Messages
<1>1. /\ Top(t).msg \in Messages /\ calls[t] \in Nat /\ Top(t).msg.hop + 1 \in Nat
      /\ Top(t).msg.req \in [method : Methods, upload : Uploads, expect : BOOLEAN]
  <2>1. Top(t).msg \in Messages /\ Top(t).msg.hop \in Nat
    BY FrameUpdates
  <2>2. calls[t] \in Nat
    BY DEF Types, Locals
  <2>3. Top(t).msg.req \in [method : Methods, upload : Uploads, expect : BOOLEAN]
    BY <2>1 DEF Messages
  <2> QED
    BY <2>1, <2>2, <2>3
<1> QED
  BY <1>1, MessageTypes DEF NextMessage

\* handle_request: the connection is given up, and a redirect is followed.
LEMMA HandledKeeps == ASSUME IInv, NEW t \in Callers, Handled(t) PROVE IInv'
<1> DEFINE f == Top(t)
<1>1. Types /\ Stacks /\ Threads /\ InFlight
  BY DEF IInv, Types
<1>2. pc[t] = "handled" /\ InCall(t) /\ ~Bare(t) /\ ~Outstanding(t)
  BY DEF Handled, InCall, InStream, Bare, Outstanding
<1>3. stack[t] # <<>> /\ f \in Frames
  BY <1>1, <1>2, InTheCall
<1>4. /\ f.redirects \in Nat /\ f.auths \in Nat /\ f.msg \in Messages
      /\ \A s : NextMessage(t, Redirected(f.msg.req, s)) \in Messages
  BY <1>1, <1>3, FrameUpdates, NextMessageType
<1>5. UNCHANGED <<settings, request_mutex_, guarded, handle, calls, res>>
  BY DEF Handled
<1>6. Disconnect(net) \/ UNCHANGED <<net, socket_, session>>
  BY DEF Handled
<1>7. ret' \in [Callers -> BOOLEAN] /\ error' \in [Callers -> ErrorNames]
  <2>1. \/ UNCHANGED <<ret, error>> \/ Outcome(t, FALSE, "Failed")
        \/ UNCHANGED error /\ ret' = [ret EXCEPT ![t] = FALSE]
    BY DEF Handled, AskElsewhere
  <2> QED
    BY <1>1, <2>1 DEF Types, Locals, Outcome, ErrorNames
<1>8. ASSUME NEW l \in {"auth", "prepare"}, Goto(t, l), Stacks', Threads', InFlight'
      PROVE  IInv'
  <2>1. /\ Nets' /\ Owners' /\ Exchanges'
        /\ socket_' \in Conns \cup {NoConn} /\ session' \in BOOLEAN
    BY <1>2, <1>5, <1>6, <1>8, CallGoesOn
  <2>2. pc' \in [Callers -> Labels]
    BY <1>1, <1>8 DEF Types, Locals, Goto, Labels
  <2>3. Types'
    BY <1>1, <1>5, <1>7, <1>8, <2>1, <2>2 DEF Types, Scalars, Locals, guarded
  <2> QED
    BY <1>8, <2>1, <2>3 DEF IInv
<1>9. CASE Goto(t, "auth") /\ UNCHANGED stack
  <2>1. GoesOn(t, "auth")
    BY <1>1, <1>5, <1>9, NothingReframed DEF GoesOn
  <2>2. Threads' /\ InFlight' /\ Stacks'
    BY <1>1, <1>2, <2>1, ThreadsGoOn DEF GoesOn, Reframed
  <2> QED
    BY <1>8, <1>9, <2>2
<1>10. CASE AskElsewhere(t) /\ Goto(t, "auth")
  <2>1. CASE UNCHANGED stack
    BY <1>9, <1>10, <2>1
  <2>2. ASSUME NEW s \in {"ok", "auth"},
               SetTop(t, [f EXCEPT !.res.status = s, !.res.close = FALSE])
        PROVE  IInv'
    <3> DEFINE g == [f EXCEPT !.res.status = s, !.res.close = FALSE]
    <3>1. s \in ReplyStatuses
      BY DEF ReplyStatuses, Answers
    <3>2. g \in Frames
      BY <1>3, <3>1, FrameUpdates
    <3>3. g.conn = f.conn /\ g.after = f.after
      BY <1>3 DEF Frames
    <3> HIDE DEF g
    <3>4. Reframed(t)
      BY <1>1, <1>3, <2>2, <3>2, <3>3, TopReframed DEF g
    <3>5. GoesOn(t, "auth")
      BY <1>5, <1>10, <3>4 DEF GoesOn
    <3>6. Threads' /\ InFlight' /\ Stacks'
      BY <1>1, <1>2, <3>4, <3>5, ThreadsGoOn DEF Reframed
    <3> QED
      BY <1>8, <1>10, <3>6
  <2> QED
    BY <1>10, <2>1, <2>2 DEF AskElsewhere
<1>11. CASE /\ f.redirects > 0
            /\ Nested(t, NextMessage(t, Redirected(f.msg.req, f.res.status)),
                      f.redirects - 1, f.auths, "auth")
  <2>1. PICK m \in Messages, n \in Nat, k \in Nat : Nested(t, m, n, k, "auth")
    <3>1. f.redirects - 1 \in Nat
      BY <1>4, <1>11
    <3> QED
      BY <1>4, <1>11, <3>1
  <2>2. Threads' /\ InFlight' /\ Stacks'
    BY <1>1, <1>2, <1>5, <2>1, NestedSend
  <2> QED
    BY <1>8, <2>1, <2>2 DEF Nested
<1> QED
  BY <1>9, <1>10, <1>11 DEF Handled

\* A challenge is answered, or the request is done.
LEMMA AuthenticateKeeps == ASSUME IInv, NEW t \in Callers, Authenticate(t) PROVE IInv'
<1> DEFINE f == Top(t)
<1>1. Types /\ Stacks /\ Threads /\ InFlight
  BY DEF IInv, Types
<1>2. pc[t] = "auth" /\ InCall(t) /\ ~Bare(t) /\ ~Outstanding(t)
  BY DEF Authenticate, InCall, InStream, Bare, Outstanding
<1>3. stack[t] # <<>> /\ f \in Frames
  BY <1>1, <1>2, InTheCall
<1>4. /\ f.redirects \in Nat /\ f.auths + 1 \in Nat /\ NextMessage(t, f.msg.req) \in Messages
  <2>1. f.redirects \in Nat /\ f.auths \in Nat
    BY <1>3, FrameUpdates
  <2>2. NextMessage(t, f.msg.req) \in Messages
    BY <1>1, <1>3, NextMessageType
  <2> QED
    BY <2>1, <2>2
<1>5. UNCHANGED <<settings, request_mutex_, socket_, session, guarded, net, result,
                  handle, calls>>
  BY DEF Authenticate
<1>6. ASSUME NEW l \in {"exit", "prepare"}, Goto(t, l), Stacks', Threads', InFlight'
      PROVE  IInv'
  <2>1. Nets' /\ Owners' /\ Exchanges'
    BY <1>2, <1>5, <1>6, CallGoesOn DEF result
  <2>2. pc' \in [Callers -> Labels]
    BY <1>1, <1>6 DEF Types, Locals, Goto, Labels
  <2>3. Types'
    BY <1>1, <1>5, <1>6, <2>1, <2>2 DEF Types, Scalars, Locals, guarded, result
  <2> QED
    BY <1>6, <2>1, <2>3 DEF IInv
<1>7. CASE Goto(t, "exit") /\ UNCHANGED stack
  <2>1. GoesOn(t, "exit")
    BY <1>1, <1>5, <1>7, NothingReframed DEF GoesOn, result
  <2>2. Threads' /\ InFlight' /\ Stacks'
    BY <1>1, <1>2, <2>1, ThreadsGoOn DEF GoesOn, Reframed
  <2> QED
    BY <1>6, <1>7, <2>2
<1>8. CASE Nested(t, NextMessage(t, f.msg.req), f.redirects, f.auths + 1, "exit")
  <2>1. PICK m \in Messages, n \in Nat, k \in Nat : Nested(t, m, n, k, "exit")
    BY <1>4, <1>8
  <2>2. Threads' /\ InFlight' /\ Stacks'
    BY <1>1, <1>2, <1>5, <2>1, NestedSend
  <2> QED
    BY <1>6, <2>1, <2>2 DEF Nested
<1> QED
  BY <1>7, <1>8 DEF Authenticate

\* The scope_exit of send_: the frame has no connection any more.
LEMMA ExitIsKept == ASSUME IInv, NEW t \in Callers, Exit(t) PROVE IInv'
<1> DEFINE f == [Top(t) EXCEPT !.conn = NoConn]
           z == Len(stack[t])
<1>1. Types /\ Stacks /\ Threads /\ InFlight
  BY DEF IInv, Types
<1>2. pc[t] = "exit" /\ InCall(t) /\ ~Bare(t) /\ (Outstanding(t) <=> ~ret[t])
  BY DEF Exit, InCall, InStream, Bare, Outstanding
<1>3. /\ stack[t] # <<>> /\ Top(t) \in Frames /\ z \in Nat \ {0}
      /\ Top(t) = stack[t][z] /\ DOMAIN stack[t] = 1 .. z
      /\ request_mutex_ = t /\ handle[t] = NoConn
      /\ \A s \in Callers : s # t => ~InCall(s)
  BY <1>1, <1>2, InTheCall
<1>4. f \in Frames /\ f.conn = NoConn /\ f.after = Top(t).after
  BY <1>3 DEF Frames
<1>5. /\ SetTop(t, f) /\ Goto(t, "return")
      /\ UNCHANGED <<settings, request_mutex_, ret, res, handle, calls,
                     socket_should_be_closed_when_request_is_done_>>
  BY DEF Exit
<1> HIDE DEF f
<1>6. /\ Stacks' /\ stack'[t] # <<>>
      /\ DOMAIN stack'[t] = 1 .. z /\ Len(stack'[t]) = z /\ stack'[t][z] = f
      /\ \A i \in 1 .. z - 1 : stack'[t][i] = stack[t][i]
      /\ \A s \in Callers : s # t => stack'[s] = stack[s]
  BY <1>1, <1>3, <1>4, <1>5, TopSet
<1>7. /\ Nets' /\ Owners' /\ Exchanges'
      /\ socket_' \in Conns \cup {NoConn} /\ session' \in BOOLEAN
  <2>1. Disconnect(net) \/ (UNCHANGED <<net, socket_, session>> /\ ~Outstanding(t))
    <3>1. Disconnect(net) \/ UNCHANGED <<net, socket_, session>>
      BY DEF Exit
    <3>2. Outstanding(t) => Disconnect(net)
      BY DEF Exit, Outstanding
    <3> QED
      BY <3>1, <3>2
  <2> QED
    BY <1>2, <1>5, <2>1, CallGoesOn
<1>8. socket_requests_in_flight_ = z
  BY <1>1, <1>2, HasConnection
<1>9. socket_requests_in_flight_' = z - 1
  BY <1>8 DEF Exit
<1>10. pc' \in [Callers -> Labels] /\ pc'[t] = "return"
       /\ \A s \in Callers : s # t => pc'[s] = pc[s]
  BY <1>1, <1>5 DEF Types, Locals, Goto, Labels
<1>11. error' \in [Callers -> ErrorNames]
  BY <1>1 DEF Types, Locals, Exit, ErrorNames
<1> HIDE DEF z
<1>12. z - 1 \in Nat /\ \A i \in 1 .. z : i = z \/ i \in 1 .. z - 1
  BY <1>3
<1>13. Types'
  BY <1>1, <1>5, <1>6, <1>7, <1>9, <1>10, <1>11, <1>12 DEF Types, Scalars, Locals
<1>14. InCall(t)' /\ ~InStream(t)' /\ Bare(t)'
  BY <1>10 DEF InCall, InStream, Bare
<1>15. Framed(t)'
  <2>1. ASSUME NEW i \in 1 .. z - 1
        PROVE  /\ stack'[t][i].conn # NoConn /\ i # z
               /\ stack'[t][i].after = "idle" <=> i = 1
    <3>1. i \in 1 .. z /\ i # z
      BY <1>3, <2>1
    <3> QED
      BY <1>1, <1>2, <1>3, <1>6, <3>1 DEF Threads, Framed
  <2>2. stack'[t][z].conn = NoConn /\ (stack'[t][z].after = "idle" <=> z = 1)
    <3>1. z \in 1 .. z
      BY <1>3
    <3> QED
      BY <1>1, <1>3, <1>4, <1>6, <3>1 DEF Threads, Framed
  <2> QED
    BY <1>6, <1>12, <1>14, <2>1, <2>2 DEF Framed
<1>16. Threads'
  <2>1. ASSUME NEW s \in Callers, s # t
        PROVE  /\ InCall(s)' <=> stack'[s] # <<>>
               /\ InCall(s)' <=> request_mutex_' = s
               /\ InStream(s)' <=> handle'[s] # NoConn
               /\ Framed(s)'
    BY <1>1, <1>5, <1>6, <1>10, <2>1, OtherThread
  <2>2. /\ InCall(t)' <=> stack'[t] # <<>>
        /\ InCall(t)' <=> request_mutex_' = t
        /\ InStream(t)' <=> handle'[t] # NoConn
    BY <1>3, <1>5, <1>6, <1>14
  <2> QED
    BY <1>15, <2>1, <2>2 DEF Threads
<1>17. InFlight'
  <2>1. t # Nobody /\ request_mutex_' = t
    BY <1>3, <1>5, ClientAssumption
  <2>2. socket_requests_in_flight_ # 0 /\ (z - 1 = 0 <=> z = 1)
    BY <1>3, <1>8
  <2>3. socket_requests_are_from_thread_ = t
    BY <1>1, <1>3, <2>2 DEF InFlight
  <2>4. socket_requests_are_from_thread_' = IF z = 1 THEN Nobody ELSE t
    BY <1>8, <2>3 DEF Exit
  <2> QED
    BY <1>6, <1>9, <1>14, <2>1, <2>2, <2>4 DEF InFlight
<1> QED
  BY <1>7, <1>13, <1>16, <1>17 DEF IInv

\* The end of send_: one more try, the frame below, or the caller's Result.
LEMMA ReturnKeeps == ASSUME IInv, NEW t \in Callers, Return(t) PROVE IInv'
<1> DEFINE f == Top(t)
           z == Len(stack[t])
<1>1. Types /\ Stacks /\ Threads /\ InFlight
  BY DEF IInv, Types
<1>2. pc[t] = "return" /\ InCall(t) /\ Bare(t) /\ ~Outstanding(t)
  BY DEF Return, InCall, InStream, Bare, Outstanding
<1>3. /\ stack[t] # <<>> /\ f \in Frames /\ z \in Nat \ {0} /\ DOMAIN stack[t] = 1 .. z
      /\ f = stack[t][z] /\ request_mutex_ = t /\ handle[t] = NoConn /\ t # Nobody
      /\ \A s \in Callers : s # t => ~InCall(s)
  BY <1>1, <1>2, InTheCall, ClientAssumption
<1>4. \A i \in DOMAIN stack[t] : /\ stack[t][i].conn = NoConn <=> i = z
                                 /\ stack[t][i].after = "idle" <=> i = 1
  <2>1. Framed(t)
    BY <1>1 DEF Threads
  <2> QED
    BY <1>2, <1>3, <2>1 DEF Framed
<1>5. UNCHANGED <<settings, socket_, session, guarded, net, res, handle, calls>>
  BY DEF Return
<1>6. socket_requests_in_flight_ = z - 1
  BY <1>1, <1>2, <1>3 DEF InFlight
<1>7. ret' \in [Callers -> BOOLEAN] /\ error' \in [Callers -> ErrorNames]
  BY <1>1 DEF Types, Locals, Return, Outcome, ErrorNames
<1>8. ASSUME NEW l \in {"idle", "prepare", "auth", "exit"}, Goto(t, l),
             request_mutex_' \in {t, Nobody}, Stacks',
             \A s \in Callers : s # t => stack'[s] = stack[s],
             /\ InCall(t)' <=> stack'[t] # <<>>
             /\ InCall(t)' <=> request_mutex_' = t
             /\ Framed(t)',
             IF Bare(t)' THEN socket_requests_in_flight_ = Len(stack'[t]) - 1
                         ELSE socket_requests_in_flight_ = Len(stack'[t]),
             request_mutex_' = Nobody => socket_requests_in_flight_ = 0
      PROVE  IInv'
  <2>1. Nets' /\ Owners' /\ Exchanges'
    BY <1>2, <1>5, <1>8, CallGoesOn
  <2>2. pc' \in [Callers -> Labels] /\ pc'[t] = l /\ \A s \in Callers : s # t => pc'[s] = pc[s]
    BY <1>1, <1>8 DEF Types, Locals, Goto, Labels
  <2>3. Types'
    <3>1. request_mutex_' \in Callers \cup {Nobody}
      BY <1>8
    <3>2. Scalars'
      BY <1>1, <1>5, <3>1 DEF Types, Scalars, guarded
    <3>3. Locals'
      BY <1>1, <1>5, <1>7, <2>2 DEF Types, Locals
    <3> QED
      BY <1>8, <2>1, <3>2, <3>3 DEF Types
  <2>4. Threads'
    <3>1. ASSUME NEW s \in Callers, s # t
          PROVE  /\ InCall(s)' <=> stack'[s] # <<>>
                 /\ InCall(s)' <=> request_mutex_' = s
                 /\ InStream(s)' <=> handle'[s] # NoConn
                 /\ Framed(s)'
      <4>1. s # Nobody
        BY ClientAssumption
      <4>2. /\ pc'[s] = pc[s] /\ stack'[s] = stack[s] /\ handle'[s] = handle[s]
            /\ request_mutex_' = s <=> request_mutex_ = s
        BY <1>3, <1>5, <1>8, <2>2, <3>1, <4>1
      <4> QED
        BY <1>1, <4>2, OtherThread
    <3>2. InStream(t)' <=> handle'[t] # NoConn
      BY <1>3, <1>5, <2>2 DEF InStream
    <3> QED
      BY <1>8, <3>1, <3>2 DEF Threads
  <2>5. InFlight'
    <3>1. socket_requests_in_flight_' = socket_requests_in_flight_
      BY <1>5 DEF guarded
    <3>2. \A s \in Callers : request_mutex_' = s => s = t
      BY <1>8, ClientAssumption
    <3>3. socket_requests_are_from_thread_'
            = IF socket_requests_in_flight_ = 0 THEN Nobody ELSE t
      BY <1>1, <1>3, <1>5 DEF InFlight, guarded
    <3>4. socket_requests_in_flight_ # 0 => request_mutex_' = t
      BY <1>8
    <3> QED
      BY <1>8, <3>1, <3>2, <3>3, <3>4 DEF InFlight
  <2> QED
    BY <2>1, <2>3, <2>4, <2>5 DEF IInv
<1>9. CASE /\ SetTop(t, [f EXCEPT !.second = TRUE]) /\ Goto(t, "prepare")
           /\ UNCHANGED request_mutex_
  <2> DEFINE g == [f EXCEPT !.second = TRUE]
  <2>1. g \in Frames /\ g.conn = f.conn /\ g.after = f.after
    BY <1>3 DEF Frames
  <2>2. SetTop(t, g)
    BY <1>9
  <2> HIDE DEF g
  <2>3. Reframed(t) /\ stack'[t] # <<>>
    BY <1>1, <1>3, <2>1, <2>2, TopReframed, TopSet
  <2>4. pc'[t] = "prepare"
    BY <1>1, <1>9 DEF Types, Locals, Goto
  <2>5. InCall(t)' /\ Bare(t)'
    BY <2>4 DEF InCall, InStream, Bare
  <2>6. Framed(t)'
    BY <1>1, <1>2, <2>3, <2>5 DEF Threads, Framed, Reframed
  <2>7. Len(stack'[t]) = z
    BY <2>3 DEF Reframed
  <2>8. request_mutex_' = t
    BY <1>3, <1>9
  <2> QED
    BY <1>3, <1>6, <1>8, <1>9, <2>3, <2>5, <2>6, <2>7, <2>8 DEF Reframed
<1>10. CASE /\ Front(stack[t]) # <<>> /\ Goto(t, f.after) /\ UNCHANGED request_mutex_
            /\ stack' = [stack EXCEPT ![t] =
                 IF ~ret[t] THEN Front(stack[t])
                 ELSE Front(Front(stack[t])) \o
                        <<[Last(Front(stack[t])) EXCEPT !.res = f.res,
                             !.redirects = IF f.after = "auth" THEN f.redirects
                                                               ELSE @]>>]
  <2>1. PICK g : stack' = [stack EXCEPT ![t] = g] /\ Resumes(stack[t], g)
    <3> DEFINE b == Front(stack[t])
               n == IF f.after = "auth" THEN f.redirects ELSE Last(b).redirects
               g == IF ~ret[t] THEN b
                    ELSE WithLast(b, [Last(b) EXCEPT !.res = f.res, !.redirects = n])
    <3>1. stack' = [stack EXCEPT ![t] = g]
      BY <1>10 DEF WithLast
    <3>2. f.res \in Replies /\ n \in Nat
      <4>1. stack[t] \in Seq(Frames) /\ stack[t] # <<>>
        BY <1>1, <1>3 DEF Stacks
      <4>2. b \in Seq(Frames)
        BY <4>1, LastFront
      <4>3. b # <<>>
        BY <1>10
      <4>4. Last(b) \in Frames
        BY <4>2, <4>3, LastFront
      <4>5. Last(b).redirects \in Nat
        BY <4>4, FrameUpdates
      <4>6. f.res \in Replies /\ f.redirects \in Nat
        BY <1>3, FrameUpdates
      <4> QED
        BY <4>5, <4>6
    <3>3. Resumes(stack[t], g)
      BY <3>2 DEF Resumes
    <3> HIDE DEF g
    <3> QED
      BY <3>1, <3>3
  <2>2. /\ stack'[t] # <<>> /\ z > 1 /\ Len(stack'[t]) = z - 1
        /\ DOMAIN stack'[t] = 1 .. z - 1 /\ Stacks'
        /\ \A i \in 1 .. z - 1 : /\ stack'[t][i].conn = stack[t][i].conn
                                 /\ stack'[t][i].after = stack[t][i].after
        /\ \A s \in Callers : s # t => stack'[s] = stack[s]
    BY <1>1, <1>3, <1>10, <2>1, FramePopped
  <2>3. f.after \in {"auth", "exit"}
    <3>1. z \in 1 .. z /\ z # 1
      BY <1>3, <2>2
    <3>2. f.after = "idle" <=> z = 1
      <4> HIDE DEF f, z
      <4> QED
        <5>1. f = stack[t][z] /\ z \in DOMAIN stack[t]
          BY <1>3, <3>1
        <5>2. stack[t][z].after = "idle" <=> z = 1
          BY <1>4, <5>1
        <5> QED
          BY <5>1, <5>2
    <3> QED
      BY <1>3, <3>1, <3>2, FrameUpdates
  <2>4. pc'[t] = f.after
    BY <1>1, <1>10, <2>3 DEF Types, Locals, Goto
  <2>5. InCall(t)' /\ ~Bare(t)'
    BY <2>3, <2>4 DEF InCall, InStream, Bare
  <2>6. Framed(t)'
    <3>1. ASSUME NEW i \in 1 .. z - 1
          PROVE  /\ stack'[t][i].conn # NoConn
                 /\ stack'[t][i].after = "idle" <=> i = 1
      <4>1. i \in 1 .. z /\ i # z
        BY <1>3, <3>1
      <4> HIDE DEF z
      <4> QED
        <5>1. /\ stack'[t][i].conn = stack[t][i].conn
              /\ stack'[t][i].after = stack[t][i].after
          BY <2>2
        <5>4. i \in DOMAIN stack[t] /\ i # z
          BY <1>3, <4>1
        <5>2. stack[t][i].conn # NoConn
          BY <1>4, <5>4
        <5>3. stack[t][i].after = "idle" <=> i = 1
          BY <1>4, <5>4
        <5> QED
          BY <5>1, <5>2, <5>3
    <3> QED
      BY <2>2, <2>5, <3>1 DEF Framed
  <2>7. request_mutex_' = t
    BY <1>3, <1>10
  <2> HIDE DEF f, z
  <2> QED
    BY <1>3, <1>6, <1>8, <1>10, <2>2, <2>3, <2>5, <2>6, <2>7
<1>11. CASE /\ Front(stack[t]) = <<>> /\ stack' = [stack EXCEPT ![t] = <<>>]
            /\ Goto(t, "idle") /\ request_mutex_' = Nobody
  <2>1. z = 1
    BY <1>1, <1>3, <1>11, LastFront DEF Stacks
  <2>2. <<>> \in Seq(Frames) /\ DOMAIN <<>> = {} /\ Len(<<>>) = 0
    BY NoElement, EmptySeq
  <2>3. stack'[t] = <<>> /\ Stacks' /\ \A s \in Callers : s # t => stack'[s] = stack[s]
    BY <1>1, <1>11, <2>2 DEF Stacks
  <2>4. pc'[t] = "idle"
    BY <1>1, <1>11 DEF Types, Locals, Goto
  <2>5. ~InCall(t)' /\ ~Bare(t)'
    BY <2>4 DEF InCall, Bare
  <2>6. Framed(t)'
    BY <2>2, <2>3 DEF Framed
  <2>7. socket_requests_in_flight_ = 0
    BY <1>6, <2>1
  <2> HIDE DEF z, f
  <2> QED
    BY <1>3, <1>8, <1>11, <2>2, <2>3, <2>5, <2>6, <2>7
<1> QED
  BY <1>9, <1>10, <1>11 DEF Return

\* A thread starts a call, or its content provider cancels it at once.
LEMMA CallKeeps == ASSUME IInv, NEW t \in Callers, Call(t) PROVE IInv'
<1>1. Types /\ Stacks /\ Threads /\ InFlight
  BY DEF IInv, Types
<1>2. /\ pc[t] = "idle" /\ request_mutex_ = Nobody /\ t # Nobody
      /\ UNCHANGED <<settings, socket_, session, guarded, net, result, handle>>
      /\ calls' = [calls EXCEPT ![t] = @ + 1]
  BY ClientAssumption DEF Call
<1>3. \A s \in Callers : ~InCall(s) /\ ~Bare(s) /\ ~Outstanding(s)
  <2>1. \A s \in Callers : ~InCall(s)
    BY <1>1, <1>2, ClientAssumption DEF Threads
  <2> QED
    BY <2>1 DEF InCall, InStream, Bare, Outstanding
<1>4. /\ calls' \in [Callers -> Nat] /\ \A s \in Callers : s # t => calls'[s] = calls[s]
  BY <1>1, <1>2 DEF Types, Locals
<1>5. socket_requests_in_flight_ = 0 /\ socket_requests_are_from_thread_ = Nobody
  BY <1>1, <1>2 DEF InFlight
<1>6. ASSUME pc' \in [Callers -> Labels], pc'[t] \in {"idle", "prepare"},
             \A s \in Callers : s # t => pc'[s] = pc[s]
      PROVE  Nets' /\ Owners' /\ Exchanges'
  <2>1. ASSUME NEW s \in Callers PROVE Lets(s)
    <3>1. CASE s = t
      BY <1>6, <3>1 DEF Lets, Talks, InStream
    <3>2. CASE s # t
      BY <1>3, <1>4, <1>6, <3>2 DEF Lets, Talks, InCall, InStream
    <3> QED
      BY <3>1, <3>2
  <2> QED
    BY <1>2, <1>3, <2>1, LetsGo DEF result
<1>7. CASE UNCHANGED <<stack, pc, request_mutex_>>
  <2>1. Nets' /\ Owners' /\ Exchanges'
    BY <1>1, <1>2, <1>6, <1>7 DEF Types, Locals
  <2>2. Types'
    BY <1>1, <1>2, <1>4, <1>7, <2>1 DEF Types, Scalars, Locals, Stacks, guarded, result
  <2>3. Threads'
    <3>1. ASSUME NEW s \in Callers
          PROVE  /\ InCall(s)' <=> stack'[s] # <<>>
                 /\ InCall(s)' <=> request_mutex_' = s
                 /\ InStream(s)' <=> handle'[s] # NoConn
                 /\ Framed(s)'
      BY <1>1, <1>2, <1>7, OtherThread
    <3> QED
      BY <3>1 DEF Threads
  <2>4. InFlight'
    BY <1>2, <1>5, <1>7, ClientAssumption DEF InFlight, guarded
  <2> QED
    BY <2>1, <2>2, <2>3, <2>4 DEF IInv
<1>8. ASSUME NEW r \in Requests(settings),
             LET m == Message(t, calls'[t], 0, r)
             IN  stack' = [stack EXCEPT ![t] = <<Frame(m, Redirects, 0, "idle")>>],
             Goto(t, "prepare"), request_mutex_' = t
      PROVE  IInv'
  <2> DEFINE f == Frame(Message(t, calls'[t], 0, r), Redirects, 0, "idle")
  <2>1. f \in Frames /\ f.conn = NoConn /\ f.after = "idle"
    <3>1. r \in [method : Methods, upload : Uploads, expect : BOOLEAN]
      BY <1>1, ClientAssumption DEF Types, Scalars
    <3>2. Redirects \in Nat /\ calls'[t] \in Nat
      BY <1>4, ClientAssumption
    <3>3. Message(t, calls'[t], 0, r) \in Messages
      BY <3>1, <3>2, MessageTypes
    <3> QED
      BY <3>2, <3>3, MessageTypes
  <2>2. stack' = [stack EXCEPT ![t] = <<f>>]
    BY <1>8
  <2> HIDE DEF f
  <2>3. <<f>> \in Seq(Frames) /\ Len(<<f>>) = 1 /\ DOMAIN <<f>> = {1} /\ <<f>>[1] = f
        /\ <<f>> # <<>>
    BY <2>1
  <2>4. /\ stack'[t] = <<f>> /\ Stacks'
        /\ \A s \in Callers : s # t => stack'[s] = stack[s]
    BY <1>1, <2>2, <2>3 DEF Stacks
  <2>5. /\ pc' \in [Callers -> Labels] /\ pc'[t] = "prepare"
        /\ \A s \in Callers : s # t => pc'[s] = pc[s]
    BY <1>1, <1>8 DEF Types, Locals, Goto, Labels
  <2>6. Nets' /\ Owners' /\ Exchanges'
    BY <1>6, <2>5
  <2>7. Types'
    BY <1>1, <1>2, <1>4, <1>8, <2>4, <2>5, <2>6
    DEF Types, Scalars, Locals, guarded, result
  <2>8. InCall(t)' /\ Bare(t)' /\ ~InStream(t)'
    BY <2>5 DEF InCall, InStream, Bare
  <2>9. Threads'
    <3>1. Framed(t)'
      BY <2>1, <2>3, <2>4, <2>8 DEF Framed
    <3>2. /\ InCall(t)' <=> stack'[t] # <<>>
          /\ InCall(t)' <=> request_mutex_' = t
          /\ InStream(t)' <=> handle'[t] # NoConn
      <4>1. handle[t] = NoConn
        BY <1>1, <1>2 DEF Threads, InStream
      <4> QED
        BY <1>2, <1>8, <2>3, <2>4, <2>8, <4>1
    <3>3. ASSUME NEW s \in Callers, s # t
          PROVE  /\ InCall(s)' <=> stack'[s] # <<>>
                 /\ InCall(s)' <=> request_mutex_' = s
                 /\ InStream(s)' <=> handle'[s] # NoConn
                 /\ Framed(s)'
      <4>1. request_mutex_ # s /\ request_mutex_' # s
        BY <1>2, <1>8, <3>3, ClientAssumption
      <4> QED
        BY <1>1, <1>2, <2>4, <2>5, <3>3, <4>1, OtherThread
    <3> QED
      BY <3>1, <3>2, <3>3 DEF Threads
  <2>10. InFlight'
    BY <1>2, <1>5, <1>8, <2>3, <2>4, <2>8 DEF InFlight, guarded
  <2> QED
    BY <2>6, <2>7, <2>9, <2>10 DEF IInv
<1> QED
  BY <1>7, <1>8 DEF Call

-----------------------------------------------------------------------------
(* Connections are made and given away: every step keeps the invariant *)

\* ensure_socket_connection and what is behind it, while nobody talks.
LEMMA Connects ==
    ASSUME IInv, NEW o \in ConnectOutcomes, Connect(o), UNCHANGED <<settings, handle, res>>,
           \A s \in Callers :
              /\ ~Talks(s) /\ ~Outstanding(s) /\ pc'[s] \notin {"peek", "expect", "read"}
              /\ InStream(s)' => pc'[s] = pc[s] /\ calls'[s] = calls[s]
              /\ pc'[s] = "handled" => pc[s] = "handled" /\ Top(s)' = Top(s)
              /\ pc'[s] = "write" => o = "connected" /\ Top(s)'.conn = socket_'
    PROVE  /\ Nets' /\ Owners' /\ Exchanges'
           /\ socket_' \in Conns \cup {NoConn} /\ session' \in BOOLEAN
<1>1. Scalars /\ Locals /\ Nets /\ Threads /\ Owners /\ Exchanges
  BY DEF IInv, Types
<1>2. /\ Nets' /\ socket_' \in Conns \cup {NoConn} /\ session' \in BOOLEAN
      /\ o = "connected" => socket_' # NoConn /\ (settings.ssl => session')
      /\ socket_' # NoConn => /\ net'[socket_'] = Fresh
                              /\ \A t \in Callers : handle[t] # socket_'
      /\ \A d \in Conns : d # socket_ /\ d # socket_' => net'[d] = net[d]
  BY <1>1, NetConnected
<1>3. Empty(Fresh) /\ Fresh.fd # "closed"
  BY NewSockets
<1>4. ASSUME NEW t \in Callers, handle[t] # NoConn
      PROVE  /\ net'[handle[t]] = net[handle[t]] /\ handle[t] # socket_'
             /\ net[handle[t]].fd # "closed"
  <2>1. handle[t] \in Conns /\ handle[t] # socket_ /\ net[handle[t]].fd # "closed"
    BY <1>1, <1>4 DEF Locals, Owners
  <2>2. handle[t] # socket_'
    BY <1>2, <1>4
  <2> QED
    BY <1>2, <2>1, <2>2
<1>5. Owners'
  <2>1. socket_' # NoConn => net'[socket_'].fd # "closed"
    BY <1>2, <1>3
  <2>2. ASSUME NEW t \in Callers, Talks(t)'
        PROVE  /\ socket_' # NoConn /\ Top(t)'.conn = socket_'
               /\ settings'.ssl => session'
    <3>1. pc'[t] = "write"
      BY <2>2 DEF Talks
    <3> QED
      BY <1>2, <3>1
  <2>3. \A t \in Callers : handle'[t] # NoConn => /\ handle'[t] # socket_'
                                                  /\ net'[handle'[t]].fd # "closed"
    BY <1>4
  <2>4. \A s, t \in Callers : handle'[s] # NoConn /\ handle'[s] = handle'[t] => s = t
    BY <1>1 DEF Owners
  <2> QED
    BY <2>1, <2>2, <2>3, <2>4 DEF Owners
<1>6. ASSUME NEW t \in Callers PROVE Conversing(t)' /\ Streaming(t)'
  <2>1. Conversing(t)'
    BY <1>1 DEF Conversing, Exchanges
  <2>2. Streaming(t)'
    <3>1. CASE InStream(t)'
      <4>1. InStream(t) /\ pc'[t] = pc[t] /\ calls'[t] = calls[t]
        BY <3>1 DEF InStream
      <4>2. net'[handle[t]] = net[handle[t]]
        BY <1>1, <1>4, <4>1 DEF Threads
      <4> QED
        BY <1>1, <4>1, <4>2 DEF Exchanges, Streaming, Clean, Holds, StreamMessage
    <3>2. CASE ~InStream(t)'
      BY <3>2 DEF Streaming, InStream
    <3> QED
      BY <3>1, <3>2
  <2> QED
    BY <2>1, <2>2
<1>7. KeptClean'
  BY <1>2, <1>3 DEF KeptClean, Clean
<1> QED
  BY <1>2, <1>5, <1>6, <1>7 DEF Exchanges

\* The head of send_: the frame on top gets a connection, and is counted.
LEMMA Enters ==
    ASSUME IInv, NEW t \in Callers, pc[t] = "prepare", NEW c \in Conns, Enter(t, c),
           UNCHANGED <<request_mutex_, handle>>
    PROVE  /\ Stacks' /\ Threads' /\ InFlight' /\ socket_requests_in_flight_' \in Nat
           /\ pc' \in [Callers -> Labels] /\ pc'[t] = "write" /\ Top(t)'.conn = c
           /\ \A s \in Callers : s # t => pc'[s] = pc[s] /\ stack'[s] = stack[s]
<1> DEFINE f == [Top(t) EXCEPT !.conn = c, !.wrote = FALSE,
                               !.expecting = Top(t).msg.req.expect]
           z == Len(stack[t])
<1>1. Types /\ Stacks /\ Threads /\ InFlight
  BY DEF IInv, Types
<1>2. InCall(t) /\ Bare(t) /\ t # Nobody /\ c # NoConn
  BY ClientAssumption DEF InCall, InStream, Bare
<1>3. /\ stack[t] # <<>> /\ Top(t) \in Frames /\ z \in Nat \ {0}
      /\ Top(t) = stack[t][z] /\ DOMAIN stack[t] = 1 .. z
      /\ request_mutex_ = t /\ handle[t] = NoConn
  BY <1>1, <1>2, InTheCall
<1>4. f \in Frames /\ f.conn = c /\ f.after = Top(t).after
  <2>1. Top(t).msg.req.expect \in BOOLEAN
    BY <1>3, FrameUpdates
  <2> QED
    BY <1>3, <2>1 DEF Frames
<1>5. SetTop(t, f) /\ Goto(t, "write")
  BY DEF Enter
<1> HIDE DEF f
<1>6. /\ Stacks' /\ stack'[t] # <<>> /\ Top(t)' = f
      /\ DOMAIN stack'[t] = 1 .. z /\ Len(stack'[t]) = z /\ stack'[t][z] = f
      /\ \A i \in 1 .. z - 1 : stack'[t][i] = stack[t][i]
      /\ \A s \in Callers : s # t => stack'[s] = stack[s]
  BY <1>1, <1>3, <1>4, <1>5, TopSet
<1>7. socket_requests_in_flight_ = z - 1
  BY <1>1, <1>2, <1>3 DEF InFlight
<1>8. socket_requests_in_flight_' = z /\ socket_requests_are_from_thread_' = t
  BY <1>3, <1>7 DEF Enter
<1> HIDE DEF z
<1>9. pc' \in [Callers -> Labels] /\ pc'[t] = "write"
      /\ \A s \in Callers : s # t => pc'[s] = pc[s]
  BY <1>1, <1>5 DEF Types, Locals, Goto, Labels
<1>10. InCall(t)' /\ ~InStream(t)' /\ ~Bare(t)'
  BY <1>9 DEF InCall, InStream, Bare
<1>11. Framed(t)'
  <2>1. ASSUME NEW i \in 1 .. z - 1
        PROVE  /\ stack'[t][i].conn # NoConn
               /\ stack'[t][i].after = "idle" <=> i = 1
    <3>1. i \in 1 .. z /\ i # z
      BY <1>3, <2>1
    <3> QED
      BY <1>1, <1>2, <1>3, <1>6, <3>1 DEF Threads, Framed, z
  <2>2. stack'[t][z].conn # NoConn /\ (stack'[t][z].after = "idle" <=> z = 1)
    <3>1. z \in 1 .. z
      BY <1>3
    <3> QED
      BY <1>1, <1>2, <1>3, <1>4, <1>6, <3>1 DEF Threads, Framed
  <2>3. \A i \in 1 .. z : i = z \/ i \in 1 .. z - 1
    BY <1>3
  <2> QED
    BY <1>6, <1>10, <2>1, <2>2, <2>3 DEF Framed
<1>12. Threads'
  <2>1. ASSUME NEW s \in Callers, s # t
        PROVE  /\ InCall(s)' <=> stack'[s] # <<>>
               /\ InCall(s)' <=> request_mutex_' = s
               /\ InStream(s)' <=> handle'[s] # NoConn
               /\ Framed(s)'
    BY <1>1, <1>6, <1>9, <2>1, OtherThread
  <2>2. /\ InCall(t)' <=> stack'[t] # <<>>
        /\ InCall(t)' <=> request_mutex_' = t
        /\ InStream(t)' <=> handle'[t] # NoConn
    BY <1>3, <1>6, <1>10
  <2> QED
    BY <1>11, <2>1, <2>2 DEF Threads
<1>13. InFlight'
  BY <1>2, <1>3, <1>6, <1>8, <1>10 DEF InFlight
<1> QED
  BY <1>3, <1>4, <1>6, <1>8, <1>9, <1>12, <1>13

\* send_ takes the connection it finds alive, or makes one, or fails.
LEMMA PrepareKeeps == ASSUME IInv, NEW t \in Callers, Prepare(t) PROVE IInv'
<1>1. Types /\ Stacks /\ Threads /\ InFlight /\ Owners /\ Exchanges
  BY DEF IInv, Types
<1>2. /\ pc[t] = "prepare" /\ InCall(t) /\ Bare(t)
      /\ UNCHANGED <<settings, request_mutex_, handle, calls>>
      /\ socket_should_be_closed_when_request_is_done_' = FALSE
  BY DEF Prepare, InCall, InStream, Bare
<1>3. \A s \in Callers : s # t => ~InCall(s)
  BY <1>1, <1>2, InTheCall
<1>4. \A s \in Callers : ~Talks(s) /\ ~Outstanding(s)
  BY <1>2, <1>3 DEF Talks, Outstanding, InCall, InStream
<1>5. ASSUME NEW c \in Conns, Enter(t, c), Nets', Owners', Exchanges',
             socket_' \in Conns \cup {NoConn}, session' \in BOOLEAN
      PROVE  IInv'
  <2>1. /\ Stacks' /\ Threads' /\ InFlight' /\ socket_requests_in_flight_' \in Nat
        /\ pc' \in [Callers -> Labels]
    BY <1>2, <1>5, Enters
  <2>2. Scalars'
    BY <1>1, <1>2, <1>5, <2>1 DEF Types, Scalars
  <2>3. Locals'
    BY <1>1, <1>2, <1>5, <2>1 DEF Types, Locals, Enter, result
  <2> QED
    BY <1>5, <2>1, <2>2, <2>3 DEF IInv, Types
<1>6. CASE IsAlive /\ Enter(t, socket_) /\ UNCHANGED <<net, socket_, session>>
  <2>1. socket_ \in Conns /\ (settings.ssl => session)
    BY <1>1, <1>6 DEF IsAlive, Types, Scalars
  <2>2. PICK c \in Conns : c = socket_
    BY <2>1
  <2>3. Enter(t, c)
    BY <1>6, <2>2 DEF Enter
  <2>4. /\ pc'[t] = "write" /\ Top(t)'.conn = c
        /\ \A s \in Callers : s # t => pc'[s] = pc[s] /\ stack'[s] = stack[s]
    BY <1>2, <2>3, Enters
  <2>5. ASSUME NEW s \in Callers, s # t PROVE ~Talks(s)' /\ ~Outstanding(s)'
    BY <1>3, <2>4, <2>5 DEF Talks, Outstanding, InCall, InStream
  <2>6. Owners'
    <3>1. ASSUME NEW s \in Callers, Talks(s)'
          PROVE  /\ socket_' # NoConn /\ Top(s)'.conn = socket_'
                 /\ settings'.ssl => session'
      BY <1>2, <1>6, <2>1, <2>2, <2>4, <2>5, <3>1, ClientAssumption
    <3> QED
      BY <1>1, <1>2, <1>6, <3>1 DEF Owners
  <2>7. Clean(c)
    BY <1>1, <1>4, <2>1, <2>2, ClientAssumption DEF Exchanges, KeptClean
  <2>8. Exchanges'
    <3>1. ASSUME NEW s \in Callers PROVE Conversing(s)' /\ Streaming(s)'
      <4>1. CASE s = t
        BY <2>4, <4>1 DEF Conversing, Streaming
      <4>2. CASE s # t
        <5>1. /\ \A d \in Conns : d # socket_ => net'[d] = net[d]
              /\ pc'[s] = pc[s] /\ handle'[s] = handle[s] /\ calls'[s] = calls[s]
              /\ res'[s] = res[s] /\ Streaming(s)
          BY <1>1, <1>2, <1>6, <2>4, <4>2 DEF Exchanges, Enter, result
        <5> QED
          BY <1>1, <1>3, <4>2, <5>1, OthersStay
      <4> QED
        BY <4>1, <4>2
    <3>2. KeptClean'
      BY <1>6, <2>2, <2>7 DEF KeptClean, Clean
    <3> QED
      BY <3>1, <3>2 DEF Exchanges
  <2> QED
    BY <1>1, <1>5, <1>6, <2>3, <2>6, <2>8 DEF Types, Scalars, Nets
<1>7. ASSUME NEW o \in ConnectOutcomes, Connect(o), o = "connected", Enter(t, socket_')
      PROVE  IInv'
  <2>1. socket_' \in Conns
    <3>1. /\ socket_' \in Conns \cup {NoConn}
          /\ o = "connected" => socket_' # NoConn
      BY <1>1, <1>7, NetConnected DEF Types
    <3> QED
      BY <1>7, <3>1
  <2>2. PICK c \in Conns : c = socket_'
    BY <2>1
  <2>3. Enter(t, c)
    BY <1>7, <2>2 DEF Enter
  <2>4. /\ pc'[t] = "write" /\ Top(t)'.conn = c
        /\ \A s \in Callers : s # t => pc'[s] = pc[s] /\ stack'[s] = stack[s]
    BY <1>2, <2>3, Enters
  <2>5. ASSUME NEW s \in Callers
        PROVE  /\ ~Talks(s) /\ ~Outstanding(s) /\ pc'[s] \notin {"peek", "expect", "read"}
               /\ InStream(s)' => pc'[s] = pc[s] /\ calls'[s] = calls[s]
               /\ pc'[s] = "handled" => pc[s] = "handled" /\ Top(s)' = Top(s)
               /\ pc'[s] = "write" => o = "connected" /\ Top(s)'.conn = socket_'
    <3>1. CASE s = t
      BY <1>4, <1>7, <2>2, <2>4, <3>1 DEF InStream
    <3>2. CASE s # t
      BY <1>2, <1>3, <1>4, <2>4, <3>2 DEF InStream, InCall
    <3> QED
      BY <3>1, <3>2
  <2>6. UNCHANGED <<settings, handle, res>>
    BY <1>2, <1>7 DEF Enter, result
  <2>7. /\ Nets' /\ Owners' /\ Exchanges'
        /\ socket_' \in Conns \cup {NoConn} /\ session' \in BOOLEAN
    BY <1>7, <2>5, <2>6, Connects
  <2> QED
    BY <1>5, <2>3, <2>7
<1>8. ASSUME NEW o \in ConnectOutcomes, Connect(o), Goto(t, "return"),
             Outcome(t, o = "refused", ConnectError(o)),
             UNCHANGED <<socket_requests_in_flight_, stack, res,
                         socket_requests_are_from_thread_>>
      PROVE  IInv'
  <2>1. /\ pc' \in [Callers -> Labels] /\ pc'[t] = "return"
        /\ \A s \in Callers : s # t => pc'[s] = pc[s]
    BY <1>1, <1>8 DEF Types, Locals, Goto, Labels
  <2>2. ASSUME NEW s \in Callers
        PROVE  /\ ~Talks(s) /\ ~Outstanding(s) /\ pc'[s] \notin {"peek", "expect", "read"}
               /\ InStream(s)' => pc'[s] = pc[s] /\ calls'[s] = calls[s]
               /\ pc'[s] = "handled" => pc[s] = "handled" /\ Top(s)' = Top(s)
               /\ pc'[s] = "write" => o = "connected" /\ Top(s)'.conn = socket_'
    <3>1. CASE s = t
      BY <1>4, <2>1, <3>1 DEF InStream
    <3>2. CASE s # t
      BY <1>2, <1>3, <1>4, <2>1, <3>2 DEF InStream, InCall
    <3> QED
      BY <3>1, <3>2
  <2>3. /\ Nets' /\ Owners' /\ Exchanges'
        /\ socket_' \in Conns \cup {NoConn} /\ session' \in BOOLEAN
    BY <1>2, <1>8, <2>2, Connects
  <2>4. ret' \in [Callers -> BOOLEAN] /\ error' \in [Callers -> ErrorNames]
    <3>1. ConnectError(o) \in ErrorNames /\ (o = "refused") \in BOOLEAN
      BY DEF ConnectError, ErrorNames
    <3> QED
      BY <1>1, <1>8, <3>1 DEF Types, Locals, Outcome
  <2>5. Types'
    <3>1. Scalars'
      BY <1>1, <1>2, <1>8, <2>3 DEF Types, Scalars
    <3>2. Locals'
      BY <1>1, <1>2, <1>8, <2>1, <2>4 DEF Types, Locals
    <3>3. Stacks'
      BY <1>1, <1>8 DEF Stacks
    <3> QED
      BY <2>3, <3>1, <3>2, <3>3 DEF Types
  <2>6. \A s \in Callers : /\ InCall(s)' <=> InCall(s)
                           /\ InStream(s)' <=> InStream(s)
                           /\ Bare(s)' <=> Bare(s)
    BY <1>2, <2>1 DEF InCall, InStream, Bare
  <2>7. Threads'
    BY <1>1, <1>2, <1>8, <2>6 DEF Threads, Framed
  <2>8. InFlight'
    BY <1>1, <1>2, <1>8, <2>6 DEF InFlight
  <2> QED
    BY <2>3, <2>5, <2>7, <2>8 DEF IInv
<1> QED
  BY <1>6, <1>7, <1>8 DEF Prepare

\* What a step of a thread outside a call leaves: no thread enters or leaves one.
LEMMA NobodyCalls ==
    ASSUME IInv, UNCHANGED <<settings, request_mutex_, stack, ret, error,
                             socket_requests_in_flight_, socket_requests_are_from_thread_>>,
           socket_should_be_closed_when_request_is_done_' \in BOOLEAN,
           pc' \in [Callers -> Labels], handle' \in [Callers -> Conns \cup {NoConn}],
           calls' \in [Callers -> Nat], res' \in [Callers -> Replies],
           socket_' \in Conns \cup {NoConn}, session' \in BOOLEAN,
           \A s \in Callers : /\ pc'[s] = pc[s] \/ (~InCall(s) /\ ~InCall(s)')
                              /\ InStream(s)' <=> handle'[s] # NoConn,
           Nets', Owners', Exchanges'
    PROVE  IInv'
<1>1. Types /\ Threads /\ InFlight
  BY DEF IInv
<1>2. Types'
  <2>1. Scalars' /\ Locals' /\ Stacks'
    BY <1>1 DEF Types, Scalars, Locals, Stacks
  <2> QED
    BY <2>1 DEF Types
<1>3. \A s \in Callers : /\ InCall(s)' <=> InCall(s)
                         /\ Bare(s)' <=> Bare(s)
  BY DEF InCall, InStream, Bare
<1>4. Threads'
  BY <1>1, <1>3 DEF Threads, Framed
<1>5. InFlight'
  BY <1>1, <1>3 DEF InFlight
<1> QED
  BY <1>2, <1>4, <1>5 DEF IInv

\* open_stream, while no request runs: the handle has the connection now.
LEMMA OpenStreamKeeps ==
    ASSUME IInv, ~StreamsOverlap, NEW t \in Callers, OpenStream(t) PROVE IInv'
<1>1. Types /\ Scalars /\ Locals /\ Nets /\ Threads /\ InFlight /\ Owners /\ Exchanges
  BY DEF IInv, Types
<1>2. /\ pc[t] = "idle" /\ request_mutex_ = Nobody
      /\ UNCHANGED <<settings, request_mutex_, guarded, stack, result>>
      /\ calls' = [calls EXCEPT ![t] = @ + 1]
  BY DEF OpenStream
<1>3. \A s \in Callers : ~InCall(s) /\ ~Talks(s) /\ ~Outstanding(s)
  <2>1. \A s \in Callers : ~InCall(s)
    BY <1>1, <1>2, ClientAssumption DEF Threads
  <2> QED
    BY <2>1 DEF InCall, InStream, Talks, Outstanding
<1>4. /\ calls' \in [Callers -> Nat]
      /\ \A s \in Callers : s # t => calls'[s] = calls[s]
  BY <1>1, <1>2 DEF Locals
<1>5. handle[t] = NoConn
  BY <1>1, <1>2 DEF Threads, InStream
<1>6. ASSUME NEW c \in Conns, Goto(t, "stream write"), handle' = [handle EXCEPT ![t] = c],
             socket_' = NoConn, session' = FALSE, Nets',
             \A s \in Callers : handle[s] # c, Empty(net'[c]), net'[c].fd # "closed",
             \A d \in Conns : d # c /\ d # socket_ => net'[d] = net[d]
      PROVE  IInv'
  <2>1. /\ pc' \in [Callers -> Labels] /\ pc'[t] = "stream write"
        /\ \A s \in Callers : s # t => pc'[s] = pc[s]
    BY <1>1, <1>6 DEF Locals, Goto, Labels
  <2>2. /\ handle' \in [Callers -> Conns \cup {NoConn}] /\ handle'[t] = c /\ c # NoConn
        /\ \A s \in Callers : s # t => handle'[s] = handle[s]
    BY <1>1, <1>6, ClientAssumption DEF Locals
  <2>3. ASSUME NEW s \in Callers
        PROVE  /\ pc'[s] = pc[s] \/ (~InCall(s) /\ ~InCall(s)')
               /\ InStream(s)' <=> handle'[s] # NoConn
               /\ ~Talks(s)' /\ ~InCall(s)'
    <3>1. CASE s = t
      BY <1>3, <2>1, <2>2, <3>1 DEF InCall, InStream, Talks
    <3>2. CASE s # t
      <4>1. pc'[s] = pc[s] /\ handle'[s] = handle[s]
        BY <2>1, <2>2, <3>2
      <4> QED
        BY <1>1, <1>3, <4>1 DEF Threads, InCall, InStream, Talks
    <3> QED
      BY <3>1, <3>2
  <2>4. ASSUME NEW s \in Callers, s # t, handle[s] # NoConn
        PROVE  /\ handle[s] # c /\ net'[handle[s]] = net[handle[s]]
               /\ net[handle[s]].fd # "closed"
    <3>1. handle[s] \in Conns /\ handle[s] # socket_ /\ net[handle[s]].fd # "closed"
      BY <1>1, <2>4 DEF Locals, Owners
    <3>2. handle[s] # c
      BY <1>6
    <3> QED
      BY <1>6, <3>1, <3>2
  <2>5. Owners'
    <3>1. \A s \in Callers : handle'[s] # NoConn => /\ handle'[s] # socket_'
                                                    /\ net'[handle'[s]].fd # "closed"
      BY <1>6, <2>2, <2>4
    <3>2. \A r, s \in Callers : handle'[r] # NoConn /\ handle'[r] = handle'[s] => r = s
      BY <1>1, <2>2, <2>4 DEF Owners
    <3> QED
      BY <1>6, <2>3, <3>1, <3>2 DEF Owners
  <2>6. Exchanges'
    <3>1. ASSUME NEW s \in Callers PROVE Conversing(s)' /\ Streaming(s)'
      <4>1. Conversing(s)'
        BY <2>3 DEF Conversing, Talks, InCall, InStream
      <4>2. CASE s = t
        BY <1>6, <2>1, <2>2, <4>1, <4>2 DEF Streaming, Clean
      <4>3. CASE s # t
        <5>1. /\ pc'[s] = pc[s] /\ handle'[s] = handle[s] /\ calls'[s] = calls[s]
              /\ res'[s] = res[s]
          BY <1>2, <1>4, <2>1, <2>2, <4>3 DEF result
        <5>2. CASE InStream(s)
          <6>1. net'[handle[s]] = net[handle[s]]
            BY <1>1, <2>4, <4>3, <5>2 DEF Threads
          <6> QED
            BY <1>1, <4>1, <5>1, <6>1 DEF Exchanges, Streaming, Clean, Holds, StreamMessage
        <5>3. CASE ~InStream(s)
          BY <4>1, <5>1, <5>3 DEF Streaming, InStream
        <5> QED
          BY <5>2, <5>3
      <4> QED
        BY <4>1, <4>2, <4>3
    <3> QED
      BY <1>6, <3>1 DEF Exchanges, KeptClean
  <2> QED
    BY <1>1, <1>2, <1>4, <1>6, <2>1, <2>2, <2>3, <2>5, <2>6, NobodyCalls
    DEF Scalars, Locals, guarded, result
<1>7. CASE /\ IsAlive /\ handle' = [handle EXCEPT ![t] = socket_] /\ UNCHANGED net
           /\ socket_' = NoConn /\ session' = FALSE /\ Goto(t, "stream write")
  <2>1. PICK c \in Conns : c = socket_
    BY <1>1, <1>7 DEF IsAlive, Scalars
  <2>2. c # NoConn
    BY ClientAssumption
  <2>3. /\ net'[c] = net[c] /\ Empty(net[c]) /\ net[c].fd # "closed"
        /\ \A s \in Callers : handle[s] # c
    BY <1>1, <1>3, <1>7, <2>1, <2>2 DEF Owners, Exchanges, KeptClean, Clean
  <2> QED
    BY <1>1, <1>6, <1>7, <2>1, <2>3 DEF Nets
<1>8. CASE /\ Free # {} /\ net' = [Closed(net, socket_) EXCEPT ![NextFree] = Fresh]
           /\ handle' = [handle EXCEPT ![t] = NextFree]
           /\ socket_' = NoConn /\ session' = FALSE /\ Goto(t, "stream write")
  <2>1. PICK c \in Conns : c = NextFree
    BY <1>8, NextIsFree
  <2>2. \A s \in Callers : handle[s] # c
    BY <1>8, <2>1, NextIsFree
  <2>3. PICK n : n = Closed(net, socket_)
    OBVIOUS
  <2>4. /\ n \in [Conns -> Sockets]
        /\ \A d \in Conns : n[d] = IF d = socket_ THEN Unused ELSE net[d]
    BY <1>1, <2>3, NetClosed DEF Scalars
  <2>5. net' = [n EXCEPT ![c] = Fresh] /\ Fresh \in Sockets
    BY <1>8, <2>1, <2>3, NewSockets
  <2>6. /\ Nets' /\ net'[c] = Fresh
        /\ \A d \in Conns : d # c /\ d # socket_ => net'[d] = net[d]
    BY <2>4, <2>5 DEF Nets
  <2>7. Empty(net'[c]) /\ net'[c].fd # "closed"
    BY <2>6, NewSockets
  <2> QED
    BY <1>6, <1>8, <2>1, <2>2, <2>6, <2>7
<1>9. ASSUME NEW o \in ConnectOutcomes, o # "connected", Connect(o), UNCHANGED <<pc, handle>>
      PROVE  IInv'
  <2>1. ASSUME NEW s \in Callers
        PROVE  /\ ~Talks(s) /\ ~Outstanding(s) /\ pc'[s] \notin {"peek", "expect", "read"}
               /\ InStream(s)' => pc'[s] = pc[s] /\ calls'[s] = calls[s]
               /\ pc'[s] = "handled" => pc[s] = "handled" /\ Top(s)' = Top(s)
               /\ pc'[s] = "write" => o = "connected" /\ Top(s)'.conn = socket_'
    <3>1. pc'[s] = pc[s] /\ (InStream(s)' => s # t)
      BY <1>2, <1>9 DEF InStream
    <3> QED
      BY <1>3, <1>4, <3>1 DEF Talks, InCall, InStream
  <2>2. UNCHANGED <<settings, handle, res>>
    BY <1>2, <1>9 DEF result
  <2>3. /\ Nets' /\ Owners' /\ Exchanges'
        /\ socket_' \in Conns \cup {NoConn} /\ session' \in BOOLEAN
    BY <1>9, <2>1, <2>2, Connects
  <2>4. \A s \in Callers : InStream(s)' <=> handle'[s] # NoConn
    BY <1>1, <1>9 DEF Threads, InStream
  <2> QED
    BY <1>1, <1>2, <1>4, <1>9, <2>3, <2>4, NobodyCalls DEF Scalars, Locals, guarded, result
<1> QED
  BY <1>7, <1>8, <1>9 DEF OpenStream

-----------------------------------------------------------------------------
(* Streams, stop() and the peer: every step keeps the invariant *)

\* A handle, and the message its thread sends on it.
LEMMA InTheStream ==
    ASSUME IInv, NEW t \in Callers, InStream(t)
    PROVE  /\ handle[t] \in Conns /\ handle[t] # socket_
           /\ StreamMessage(t) \in Messages /\ ~InCall(t)
           /\ \A s \in Callers : s # t => handle[s] # handle[t]
<1>1. Locals /\ Threads /\ Owners
  BY DEF IInv, Types
<1>2. handle[t] \in Conns /\ handle[t] # socket_
  BY <1>1 DEF Locals, Threads, Owners
<1>3. StreamMessage(t) \in Messages
  <2>1. [method |-> "GET", upload |-> "none", expect |-> FALSE]
          \in [method : Methods, upload : Uploads, expect : BOOLEAN]
    BY DEF Methods, Uploads
  <2> QED
    BY <1>1, <2>1, MessageTypes DEF StreamMessage, Locals
<1>4. \A s \in Callers : s # t => handle[s] # handle[t]
  BY <1>1, <1>2, ClientAssumption DEF Owners
<1> QED
  BY <1>2, <1>3, <1>4 DEF InCall

\* A stream sends its request.
LEMMA StreamWriteKeeps == ASSUME IInv, NEW t \in Callers, StreamWrite(t) PROVE IInv'
<1>1. /\ pc[t] = "stream write" /\ InStream(t) /\ Types /\ Exchanges
      /\ UNCHANGED <<settings, request_mutex_, socket_, session, guarded, stack, ret, error,
                     res, handle, calls>>
  BY DEF StreamWrite, InStream, IInv, result
<1>2. res' \in [Callers -> Replies] /\ \A s \in Callers : s # t => res'[s] = res[s]
  BY <1>1 DEF Types, Locals
<1>3. PICK c \in Conns : c = handle[t]
  BY <1>1, InTheStream
<1>4. PICK m \in Messages : m = StreamMessage(t)
  BY <1>1, InTheStream
<1>5. Clean(c)
  BY <1>1, <1>3 DEF Exchanges, Streaming
<1>6. CASE Ask(handle[t], StreamMessage(t), TRUE) /\ Goto(t, "stream head")
  <2>1. Touches(c) /\ Holds(c, m)'
    <3>1. Ask(c, m, TRUE)
      BY <1>3, <1>4, <1>6 DEF Ask
    <3> QED
      BY <1>1, <1>5, <3>1, NetAsked DEF Types
  <2>2. Streaming(t)'
    BY <1>1, <1>3, <1>4, <1>6, <2>1 DEF Types, Locals, Goto, Streaming, Holds, StreamMessage
  <2> QED
    BY <1>1, <1>2, <1>3, <1>6, <2>1, <2>2, StreamGoesOn
<1>7. CASE UNCHANGED net /\ Goto(t, "stream end")
  <2>1. Touches(c)
    BY <1>1, <1>7, NetStays DEF Types
  <2>2. Streaming(t)'
    BY <1>1, <1>7 DEF Types, Locals, Goto, Streaming
  <2> QED
    BY <1>1, <1>2, <1>3, <1>7, <2>1, <2>2, StreamGoesOn
<1> QED
  BY <1>6, <1>7 DEF StreamWrite

\* A stream reads the head of its response.
LEMMA StreamHeadKeeps == ASSUME IInv, NEW t \in Callers, StreamHead(t) PROVE IInv'
<1>1. /\ pc[t] = "stream head" /\ InStream(t) /\ Types /\ Exchanges
      /\ UNCHANGED <<settings, request_mutex_, socket_, session, guarded, stack, ret, error,
                     handle, calls>>
  BY DEF StreamHead, InStream, IInv
<1>2. PICK c \in Conns : c = handle[t]
  BY <1>1, InTheStream
<1>3. PICK m \in Messages : m = StreamMessage(t)
  BY <1>1, InTheStream
<1>4. Holds(c, m)
  BY <1>1, <1>2, <1>3 DEF Exchanges, Streaming
<1>5. CASE /\ net[c].replies # <<>> /\ net' = Taken(c)
           /\ IF Reply(c).status = "continue" THEN UNCHANGED <<res, pc>>
              ELSE res' = [res EXCEPT ![t] = Reply(c)] /\ Goto(t, "stream body")
  <2>1. /\ Touches(c) /\ Keeps(c) /\ Reply(c) \in Replies /\ Reply(c).to = m
    BY <1>1, <1>4, <1>5, NetRead DEF Types
  <2>2. CASE UNCHANGED <<res, pc>>
    <3>1. Holds(c, m)'
      BY <1>4, <2>1 DEF Keeps
    <3>2. Streaming(t)'
      BY <1>1, <1>2, <1>3, <2>2, <3>1 DEF Streaming, Holds, StreamMessage
    <3>3. Goto(t, "stream head") /\ res' \in [Callers -> Replies]
      BY <1>1, <2>2 DEF Types, Locals, Goto
    <3> QED
      BY <1>1, <1>2, <2>1, <2>2, <3>2, <3>3, StreamGoesOn
  <2>3. CASE res' = [res EXCEPT ![t] = Reply(c)] /\ Goto(t, "stream body")
    <3>1. /\ res' \in [Callers -> Replies] /\ res'[t] = Reply(c)
          /\ \A s \in Callers : s # t => res'[s] = res[s]
      BY <1>1, <2>1, <2>3 DEF Types, Locals
    <3>2. Streaming(t)'
      BY <1>1, <1>3, <2>1, <2>3, <3>1 DEF Types, Locals, Goto, Streaming, StreamMessage
    <3> QED
      BY <1>1, <1>2, <2>1, <2>3, <3>1, <3>2, StreamGoesOn
  <2> QED
    BY <1>5, <2>2, <2>3
<1>6. CASE Goto(t, "stream end") /\ UNCHANGED <<net, res>>
  <2>1. Touches(c)
    BY <1>1, <1>6, NetStays DEF Types
  <2>2. Streaming(t)' /\ res' \in [Callers -> Replies]
    BY <1>1, <1>6 DEF Types, Locals, Goto, Streaming
  <2> QED
    BY <1>1, <1>2, <1>6, <2>1, <2>2, StreamGoesOn
<1> QED
  BY <1>2, <1>5, <1>6 DEF StreamHead

\* A stream reads its body, and ends with it.
LEMMA StreamBodyKeeps == ASSUME IInv, NEW t \in Callers, StreamBody(t) PROVE IInv'
<1>1. /\ pc[t] = "stream body" /\ InStream(t) /\ Types /\ Goto(t, "stream end")
      /\ UNCHANGED <<settings, request_mutex_, socket_, session, guarded, net, stack, ret,
                     error, res, handle, calls>>
  BY DEF StreamBody, InStream, IInv, result
<1>2. Touches(handle[t])
  BY <1>1, NetStays DEF Types
<1>3. Streaming(t)' /\ res' \in [Callers -> Replies]
  BY <1>1 DEF Types, Locals, Goto, Streaming
<1> QED
  BY <1>1, <1>2, <1>3, StreamGoesOn

\* The handle is destroyed, and its connection is closed.
LEMMA StreamEndKeeps == ASSUME IInv, NEW t \in Callers, StreamEnd(t) PROVE IInv'
<1>1. /\ pc[t] = "stream end" /\ InStream(t) /\ ~InCall(t)
      /\ Types /\ Locals /\ Nets /\ Threads /\ Owners /\ Exchanges
      /\ UNCHANGED <<settings, request_mutex_, socket_, session, guarded, stack, ret, error,
                     calls>>
  BY DEF StreamEnd, InStream, InCall, IInv, Types
<1>2. PICK c \in Conns : c = handle[t]
  BY <1>1, InTheStream
<1>3. c # socket_ /\ \A s \in Callers : s # t => handle[s] # c
  BY <1>1, <1>2, InTheStream
<1>4. Nets' /\ \A d \in Conns : d # c => net'[d] = net[d]
  <2>1. PICK n : n = Closed(net, c)
    OBVIOUS
  <2>2. net' = n
    BY <1>2, <2>1 DEF StreamEnd
  <2>3. /\ n \in [Conns -> Sockets]
        /\ \A d \in Conns : n[d] = IF d = c THEN Unused ELSE net[d]
    BY <1>1, <2>1, NewSockets, ClientAssumption DEF Nets, Closed
  <2> QED
    BY <2>2, <2>3 DEF Nets
<1>5. /\ pc' \in [Callers -> Labels] /\ pc'[t] = "idle"
      /\ \A s \in Callers : s # t => pc'[s] = pc[s]
  BY <1>1 DEF Locals, StreamEnd, Goto, Labels
<1>6. /\ handle' \in [Callers -> Conns \cup {NoConn}] /\ handle'[t] = NoConn
      /\ \A s \in Callers : s # t => handle'[s] = handle[s]
  BY <1>1 DEF Locals, StreamEnd
<1>7. res' \in [Callers -> Replies] /\ \A s \in Callers : s # t => res'[s] = res[s]
  <2>1. NoReply \in Replies
    BY MessageTypes
  <2> QED
    BY <1>1, <2>1 DEF Locals, StreamEnd
<1>8. socket_ # NoConn => socket_ \in Conns /\ net'[socket_] = net[socket_]
  BY <1>1, <1>3, <1>4 DEF Types, Scalars
<1>9. ASSUME NEW s \in Callers, s # t, handle[s] # NoConn
      PROVE  net'[handle[s]] = net[handle[s]] /\ handle[s] \in Conns
  BY <1>1, <1>3, <1>4, <1>9 DEF Locals
<1>10. \A s \in Callers : /\ Talks(s)' <=> Talks(s)
                          /\ Outstanding(s)' <=> Outstanding(s)
  BY <1>1, <1>5 DEF Talks, Outstanding
<1>11. Owners'
  <2>1. socket_ # NoConn => net'[socket_].fd # "closed"
    BY <1>1, <1>8 DEF Owners
  <2>2. \A s \in Callers : Talks(s)' => /\ socket_ # NoConn /\ Top(s)'.conn = socket_
                                        /\ settings.ssl => session
    BY <1>1, <1>10 DEF Owners, Top
  <2>3. \A s \in Callers : handle'[s] # NoConn => /\ handle'[s] # socket_
                                                  /\ net'[handle'[s]].fd # "closed"
    BY <1>1, <1>6, <1>9 DEF Owners
  <2>4. \A r, s \in Callers : handle'[r] # NoConn /\ handle'[r] = handle'[s] => r = s
    BY <1>1, <1>6 DEF Owners
  <2> QED
    BY <1>1, <2>1, <2>2, <2>3, <2>4 DEF Owners
<1>12. Exchanges'
  <2>1. ASSUME NEW s \in Callers PROVE Conversing(s)'
    <3>1. CASE Talks(s)
      <4>1. socket_ # NoConn /\ s # t
        BY <1>1, <3>1 DEF Owners, Talks
      <4> QED
        BY <1>1, <1>5, <1>8, <4>1 DEF Exchanges, Conversing, Holds, Clean, Top
    <3>2. CASE ~Talks(s)
      BY <1>1, <1>5, <3>2 DEF Exchanges, Conversing, Talks, Top
    <3> QED
      BY <3>1, <3>2
  <2>2. ASSUME NEW s \in Callers PROVE Streaming(s)'
    <3>1. CASE s # t /\ InStream(s)
      <4>1. net'[handle[s]] = net[handle[s]] /\ handle'[s] = handle[s] /\ res'[s] = res[s]
        BY <1>1, <1>6, <1>7, <1>9, <3>1 DEF Threads
      <4> QED
        BY <1>1, <1>5, <3>1, <4>1 DEF Exchanges, Streaming, Clean, Holds, StreamMessage
    <3>2. CASE ~(s # t /\ InStream(s))
      BY <1>5, <3>2 DEF Streaming, InStream
    <3> QED
      BY <3>1, <3>2
  <2>3. KeptClean'
    BY <1>1, <1>8, <1>10 DEF Exchanges, KeptClean, Clean
  <2> QED
    BY <2>1, <2>2, <2>3 DEF Exchanges
<1>13. ASSUME NEW s \in Callers
       PROVE  /\ pc'[s] = pc[s] \/ (~InCall(s) /\ ~InCall(s)')
              /\ InStream(s)' <=> handle'[s] # NoConn
  <2>1. CASE s = t
    BY <1>1, <1>5, <1>6, <2>1 DEF InCall, InStream
  <2>2. CASE s # t
    BY <1>1, <1>5, <1>6, <2>2 DEF Threads, InStream
  <2> QED
    BY <2>1, <2>2
<1> QED
  BY <1>1, <1>4, <1>5, <1>6, <1>7, <1>11, <1>12, <1>13, NobodyCalls
  DEF Types, Scalars, Locals, guarded

\* stop(): a request in flight only finds its socket shut down, and nobody
\* talks on the one that is closed.
LEMMA StopKeeps == ASSUME IInv, Stop PROVE IInv'
<1>1. Types /\ Scalars /\ Nets /\ Threads /\ InFlight /\ Owners /\ Exchanges
  BY DEF IInv, Types
<1>2. UNCHANGED <<settings, request_mutex_, socket_requests_in_flight_,
                  socket_requests_are_from_thread_, pc, stack, result, handle, calls>>
  BY DEF Stop
<1>3. ASSUME Nets', Owners', Exchanges', socket_' \in Conns \cup {NoConn}, session' \in BOOLEAN,
             socket_should_be_closed_when_request_is_done_' \in BOOLEAN
      PROVE  IInv'
  <2>1. \A s \in Callers : InStream(s)' <=> handle'[s] # NoConn
    BY <1>1, <1>2 DEF Threads, InStream
  <2> QED
    BY <1>1, <1>2, <1>3, <2>1, NobodyCalls DEF Types, Locals, result
<1>4. CASE /\ socket_requests_in_flight_ > 0
           /\ socket_should_be_closed_when_request_is_done_' = TRUE
           /\ net' = IF socket_ = NoConn THEN net
                     ELSE [net EXCEPT ![socket_].fd = "shut"]
           /\ UNCHANGED <<socket_, session>>
  <2>1. /\ Nets'
        /\ \A d \in Conns : /\ net'[d].fd = net[d].fd \/ net'[d].fd = "shut"
                            /\ net'[d].asked = net[d].asked
                            /\ net'[d].replies = net[d].replies
    <3>1. CASE socket_ = NoConn
      BY <1>1, <1>4, <3>1
      DEF Nets
    <3>2. CASE socket_ # NoConn
      <4>1. socket_ \in Conns /\ net[socket_] \in Sockets
        BY <1>1, <3>2 DEF Scalars, Nets
      <4>2. PICK r : r = [net[socket_] EXCEPT !.fd = "shut"]
        OBVIOUS
      <4>3. /\ r \in Sockets /\ r.fd = "shut" /\ r.asked = net[socket_].asked
            /\ r.replies = net[socket_].replies
        BY <4>1, <4>2 DEF Sockets
      <4>4. net' = [net EXCEPT ![socket_] = r]
        BY <1>4, <3>2, <4>2
      <4> QED
        BY <1>1, <4>1, <4>3, <4>4 DEF Nets
    <3> QED
      BY <3>1, <3>2
  <2>2. \A s \in Callers : Talks(s)' => Talks(s) /\ Top(s)'.conn = Top(s).conn
    BY <1>2 DEF Talks, Top
  <2>3. Owners'
    BY <1>1, <1>2, <1>4, <2>1, <2>2, OwnersStay
  <2>4. \A d \in Conns : Empty(net[d]) => Empty(net'[d])
    BY <2>1 DEF Empty
  <2>5. \A m : \A d \in Conns : Holding(net[d], m) => Holding(net'[d], m)
    BY <2>1 DEF Holding
  <2>6. ASSUME NEW s \in Callers PROVE Conversing(s)' /\ Streaming(s)'
    <3>1. Conversing(s)'
      <4>1. Talks(s) => socket_ \in Conns
        BY <1>1 DEF Owners, Scalars
      <4> QED
        BY <1>1, <1>2, <1>4, <2>4, <2>5, <4>1
        DEF Exchanges, Conversing, Talks, Holds, Clean, Top
    <3>2. Streaming(s)'
      <4>1. InStream(s) => handle[s] \in Conns
        BY <1>1 DEF Threads, Types, Locals
      <4> QED
        BY <1>1, <1>2, <2>4, <2>5, <4>1
        DEF Exchanges, Streaming, InStream, Holds, Clean, StreamMessage, result
    <3> QED
      BY <3>1, <3>2
  <2>7. KeptClean'
    <3>1. \A s \in Callers : Outstanding(s)' <=> Outstanding(s)
      BY <1>2 DEF Outstanding, result
    <3> QED
      BY <1>1, <1>4, <2>4, <3>1 DEF Exchanges, KeptClean, Scalars, Clean
  <2> QED
    BY <1>1, <1>3, <1>4, <2>1, <2>3, <2>6, <2>7 DEF Scalars, Exchanges
<1>5. CASE /\ ~(socket_requests_in_flight_ > 0) /\ Disconnect(net)
           /\ UNCHANGED socket_should_be_closed_when_request_is_done_
  <2>1. socket_requests_in_flight_ = 0
    BY <1>1, <1>5 DEF Scalars
  <2>2. \A s \in Callers : ~Talks(s)
    BY <1>1, <2>1, HasConnection DEF Talks, InCall, InStream, Bare
  <2>3. \A s \in Callers : Lets(s)
    BY <1>2, <2>2 DEF Lets, Talks, Top
  <2>4. /\ Nets' /\ Owners' /\ Exchanges'
        /\ socket_' \in Conns \cup {NoConn} /\ session' \in BOOLEAN
    BY <1>2, <1>5, <2>3, LetsGo DEF result
  <2> QED
    BY <1>1, <1>3, <1>5, <2>4 DEF Scalars
<1> QED
  BY <1>4, <1>5 DEF Stop

\* set_proxy, between requests, closes the connection.
LEMMA SetProxyKeeps == ASSUME IInv, SetProxy PROVE IInv'
<1>1. Types /\ Scalars /\ Threads
  BY DEF IInv, Types
<1>2. /\ request_mutex_ = Nobody /\ Disconnect(net)
      /\ UNCHANGED <<settings, request_mutex_, guarded, pc, stack, result, handle, calls>>
  BY DEF SetProxy
<1>3. \A s \in Callers : ~InCall(s)
  BY <1>1, <1>2, ClientAssumption DEF Threads
<1>4. \A s \in Callers : Lets(s)
  BY <1>2, <1>3 DEF Lets, Talks, Top, InCall, InStream
<1>5. /\ Nets' /\ Owners' /\ Exchanges'
      /\ socket_' \in Conns \cup {NoConn} /\ session' \in BOOLEAN
  BY <1>2, <1>4, LetsGo DEF result
<1>6. \A s \in Callers : InStream(s)' <=> handle'[s] # NoConn
  BY <1>1, <1>2 DEF Threads, InStream
<1> QED
  BY <1>1, <1>2, <1>5, <1>6, NobodyCalls DEF Types, Scalars, Locals, guarded, result

\* A step of the peer, on one connection.
LEMMA PeerKeeps ==
    ASSUME IInv, NEW c \in Conns, Touches(c), Keeps(c), Clean(c) => Clean(c)',
           UNCHANGED <<settings, request_mutex_, socket_, session, guarded, pc, stack,
                       result, handle, calls>>
    PROVE  IInv'
<1>1. Types /\ Scalars /\ Locals /\ Threads /\ Owners /\ Exchanges
  BY DEF IInv, Types
<1>2. Nets' /\ \A d \in Conns : net'[d].fd = net[d].fd
  BY DEF Touches
<1>3. \A d \in Conns : Empty(net[d]) => Empty(net'[d])
  BY DEF Touches, Clean
<1>4. \A m : \A d \in Conns : Holding(net[d], m) => Holding(net'[d], m)
  BY DEF Touches, Keeps, Holds
<1>5. Owners'
  <2>1. \A s \in Callers : Talks(s)' => Talks(s) /\ Top(s)'.conn = Top(s).conn
    BY DEF Talks, Top
  <2> QED
    BY <1>1, <1>2, <2>1, OwnersStay
<1>6. Exchanges'
  <2>1. ASSUME NEW s \in Callers PROVE Conversing(s)'
    <3>1. Talks(s) => socket_ \in Conns
      BY <1>1 DEF Owners, Scalars
    <3>2. pc'[s] = "handled" => Top(s)'.res.to = Top(s)'.msg
      BY <1>1 DEF Exchanges, Conversing, Top
    <3>3. Talks(s)' /\ pc'[s] # "write" => Holds(socket_, Top(s).msg)'
      BY <1>1, <1>4, <3>1 DEF Exchanges, Conversing, Talks, Holds, Top
    <3>4. Top(s)'.expecting /\ ~Top(s)'.wrote /\ Talks(s)' /\ pc'[s] # "write" => Clean(socket_)'
      <4>1. ASSUME pc[s] \in {"peek", "expect", "read"}, Top(s).expecting, ~Top(s).wrote
            PROVE  Empty(net'[socket_])
        BY <1>1, <1>3, <3>1, <4>1 DEF Exchanges, Conversing, Talks, Clean
      <4>2. Top(s)' = Top(s) /\ pc' = pc /\ socket_' = socket_
        BY DEF Top
      <4> QED
        BY <4>1, <4>2 DEF Talks, Clean
    <3> QED
      BY <3>2, <3>3, <3>4 DEF Conversing, Talks
  <2>2. ASSUME NEW s \in Callers PROVE Streaming(s)'
    <3>1. InStream(s) => handle[s] \in Conns
      BY <1>1 DEF Threads, Locals
    <3> QED
      BY <1>1, <1>3, <1>4, <3>1
      DEF Exchanges, Streaming, InStream, Holds, Clean, StreamMessage, result
  <2>3. KeptClean'
    <3>1. \A s \in Callers : Outstanding(s)' <=> Outstanding(s)
      BY DEF Outstanding, result
    <3> QED
      BY <1>1, <1>3, <3>1 DEF Exchanges, KeptClean, Scalars, Clean
  <2> QED
    BY <2>1, <2>2, <2>3 DEF Exchanges
<1>7. \A s \in Callers : InStream(s)' <=> handle'[s] # NoConn
  BY <1>1 DEF Threads, InStream
<1> QED
  BY <1>1, <1>2, <1>5, <1>6, <1>7, NobodyCalls DEF Scalars, Locals, guarded, result

\* The peer answers the oldest request it has.
LEMMA AnswersKeep == ASSUME IInv, NEW c \in Conns, PeerAnswers(c) PROVE IInv'
<1>1. Touches(c) /\ Keeps(c) /\ (Clean(c) => Clean(c)')
  BY NetAnswered DEF IInv, Types
<1> QED
  BY <1>1, PeerKeeps DEF PeerAnswers

\* The peer closes.
LEMMA ClosesKeep == ASSUME IInv, NEW c \in Conns, PeerCloses(c) PROVE IInv'
<1>1. Touches(c) /\ Keeps(c) /\ (Clean(c) => Clean(c)')
  BY NetHungUp DEF IInv, Types
<1> QED
  BY <1>1, PeerKeeps DEF PeerCloses

-----------------------------------------------------------------------------
(* The invariant *)

\* Nothing is connected and nobody calls.
LEMMA InitIInv == Init => IInv
<1> SUFFICES ASSUME Init PROVE IInv
  OBVIOUS
<1>1. <<>> \in Seq(Frames) /\ DOMAIN <<>> = {}
  BY NoElement
<1>2. NoReply \in Replies /\ Unused \in Sockets
  BY MessageTypes, NewSockets
<1>3. Types
  BY <1>1, <1>2 DEF Init, Types, Scalars, Locals, Stacks, Nets, Labels, ErrorNames
<1>4. \A t \in Callers : /\ ~InCall(t) /\ ~InStream(t) /\ ~Talks(t) /\ t # Nobody
                         /\ stack[t] = <<>> /\ handle[t] = NoConn /\ pc[t] = "idle"
  BY ClientAssumption DEF Init, InCall, InStream, Talks
<1>5. Threads
  BY <1>1, <1>4 DEF Threads, Framed, Init
<1>6. InFlight /\ Owners
  BY <1>4 DEF InFlight, Owners, Init
<1>7. Exchanges
  BY <1>4 DEF Exchanges, Conversing, Streaming, KeptClean, Init
<1> QED
  BY <1>3, <1>5, <1>6, <1>7 DEF IInv

\* A state that stays.
LEMMA StutterKeeps == ASSUME IInv, UNCHANGED vars PROVE IInv'
<1>1. Scalars' /\ Locals'
  BY DEF IInv, Types, Scalars, Locals, vars, guarded, result
<1>2. Stacks' /\ Nets'
  BY DEF IInv, Types, Stacks, Nets, vars, guarded, result
<1>3. Threads'
  BY DEF IInv, Threads, Framed, InCall, InStream, Bare, vars, guarded
<1>4. InFlight'
  BY DEF IInv, InFlight, Bare, vars, guarded
<1>5. Owners'
  BY DEF IInv, Owners, Talks, Top, vars, guarded
<1>6. Exchanges'
  BY DEF IInv, Exchanges, Conversing, Streaming, KeptClean, Outstanding, Clean, Holds, Top,
         StreamMessage, vars, guarded, result
<1> QED
  BY <1>1, <1>2, <1>3, <1>4, <1>5, <1>6 DEF IInv, Types

\* Every step keeps the invariant, if streams wait for requests.
LEMMA NextIInv == ASSUME ~StreamsOverlap, IInv, [Next]_vars PROVE IInv'
<1>1. ASSUME NEW t \in Callers, Call(t) PROVE IInv'
  BY <1>1, CallKeeps
<1>2. ASSUME NEW t \in Callers, OpenStream(t) PROVE IInv'
  BY <1>2, OpenStreamKeeps
<1>3. ASSUME NEW t \in Callers, Step(t) PROVE IInv'
  <2>1. CASE Prepare(t)        BY <2>1, PrepareKeeps
  <2>2. CASE WriteRequest(t)   BY <2>2, WriteKeeps
  <2>3. CASE PeekPeer(t)       BY <2>3, PeekKeeps
  <2>4. CASE AwaitContinue(t)  BY <2>4, AwaitKeeps
  <2>5. CASE ReadNothing(t)    BY <2>5, NothingKeeps
  <2>6. CASE ReadContinue(t)   BY <2>6, ContinueKeeps
  <2>7. CASE ReadResponse(t)   BY <2>7, ResponseKeeps
  <2>8. CASE Handled(t)        BY <2>8, HandledKeeps
  <2>9. CASE Authenticate(t)   BY <2>9, AuthenticateKeeps
  <2>10. CASE Exit(t)          BY <2>10, ExitIsKept
  <2>11. CASE Return(t)        BY <2>11, ReturnKeeps
  <2>12. CASE StreamWrite(t)   BY <2>12, StreamWriteKeeps
  <2>13. CASE StreamHead(t)    BY <2>13, StreamHeadKeeps
  <2>14. CASE StreamBody(t)    BY <2>14, StreamBodyKeeps
  <2>15. CASE StreamEnd(t)     BY <2>15, StreamEndKeeps
  <2> QED
    BY <1>3, <2>1, <2>2, <2>3, <2>4, <2>5, <2>6, <2>7, <2>8, <2>9, <2>10, <2>11, <2>12,
       <2>13, <2>14, <2>15 DEF Step
<1>4. CASE Stop
  BY <1>4, StopKeeps
<1>5. CASE SetProxy
  BY <1>5, SetProxyKeeps
<1>6. ASSUME NEW c \in Conns, PeerAnswers(c) \/ PeerCloses(c) PROVE IInv'
  BY <1>6, AnswersKeep, ClosesKeep
<1>7. CASE UNCHANGED vars
  BY <1>7, StutterKeeps
<1> QED
  BY <1>1, <1>2, <1>3, <1>4, <1>5, <1>6, <1>7 DEF Next

-----------------------------------------------------------------------------
(* The theorems *)

\* The threads of a client take turns, the frames of a call have connections,
\* every connection in use is open and has one user, and what it carries
\* belongs to that user: in every state, if open_stream waits for requests.
THEOREM ClientInvariant == ~StreamsOverlap => (FairSpec => []IInv)
<1> SUFFICES ASSUME ~StreamsOverlap PROVE FairSpec => []IInv
  OBVIOUS
<1>1. IInv /\ [Next]_vars => IInv'
  BY NextIInv
<1> QED
  BY <1>1, InitIInv, PTL DEF FairSpec

\* Nobody closes or shares a connection in use, stop() included, and
\* socket_requests_in_flight_ is the number of frames with a connection.
THEOREM UsersKeepTheirConnection == ~StreamsOverlap => (FairSpec => []UsersAreSafe)
<1> SUFFICES ASSUME ~StreamsOverlap PROVE FairSpec => []UsersAreSafe
  OBVIOUS
<1>1. ASSUME IInv PROVE TypeOK
  <2>1. Types /\ Threads /\ InFlight
    BY <1>1 DEF IInv
  <2> DEFINE held(t) == {i \in DOMAIN stack[t] : stack[t][i].conn # NoConn}
  <2>2. ASSUME NEW t \in Callers, request_mutex_ = t
        PROVE  socket_requests_in_flight_ = Cardinality(held(t))
    <3> DEFINE z == Len(stack[t])
    <3>1. InCall(t)
      BY <2>1, <2>2 DEF Threads
    <3>2. z \in Nat \ {0} /\ DOMAIN stack[t] = 1 .. z
      BY <2>1, <3>1, InTheCall DEF Types
    <3> HIDE DEF z
    <3>3. \A i \in 1 .. z : stack[t][i].conn = NoConn <=> Bare(t) /\ i = z
      BY <2>1, <3>2 DEF Threads, Framed, z
    <3>4. CASE Bare(t)
      <4>1. held(t) = 1 .. z - 1
        <5>1. \A i : i \in 1 .. z /\ i # z <=> i \in 1 .. z - 1
          BY <3>2
        <5> QED
          BY <3>2, <3>3, <3>4, <5>1
      <4>2. Cardinality(1 .. z - 1) = z - 1
        BY <3>2, FS_Interval
      <4> QED
        BY <2>1, <2>2, <3>4, <4>1, <4>2 DEF InFlight, z
    <3>5. CASE ~Bare(t)
      <4>1. held(t) = 1 .. z
        BY <3>2, <3>3, <3>5
      <4>2. Cardinality(1 .. z) = z
        BY <3>2, FS_Interval
      <4> QED
        BY <2>1, <2>2, <3>5, <4>1, <4>2 DEF InFlight, z
    <3> QED
      BY <3>4, <3>5
  <2>3. request_mutex_ = Nobody => socket_requests_in_flight_ = 0
    BY <2>1 DEF InFlight
  <2>4. socket_requests_in_flight_
          = IF request_mutex_ = Nobody THEN 0 ELSE Cardinality(held(request_mutex_))
    BY <2>1, <2>2, <2>3 DEF Types, Scalars
  <2>5. \A t \in Callers : stack[t] # <<>> => request_mutex_ = t
    BY <2>1 DEF Threads
  <2>6. \A c \in Conns : net[c].fd \in {"open", "shut", "closed"} /\ net[c].up \in BOOLEAN
    BY <2>1, SocketType DEF Types, Sockets
  <2>7. \A t \in Callers : pc[t] \in Labels /\ error[t] \in ErrorNames
    BY <2>1 DEF Types, Locals
  <2> QED
    BY <2>1, <2>4, <2>5, <2>6, <2>7 DEF TypeOK, Types, Scalars, InFlight
<1>2. ASSUME IInv, NEW t \in Callers, NEW c \in Conns, Uses(t, c)
      PROVE  \/ Talks(t) /\ InCall(t) /\ c = socket_
             \/ handle[t] = c /\ handle[t] # NoConn /\ stack[t] = <<>> /\ c # socket_
  <2>1. c # NoConn /\ Threads /\ Owners
    BY <1>2, ClientAssumption DEF IInv
  <2>2. CASE Talks(t) /\ Top(t).conn = c
    BY <2>1, <2>2 DEF Owners, Talks, InCall, InStream
  <2>3. CASE handle[t] = c
    <3>1. InStream(t) /\ ~InCall(t)
      BY <2>1, <2>3 DEF Threads, InCall
    <3> QED
      BY <2>1, <2>3, <3>1 DEF Owners, Threads
  <2> QED
    BY <1>2, <2>2, <2>3 DEF Uses, Talks
<1>3. ASSUME IInv PROVE NoCloseInUse
  <2>1. ASSUME NEW t \in Callers, NEW c \in Conns, Uses(t, c)
        PROVE  /\ net[c].fd # "closed"
               /\ (settings.ssl /\ stack[t] # <<>> /\ c = socket_) => session
    <3>1. \/ Talks(t) /\ c = socket_
          \/ handle[t] = c /\ handle[t] # NoConn /\ stack[t] = <<>>
      BY <1>2, <1>3, <2>1
    <3> QED
      BY <1>3, <3>1 DEF IInv, Owners
  <2> QED
    BY <2>1 DEF NoCloseInUse
<1>4. ASSUME IInv PROVE OneUser
  <2>1. ASSUME NEW s \in Callers, NEW t \in Callers, NEW c \in Conns, Uses(s, c), Uses(t, c)
        PROVE  s = t
    <3>1. /\ \/ InCall(s) /\ c = socket_
             \/ handle[s] = c /\ handle[s] # NoConn /\ c # socket_
          /\ \/ InCall(t) /\ c = socket_
             \/ handle[t] = c /\ handle[t] # NoConn /\ c # socket_
      BY <1>2, <1>4, <2>1
    <3>2. CASE InCall(s) /\ InCall(t)
      BY <1>4, <3>2 DEF IInv, Threads
    <3>3. CASE handle[s] = c /\ handle[t] = c /\ handle[s] # NoConn
      BY <1>4, <3>3 DEF IInv, Owners
    <3> QED
      BY <3>1, <3>2, <3>3
  <2> QED
    BY <2>1 DEF OneUser
<1> QED
  BY <1>1, <1>3, <1>4, ClientInvariant, PTL DEF UsersAreSafe

\* A connection kept for the next request holds neither a reply nor a request,
\* however the last one ended.
THEOREM KeptConnectionIsClean == ~StreamsOverlap => (FairSpec => []IdleIsClean)
<1> SUFFICES ASSUME ~StreamsOverlap PROVE FairSpec => []IdleIsClean
  OBVIOUS
<1>1. IInv => IdleIsClean
  <2> SUFFICES ASSUME IInv, socket_requests_in_flight_ = 0, socket_ # NoConn
               PROVE  Empty(net[socket_])
    BY DEF IdleIsClean, Empty
  <2>1. \A t \in Callers : ~Outstanding(t)
    BY HasConnection DEF IInv, Outstanding, InCall, InStream, Bare
  <2> QED
    BY <2>1 DEF IInv, Exchanges, KeptClean, Clean
<1> QED
  BY <1>1, ClientInvariant, PTL

\* The response that a call or a stream is given answers what it sent, through
\* redirects, challenges, retries and requests that timed out before it.
THEOREM AnswersAreOwn == ~StreamsOverlap => (FairSpec => []ResponsesMatch)
<1> SUFFICES ASSUME ~StreamsOverlap PROVE FairSpec => []ResponsesMatch
  OBVIOUS
<1>1. IInv => ResponsesMatch
  BY DEF IInv, Exchanges, Conversing, Streaming, ResponsesMatch
<1> QED
  BY <1>1, ClientInvariant, PTL
=============================================================================
