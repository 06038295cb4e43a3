--------------------------- MODULE WebSocketProofs ---------------------------
(***************************************************************************)
(* Proofs about WebSocket for every set of ends and any number of frames:  *)
(* how often an end says Close, whose messages a reader is handed, who     *)
(* still uses the TLS session, and how late a heartbeat gives up.          *)
(*                                                                         *)
(* The inductive invariant has four parts.  Threads and the object: Ends   *)
(* and Lives.  Closing: closed_ is set by whoever will write the Close     *)
(* frame, and by nobody else unless something failed.  Reading: the frames *)
(* on the wire lead from what the caller has been handed to what the peer  *)
(* has said, one message after the other.  Counting: a pong on the wire or *)
(* read answers a ping that the peer has read.                             *)
(***************************************************************************)
EXTENDS WebSocket, QueueLemmas, FiniteSetTheorems

AppStates == {"new", "loop", "read", "rest", "pong", "pong between", "echo", "close",
              "say", "await", "failed", "destroy", "join", "gone"}
FrameKinds == Data \cup {"ping", "pong", "close", "bad"}
Frames == [kind : FrameKinds, n : Nat]
Numbered(s) == \A i \in DOMAIN s : s[i].kind \in Data => s[i].n # None

\* The state of each variable.
Scalars ==
    /\ end \in Ends
    /\ closed_ \in BOOLEAN /\ unacked_pings_ \in Nat /\ session \in BOOLEAN
    /\ app \in AppStates /\ heart \in Threads
    /\ msg \in Nat
    /\ up \in BOOLEAN /\ pongs \in Nat /\ trouble \in BOOLEAN

Queues ==
    /\ wire \in Seq(Frames) /\ Numbered(wire)
    /\ out \in Seq(Frames) /\ heard \in 0 .. Len(out)
    /\ got \in Seq(Nat)

PeerType ==
    /\ peer \in [n : Nat, open : BOOLEAN, pings : Nat, closed : BOOLEAN]
    /\ peer.open => peer.n # None

Types == Scalars /\ Queues /\ PeerType

\* Where the threads and the connection are, one beside the other.
Lives ==
    /\ app = "new" => heart = "off" /\ ~closed_
    /\ app = "gone" => heart \in {"done", "off"}
    /\ app = "destroy" /\ end.kind = "client" => closed_
    /\ up \/ trouble \/ app = "gone"
    /\ (msg # None <=> app \in {"rest", "pong between"}) \/ closed_

\* A server's TLS session lasts as long as its WebSocket.
SessionLasts == end.kind = "server" /\ end.tls /\ app \notin {"new", "gone"} => session

\* A Close frame is written.
Closed == \E i \in DOMAIN out : out[i].kind = "close"

\* A thread has set closed_ and is about to write it.
AppSays == app \in {"say", "echo"}
HeartSays == heart = "say"

\* One thread at most, and only before the first Close frame.
OneCloser ==
    /\ Closed => closed_
    /\ AppSays \/ HeartSays => closed_ /\ ~Closed
    /\ ~(AppSays /\ HeartSays)
    /\ NothingAfterClose

\* Unless something failed, a client that is closed says so.
CloserSpeaks ==
    end.kind = "client" /\ closed_ /\ ~trouble => Closed \/ AppSays \/ HeartSays

\* A heartbeat without a limit does not give up.
NeverGivesUp == end.max_missed = 0 => heart \notin {"close", "say", "await"}

-----------------------------------------------------------------------------
(* Reading *)

\* A point in what the peer says: so many messages have begun, the last of
\* them is not over.
Points == [n : Nat, open : BOOLEAN]
Point(n, open) == [n |-> n, open |-> open]

\* What frame f says between points p and q.
Leads(p, f, q) ==
    CASE f.kind = "whole" -> ~p.open /\ f.n = p.n + 1 /\ q = Point(p.n + 1, FALSE)
      [] f.kind = "first" -> ~p.open /\ f.n = p.n + 1 /\ q = Point(p.n + 1, TRUE)
      [] f.kind = "last"  -> p.open /\ f.n = p.n /\ q = Point(p.n, FALSE)
      [] OTHER -> q = p

\* The frames of s lead from p to q.
Way(p, s, q) ==
    \E path \in [0 .. Len(s) -> Points] :
       /\ path[0] = p
       /\ path[Len(s)] = q
       /\ \A i \in 1 .. Len(s) : Leads(path[i - 1], s[i], path[i])

InMessage == app \in {"rest", "pong between"}
MayRead == app \in {"new", "loop", "read", "pong"} \/ InMessage
Reached == IF InMessage THEN Point(msg, TRUE) ELSE Point(Len(got), FALSE)
Spoken == Point(peer.n, peer.open)

\* What is under way is what the reader has still to read; what it has been
\* handed are the first messages.
OnTheWay ==
    end.max_missed = 0 =>
       /\ MayRead => Way(Reached, wire, Spoken)
       /\ InMessage => msg = Len(got) + 1
       /\ DeliveredInOrder

-----------------------------------------------------------------------------
(* Counting *)

\* The pings that the peer has read.
PingsHeard == Cardinality({i \in 1 .. heard : out[i].kind = "ping"})

\* The pongs that this end has still to read.
PongsComing == Count(wire, {"pong"})

PingsCounted ==
    /\ Pings <= end.pings
    /\ heart = "send" => Pings < end.pings
    /\ unacked_pings_ + (IF heart = "count" THEN 1 ELSE 0) <= Pings
    /\ unacked_pings_ + pongs + (IF heart = "count" THEN 1 ELSE 0) <= Pings + 1
    /\ pongs + PongsComing <= PingsHeard

IInv ==
    /\ Types /\ Lives /\ SessionLasts
    /\ OneCloser /\ CloserSpeaks
    /\ NeverGivesUp /\ OnTheWay
    /\ PingsCounted

-----------------------------------------------------------------------------
(* Lemmas about frames and counts *)

\* Sending, or a peer that speaks, adds one frame to a queue.
LEMMA PushIsAppend == ASSUME NEW S, NEW s \in Seq(S), NEW e \in S
                      PROVE  s \o <<e>> = Append(s, e)
OBVIOUS

\* A count is a number, no more than the frames.
LEMMA CountType ==
    ASSUME NEW s \in Seq(Frames), NEW K
    PROVE  /\ IsFiniteSet({i \in DOMAIN s : s[i].kind \in K})
           /\ Count(s, K) \in Nat
<1>1. DOMAIN s = 1 .. Len(s) /\ Len(s) \in Nat
  BY LenProperties
<1>2. IsFiniteSet({i \in DOMAIN s : s[i].kind \in K})
  <2>1. IsFiniteSet(DOMAIN s)
    BY <1>1, FS_Interval
  <2>2. {i \in DOMAIN s : s[i].kind \in K} \in SUBSET (DOMAIN s)
    OBVIOUS
  <2> QED
    BY <2>1, <2>2, FS_Subset
<1> QED
  BY <1>2, FS_CardinalityType DEF Count

\* One more frame counts if it is of the kinds.
LEMMA CountAppend ==
    ASSUME NEW s \in Seq(Frames), NEW f \in Frames, NEW K
    PROVE  Count(Append(s, f), K) = IF f.kind \in K THEN Count(s, K) + 1 ELSE Count(s, K)
<1> DEFINE A == {i \in DOMAIN s : s[i].kind \in K}
           B == {i \in DOMAIN Append(s, f) : Append(s, f)[i].kind \in K}
<1>1. Len(s) + 1 \notin A
  BY AddLast
<1>2. B = IF f.kind \in K THEN A \cup {Len(s) + 1} ELSE A
  BY AddLast
<1>3. Cardinality(A \cup {Len(s) + 1}) = Cardinality(A) + 1
  BY <1>1, CountType, FS_AddElement
<1> QED
  BY <1>2, <1>3 DEF Count

\* Reading the first frame takes it out of the count.
LEMMA CountTail ==
    ASSUME NEW s \in Seq(Frames), s # <<>>, NEW K
    PROVE  Count(Tail(s), K) <= IF Head(s).kind \in K THEN Count(s, K) - 1 ELSE Count(s, K)
<1> DEFINE A == {i \in DOMAIN s : s[i].kind \in K}
           B == {i \in DOMAIN Tail(s) : Tail(s)[i].kind \in K}
           next == [i \in B |-> i + 1]
<1>1. IsFiniteSet(A) /\ IsFiniteSet(A \ {1}) /\ Cardinality(A) \in Nat
  <2>1. IsFiniteSet(A)
    BY CountType
  <2> HIDE DEF A
  <2> QED
    BY <2>1, FS_RemoveElement, FS_CardinalityType
<1>2. \A i \in B : i \in Nat /\ i + 1 \in A \ {1}
  BY TakeFirst
<1>3. next \in Injection(B, A \ {1})
  BY <1>2 DEF Injection, IsInjective
<1>4. Cardinality(B) <= Cardinality(A \ {1})
  <2> HIDE DEF A, B, next
  <2> QED
    BY <1>1, <1>3, FS_Injection
<1>5. Cardinality(A \ {1}) = IF 1 \in A THEN Cardinality(A) - 1 ELSE Cardinality(A)
  BY <1>1, FS_RemoveElement
<1>6. 1 \in A <=> Head(s).kind \in K
  BY TakeFirst
<1> QED
  BY <1>4, <1>5, <1>6 DEF Count

\* The pings that the peer has read are some of those written.
LEMMA HeardType ==
    Types => /\ IsFiniteSet({i \in 1 .. heard : out[i].kind = "ping"})
             /\ PingsHeard \in Nat /\ Pings \in Nat /\ PingsHeard <= Pings
<1> SUFFICES ASSUME Types
             PROVE  /\ IsFiniteSet({i \in 1 .. heard : out[i].kind = "ping"})
                    /\ PingsHeard \in Nat /\ Pings \in Nat /\ PingsHeard <= Pings
  OBVIOUS
<1> DEFINE H == {i \in 1 .. heard : out[i].kind = "ping"}
           P == {i \in DOMAIN out : out[i].kind \in {"ping"}}
<1>1. IsFiniteSet(P) /\ Pings \in Nat
  BY CountType DEF Types, Queues, Pings
<1>2. H \in SUBSET P
  <2>1. DOMAIN out = 1 .. Len(out) /\ Len(out) \in Nat /\ heard \in 0 .. Len(out)
    BY LenProperties DEF Types, Queues
  <2> QED
    BY <2>1
<1>3. IsFiniteSet(H) /\ Cardinality(H) <= Cardinality(P)
  BY <1>1, <1>2, FS_Subset
<1> QED
  BY <1>1, <1>3, FS_CardinalityType DEF PingsHeard, Pings, Count

-----------------------------------------------------------------------------
(* Lemmas about ways *)

\* No frame leads nowhere.
LEMMA WayStands == ASSUME NEW p \in Points PROVE Way(p, <<>>, p)
<1> DEFINE path == [i \in 0 .. Len(<<>>) |-> p]
<1>1. Len(<<>>) = 0 /\ 1 .. Len(<<>>) = {}
  BY EmptySeq
<1>2. path \in [0 .. Len(<<>>) -> Points] /\ path[0] = p /\ path[Len(<<>>)] = p
  BY <1>1
<1>3. \A i \in 1 .. Len(<<>>) : Leads(path[i - 1], <<>>[i], path[i])
  BY <1>1
<1> HIDE DEF path
<1> QED
  BY <1>2, <1>3 DEF Way

\* Reading the first frame leaves the rest of the way.
LEMMA WayTail ==
    ASSUME NEW p, NEW q, NEW s \in Seq(Frames), s # <<>>, Way(p, s, q)
    PROVE  \E r \in Points : Leads(p, Head(s), r) /\ Way(r, Tail(s), q)
<1>1. PICK path \in [0 .. Len(s) -> Points] :
        /\ path[0] = p /\ path[Len(s)] = q
        /\ \A i \in 1 .. Len(s) : Leads(path[i - 1], s[i], path[i])
  BY DEF Way
<1> DEFINE rest == [i \in 0 .. Len(Tail(s)) |-> path[i + 1]]
<1>2. /\ Len(s) \in Nat \ {0} /\ Len(Tail(s)) = Len(s) - 1 /\ Head(s) = s[1]
      /\ \A i \in 1 .. Len(s) - 1 : Tail(s)[i] = s[i + 1]
  BY TakeFirst
<1>3. rest \in [0 .. Len(Tail(s)) -> Points]
  BY <1>1, <1>2
<1>4. rest[0] = path[1] /\ rest[Len(Tail(s))] = q /\ path[1] \in Points
  BY <1>1, <1>2
<1>5. Leads(p, Head(s), path[1])
  BY <1>1, <1>2
<1>6. ASSUME NEW i \in 1 .. Len(Tail(s)) PROVE Leads(rest[i - 1], Tail(s)[i], rest[i])
  <2>1. i \in 1 .. Len(s) - 1 /\ i + 1 \in 1 .. Len(s) /\ (i + 1) - 1 = i /\ (i - 1) + 1 = i
    BY <1>2
  <2>2. Leads(path[(i + 1) - 1], s[i + 1], path[i + 1])
    BY <1>1, <2>1
  <2>3. rest[i - 1] = path[i] /\ rest[i] = path[i + 1] /\ Tail(s)[i] = s[i + 1]
    BY <1>2, <2>1
  <2> QED
    BY <2>1, <2>2, <2>3
<1>7. Way(path[1], Tail(s), q)
  <2> HIDE DEF rest
  <2> QED
    BY <1>3, <1>4, <1>6 DEF Way
<1> QED
  BY <1>4, <1>5, <1>7

\* What the peer says next goes on from where it is.
LEMMA WayAppend ==
    ASSUME NEW p, NEW q, NEW r \in Points, NEW s \in Seq(Frames), NEW f \in Frames,
           Way(p, s, q), Leads(q, f, r)
    PROVE  Way(p, Append(s, f), r)
<1>1. PICK path \in [0 .. Len(s) -> Points] :
        /\ path[0] = p /\ path[Len(s)] = q
        /\ \A i \in 1 .. Len(s) : Leads(path[i - 1], s[i], path[i])
  BY DEF Way
<1> DEFINE t == Append(s, f)
           more == [i \in 0 .. Len(t) |-> IF i \in 0 .. Len(s) THEN path[i] ELSE r]
<1>2. /\ Len(s) \in Nat /\ Len(t) = Len(s) + 1 /\ t[Len(s) + 1] = f
      /\ \A i \in 1 .. Len(s) : t[i] = s[i]
  BY AddLast
<1> HIDE DEF t
<1>3. more \in [0 .. Len(t) -> Points]
  BY <1>1, <1>2
<1>4. more[0] = p /\ more[Len(t)] = r
  BY <1>1, <1>2
<1>5. ASSUME NEW i \in 1 .. Len(t) PROVE Leads(more[i - 1], t[i], more[i])
  <2>1. CASE i \in 1 .. Len(s)
    <3>1. more[i - 1] = path[i - 1] /\ more[i] = path[i] /\ t[i] = s[i]
      BY <1>2, <2>1
    <3> QED
      BY <1>1, <2>1, <3>1
  <2>2. CASE i = Len(s) + 1
    <3>1. more[i - 1] = q /\ more[i] = r /\ t[i] = f
      BY <1>1, <1>2, <2>2
    <3> QED
      BY <3>1
  <2> QED
    BY <1>2, <2>1, <2>2
<1>6. Way(p, t, r)
  <2> HIDE DEF more
  <2> QED
    BY <1>3, <1>4, <1>5 DEF Way
<1> QED
  BY <1>6 DEF t

-----------------------------------------------------------------------------
(* Types *)

\* What an end is.
LEMMA EndType ==
    Scalars => /\ end.kind \in {"client", "server"} /\ end.tls \in BOOLEAN
               /\ end.max_missed \in Nat /\ end.pings \in Nat
BY WebSocketAssumption DEF Scalars

\* The frames that this end and the peer write.
LEMMA FrameTypes ==
    /\ \A k \in {"ping", "pong", "close", "bad"} : Control(k) \in Frames /\ Control(k).kind = k
    /\ \A n \in Nat, k \in Data : F(k, n) \in Frames
    /\ \A k, n : F(k, n).kind = k /\ F(k, n).n = n
BY DEF Control, F, Frames, FrameKinds, Data

\* What is said last is numbered, and reading takes nothing away from that.
LEMMA NumberedAppend ==
    ASSUME NEW s \in Seq(Frames), Numbered(s), NEW f \in Frames, f.kind \in Data => f.n # None
    PROVE  Append(s, f) \in Seq(Frames) /\ Numbered(Append(s, f))
BY AddLast DEF Numbered

\* What is behind the first frame, and that frame.
LEMMA NumberedTail ==
    ASSUME NEW s \in Seq(Frames), Numbered(s), s # <<>>
    PROVE  /\ Tail(s) \in Seq(Frames) /\ Numbered(Tail(s))
           /\ Head(s).n \in Nat /\ Head(s).kind \in FrameKinds
           /\ Head(s).kind \in Data => Head(s).n # None
<1>1. Head(s) \in Frames /\ Tail(s) \in Seq(Frames) /\ Head(s) = s[1] /\ 1 \in DOMAIN s
  BY TakeFirst
<1>2. Numbered(Tail(s))
  BY TakeFirst DEF Numbered
<1> QED
  BY <1>1, <1>2 DEF Frames, Numbered

\* The invariant holds initially.
LEMMA InitTypes == Init => Types
<1> SUFFICES ASSUME Init PROVE Types
  OBVIOUS
<1>1. wire \in Seq(Frames) /\ out \in Seq(Frames) /\ got \in Seq(Nat) /\ Len(out) = 0
  BY EmptySeq DEF Init
<1>2. Numbered(wire)
  BY NoElement DEF Init, Numbered
<1>3. Scalars
  BY DEF Init, Scalars, AppStates, Threads, None
<1>4. PeerType
  BY DEF Init, PeerType
<1> QED
  BY <1>1, <1>2, <1>3, <1>4 DEF Init, Types, Queues

\* Every step keeps the types.
LEMMA NextScalars == Types /\ [Next]_vars => Scalars'
<1> SUFFICES ASSUME Types, [Next]_vars PROVE Scalars'
  OBVIOUS
<1> USE DEF Types, Scalars, AppStates, Threads, objects, None
<1>1. CASE Connect
  BY <1>1, EndType DEF Connect, Opened
<1>2. CASE Upgrade
  BY <1>2, EndType DEF Upgrade, Opened
<1>3. CASE ReadTurn
  BY <1>3 DEF ReadTurn
<1>4. CASE ReadFails
  BY <1>4 DEF ReadFails, Reading, Fails
<1>5. CASE ReadPing
  BY <1>5 DEF ReadPing, Reading
<1>6. CASE WritePong
  BY <1>6 DEF WritePong, Write, Control, F
<1>7. CASE ReadPong
  <2>1. unacked_pings_ \in Nat /\ pongs \in Nat
    OBVIOUS
  <2>2. unacked_pings_' \in Nat /\ pongs' \in Nat
    <3> HIDE DEF Types, Scalars
    <3> QED
      BY <1>7, <2>1 DEF ReadPong
  <2> QED
    BY <1>7, <2>2 DEF ReadPong
<1>8. CASE ReadClose
  BY <1>8 DEF ReadClose, Reading
<1>9. CASE EchoClose
  BY <1>9 DEF EchoClose, Write, Control, F
<1>10. CASE ReadMessage
  BY <1>10 DEF ReadMessage
<1>11. CASE ReadFirstPart
  <2>1. Head(wire).n \in Nat
    BY <1>11, NumberedTail DEF Types, Queues, ReadFirstPart
  <2> QED
    BY <1>11, <2>1 DEF ReadFirstPart
<1>12. CASE ReadOutOfPlace
  BY <1>12 DEF ReadOutOfPlace, Fails
<1>13. CASE AppCloseStep
  BY <1>13 DEF AppCloseStep, CloseStep, Begun, Write, Control, F
<1>14. CASE Destroy
  BY <1>14 DEF Destroy
<1>15. CASE Joined
  BY <1>15 DEF Joined
<1>16. CASE AppCloses
  BY <1>16 DEF AppCloses
<1>17. CASE Leave
  BY <1>17 DEF Leave
<1>18. CASE Send
  BY <1>18 DEF Send, Write, F
<1>19. CASE SenderStops
  BY <1>19 DEF SenderStops
<1>20. CASE HeartWakes
  BY <1>20 DEF HeartWakes
<1>21. CASE HeartSends
  BY <1>21 DEF HeartSends, Write, Control, F
<1>22. CASE HeartCounts
  <2>1. unacked_pings_ \in Nat /\ pongs \in Nat
    OBVIOUS
  <2>2. unacked_pings_' \in Nat /\ pongs' \in Nat
    <3> HIDE DEF Types, Scalars
    <3> QED
      BY <1>22, <2>1 DEF HeartCounts
  <2> QED
    BY <1>22, <2>2 DEF HeartCounts
<1>23. CASE HeartCloseStep
  BY <1>23 DEF HeartCloseStep, CloseStep, Begun, Write, Control, F
<1>24. CASE PeerReads
  BY <1>24 DEF PeerReads, Push, Control, F
<1>25. CASE PeerSpeaks
  BY <1>25 DEF PeerSpeaks, Push, Control, F
<1>26. CASE ConnectionLost
  BY <1>26 DEF ConnectionLost
<1>27. CASE UNCHANGED vars
  BY <1>27 DEF vars
<1> QED
  BY <1>1, <1>2, <1>3, <1>4, <1>5, <1>6, <1>7, <1>8, <1>9, <1>10, <1>11, <1>12,
     <1>13, <1>14, <1>15, <1>16, <1>17, <1>18, <1>19, <1>20, <1>21, <1>22, <1>23,
     <1>24, <1>25, <1>26, <1>27
  DEF Next, AppStep, HeartStep

\* A frame more on the wire, or written.
LEMMA PushKeeps ==
    ASSUME Queues, NEW f \in Frames, f.kind \in Data => f.n # None, Push(<<f>>)
    PROVE  /\ wire' = Append(wire, f)
           /\ wire' \in Seq(Frames) /\ Numbered(wire')
<1>1. wire' = Append(wire, f)
  BY PushIsAppend DEF Push, Queues
<1> QED
  BY <1>1, NumberedAppend DEF Queues

\* The message to be sent is a frame.
LEMMA SendsType == Queues => F("whole", Sends + 1) \in Frames
<1> SUFFICES ASSUME Queues PROVE Sends \in Nat
  BY FrameTypes DEF Data
<1> QED
  BY CountType DEF Queues, Sends

\* A frame written joins those of this end.
LEMMA WriteKeeps ==
    ASSUME Queues, NEW f \in Frames, Write(f)
    PROVE  out' \in Seq(Frames) /\ heard \in 0 .. Len(out')
BY AddLast DEF Queues, Write

\* What the peer may say.
LEMMA PeerSays ==
    ASSUME Types, PeerSpeaks
    PROVE  /\ PeerType'
           /\ \E f \in Frames :
                /\ Push(<<f>>)
                /\ f.kind \in Data => f.n # None
                /\ f.kind # "pong"
                /\ ~peer.closed /\ Leads(Spoken, f, Spoken')
<1> DEFINE Says == /\ PeerType'
                   /\ \E f \in Frames :
                        /\ Push(<<f>>)
                        /\ f.kind \in Data => f.n # None
                        /\ f.kind # "pong"
                        /\ Leads(Spoken, f, Spoken')
<1>1. /\ peer \in [n : Nat, open : BOOLEAN, pings : Nat, closed : BOOLEAN]
      /\ peer.open => peer.n # None
  BY DEF Types, PeerType
<1>2. ASSUME peer' = [peer EXCEPT !.n = @ + 1, !.open = (peer.n % 2) = 0], ~peer.open,
             Push(<<F(IF peer'.open THEN "first" ELSE "whole", peer'.n)>>)
      PROVE  Says
  <2>1. PICK b \in BOOLEAN : b = ((peer.n % 2) = 0)
    OBVIOUS
  <2>2. PICK m \in Nat : m = peer.n + 1
    BY <1>1
  <2>3. /\ peer'.n = peer.n + 1 /\ peer'.open = b
        /\ peer' \in [n : Nat, open : BOOLEAN, pings : Nat, closed : BOOLEAN]
    <3>1. peer' = [peer EXCEPT !.n = m, !.open = b]
      BY <1>2, <2>1, <2>2
    <3> QED
      BY <1>1, <2>2, <3>1
  <2>4. PICK k \in {"first", "whole"} : k = IF b THEN "first" ELSE "whole"
    OBVIOUS
  <2>5. /\ F(k, peer.n + 1) \in Frames
        /\ F(k, peer.n + 1).kind = k /\ F(k, peer.n + 1).n = peer.n + 1
    BY <1>1, FrameTypes DEF Data
  <2>6. Push(<<F(k, peer.n + 1)>>)
    BY <1>2, <2>3, <2>4
  <2>7. Leads(Spoken, F(k, peer.n + 1), Spoken')
    BY <1>2, <2>3, <2>4, <2>5 DEF Leads, Spoken, Point
  <2>8. peer.n + 1 # None
    BY <1>1 DEF None
  <2> QED
    BY <2>3, <2>4, <2>5, <2>6, <2>7, <2>8 DEF PeerType
<1>3. ASSUME peer' = [peer EXCEPT !.open = FALSE], peer.open, Push(<<F("last", peer.n)>>)
      PROVE  Says
  <2>1. /\ peer'.n = peer.n /\ peer'.open = FALSE
        /\ peer' \in [n : Nat, open : BOOLEAN, pings : Nat, closed : BOOLEAN]
    BY <1>1, <1>3
  <2>2. /\ F("last", peer.n) \in Frames
        /\ F("last", peer.n).kind = "last" /\ F("last", peer.n).n = peer.n
    BY <1>1, FrameTypes DEF Data
  <2>3. Leads(Spoken, F("last", peer.n), Spoken')
    BY <1>3, <2>1, <2>2 DEF Leads, Spoken, Point
  <2> QED
    BY <1>1, <1>3, <2>1, <2>2, <2>3 DEF PeerType
<1>4. ASSUME NEW k \in {"ping", "close", "bad"}, Push(<<Control(k)>>),
             NEW m \in Nat, NEW c \in BOOLEAN,
             peer' = [peer EXCEPT !.pings = m, !.closed = c]
      PROVE  Says
  <2>1. /\ peer'.n = peer.n /\ peer'.open = peer.open
        /\ peer' \in [n : Nat, open : BOOLEAN, pings : Nat, closed : BOOLEAN]
    BY <1>1, <1>4
  <2>2. Control(k) \in Frames /\ Control(k).kind = k /\ k \notin Data \cup {"pong"}
    BY FrameTypes DEF Data
  <2>3. Leads(Spoken, Control(k), Spoken')
    BY <2>1, <2>2 DEF Leads, Spoken, Point, Data
  <2> QED
    BY <1>1, <1>4, <2>1, <2>2, <2>3 DEF PeerType
<1>5. CASE /\ peer' = [peer EXCEPT !.n = @ + 1, !.open = (peer.n % 2) = 0] /\ ~peer.open
           /\ Push(<<F(IF peer'.open THEN "first" ELSE "whole", peer'.n)>>)
  BY <1>2, <1>5 DEF PeerSpeaks
<1>6. CASE /\ peer' = [peer EXCEPT !.open = FALSE] /\ peer.open /\ Push(<<F("last", peer.n)>>)
  BY <1>3, <1>6 DEF PeerSpeaks
<1>7. CASE /\ peer' = [peer EXCEPT !.pings = IF @ < end.probes THEN @ + 1 ELSE @]
           /\ Push(<<Control("ping")>>)
  <2>1. PICK m \in Nat : m = IF peer.pings < end.probes THEN peer.pings + 1 ELSE peer.pings
    BY <1>1
  <2>2. peer' = [peer EXCEPT !.pings = m, !.closed = peer.closed] /\ peer.closed \in BOOLEAN
    BY <1>1, <1>7, <2>1
  <2> QED
    BY <1>4, <1>7, <2>2 DEF PeerSpeaks
<1>8. ASSUME NEW k \in {"close", "bad"}, peer' = [peer EXCEPT !.closed = TRUE],
             Push(<<Control(k)>>)
      PROVE  Says
  <2>1. peer' = [peer EXCEPT !.pings = peer.pings, !.closed = TRUE] /\ peer.pings \in Nat
    BY <1>1, <1>8
  <2> QED
    BY <1>4, <1>8, <2>1
<1> QED
  BY <1>5, <1>6, <1>7, <1>8 DEF PeerSpeaks

\* Every step keeps the queues.
LEMMA NextQueues == Types /\ [Next]_vars => Queues'
<1> SUFFICES ASSUME Types, [Next]_vars PROVE Queues'
  OBVIOUS
<1> USE DEF Types, Queues, objects
<1>1. CASE Connect
  BY <1>1 DEF Connect, Opened
<1>2. CASE Upgrade
  BY <1>2 DEF Upgrade, Opened
<1>3. CASE ReadTurn
  BY <1>3 DEF ReadTurn
<1>4. CASE ReadFails
  BY <1>4 DEF ReadFails, Reading, Fails
<1>5. CASE ReadPing
  BY <1>5, NumberedTail DEF ReadPing
<1>6. CASE WritePong
  BY <1>6, WriteKeeps, FrameTypes DEF WritePong
<1>7. CASE ReadPong
  BY <1>7, NumberedTail DEF ReadPong
<1>8. CASE ReadClose
  BY <1>8, NumberedTail DEF ReadClose
<1>9. CASE EchoClose
  BY <1>9, WriteKeeps, FrameTypes DEF EchoClose
<1>10. CASE ReadMessage
  <2>1. wire' \in Seq(Frames) /\ Numbered(wire') /\ Head(wire).n \in Nat
    BY <1>10, NumberedTail DEF ReadMessage
  <2>2. got' \in Seq(Nat)
    BY <1>10, <2>1, AppendProperties DEF ReadMessage
  <2> QED
    BY <1>10, <2>1, <2>2 DEF ReadMessage
<1>11. CASE ReadFirstPart
  BY <1>11, NumberedTail DEF ReadFirstPart
<1>12. CASE ReadOutOfPlace
  BY <1>12, NumberedTail DEF ReadOutOfPlace
<1>13. CASE AppCloseStep
  <2>1. out' \in Seq(Frames) /\ heard' \in 0 .. Len(out')
    BY <1>13, WriteKeeps, FrameTypes DEF AppCloseStep, CloseStep
  <2>2. wire' \in Seq(Frames) /\ Numbered(wire')
    BY <1>13, NumberedTail DEF AppCloseStep, CloseStep
  <2> QED
    BY <1>13, <2>1, <2>2 DEF AppCloseStep
<1>14. CASE Destroy
  BY <1>14 DEF Destroy
<1>15. CASE Joined
  BY <1>15 DEF Joined
<1>16. CASE AppCloses
  BY <1>16 DEF AppCloses
<1>17. CASE Leave
  BY <1>17 DEF Leave
<1>18. CASE Send
  <2>1. F("whole", Sends + 1) \in Frames
    BY SendsType
  <2> QED
    BY <1>18, <2>1, WriteKeeps DEF Send
<1>19. CASE SenderStops
  BY <1>19 DEF SenderStops
<1>20. CASE HeartWakes
  BY <1>20 DEF HeartWakes
<1>21. CASE HeartSends
  BY <1>21, WriteKeeps, FrameTypes DEF HeartSends
<1>22. CASE HeartCounts
  BY <1>22 DEF HeartCounts
<1>23. CASE HeartCloseStep
  <2>1. out' \in Seq(Frames) /\ heard' \in 0 .. Len(out')
    BY <1>23, WriteKeeps, FrameTypes DEF HeartCloseStep, CloseStep
  <2>2. wire' \in Seq(Frames) /\ Numbered(wire')
    BY <1>23, NumberedTail DEF HeartCloseStep, CloseStep
  <2> QED
    BY <1>23, <2>1, <2>2 DEF HeartCloseStep
<1>24. CASE PeerReads
  <2>1. heard' \in 0 .. Len(out')
    BY <1>24, LenProperties DEF PeerReads
  <2>2. wire' \in Seq(Frames) /\ Numbered(wire')
    <3>1. CASE \E k \in {"pong", "close"} : Push(<<Control(k)>>)
      <4>1. PICK k \in {"pong", "close"} : Push(<<Control(k)>>)
        BY <3>1
      <4>2. Control(k) \in Frames /\ Control(k).kind \notin Data
        BY FrameTypes DEF Data
      <4> QED
        BY <4>1, <4>2, PushKeeps
    <3> QED
      BY <1>24, <3>1 DEF PeerReads
  <2> QED
    BY <1>24, <2>1, <2>2 DEF PeerReads
<1>25. CASE PeerSpeaks
  BY <1>25, PeerSays, PushKeeps DEF PeerSpeaks
<1>26. CASE ConnectionLost
  BY <1>26 DEF ConnectionLost
<1>27. CASE UNCHANGED vars
  BY <1>27 DEF vars
<1> QED
  BY <1>1, <1>2, <1>3, <1>4, <1>5, <1>6, <1>7, <1>8, <1>9, <1>10, <1>11, <1>12,
     <1>13, <1>14, <1>15, <1>16, <1>17, <1>18, <1>19, <1>20, <1>21, <1>22, <1>23,
     <1>24, <1>25, <1>26, <1>27
  DEF Next, AppStep, HeartStep

\* Every step keeps the peer's record.
LEMMA NextPeer == Types /\ [Next]_vars => PeerType'
<1> SUFFICES ASSUME Types, [Next]_vars PROVE PeerType'
  OBVIOUS
<1> USE DEF Types, PeerType, None
<1>1. CASE PeerReads
  BY <1>1 DEF PeerReads, Push, Control, F
<1>2. CASE PeerSpeaks
  BY <1>2, PeerSays
<1>3. CASE UNCHANGED <<peer>>
  BY <1>3
<1>4. CASE \/ Connect \/ Upgrade \/ ReadTurn \/ ReadFails \/ ReadPing \/ WritePong
            \/ ReadPong \/ ReadClose \/ EchoClose \/ ReadMessage \/ ReadFirstPart
            \/ ReadOutOfPlace \/ AppCloseStep \/ Destroy \/ Joined \/ AppCloses
            \/ Leave \/ Send \/ SenderStops \/ HeartWakes \/ HeartSends
            \/ HeartCounts \/ HeartCloseStep \/ ConnectionLost
  BY <1>3, <1>4 DEF Connect, Opened, Upgrade, Opened, ReadTurn, ReadFails, Reading,
     Fails, ReadPing, Reading, WritePong, Write, Control, F, ReadPong, Reading,
     ReadClose, Reading, EchoClose, Write, Control, F, ReadMessage, ReadFirstPart,
     ReadOutOfPlace, Fails, AppCloseStep, CloseStep, Begun, Write, Control, F,
     Destroy, Joined, AppCloses, Leave, Send, Write, F, SenderStops, HeartWakes,
     HeartSends, Write, Control, F, HeartCounts, HeartCloseStep, CloseStep, Begun,
     Write, Control, F, ConnectionLost
<1>5. CASE UNCHANGED vars
  BY <1>3, <1>5 DEF vars
<1> QED
  BY <1>1, <1>2, <1>4, <1>5
  DEF Next, AppStep, HeartStep

\* Every step keeps the types.
LEMMA NextTypes == Types /\ [Next]_vars => Types'
BY NextScalars, NextQueues, NextPeer DEF Types

-----------------------------------------------------------------------------
(* Threads, session, closing *)

\* A step that writes a frame f: a Close frame may be the first one only.
LEMMA WriteCloses ==
    ASSUME Queues, NothingAfterClose, NEW f \in Frames, Write(f),
           Closed => f.kind \notin Data \cup {"close"}
    PROVE  NothingAfterClose' /\ (Closed' <=> Closed \/ f.kind = "close")
<1>1. /\ Len(out) \in Nat /\ DOMAIN out = 1 .. Len(out) /\ DOMAIN out' = 1 .. Len(out) + 1
      /\ out'[Len(out) + 1] = f
      /\ \A i \in 1 .. Len(out) : out'[i] = out[i]
  BY AddLast DEF Queues, Write
<1>2. Closed' <=> Closed \/ f.kind = "close"
  BY <1>1 DEF Closed
<1>3. ASSUME NEW i \in 1 .. Len(out) + 1, NEW j \in 1 .. Len(out) + 1,
             i < j, out'[i].kind = "close"
      PROVE  out'[j].kind \notin Data \cup {"close"}
  <2>1. i \in 1 .. Len(out) /\ out[i].kind = "close"
    BY <1>1, <1>3
  <2>2. CASE j \in 1 .. Len(out)
    BY <1>1, <1>3, <2>1, <2>2 DEF NothingAfterClose
  <2>3. CASE j = Len(out) + 1
    BY <1>1, <2>1, <2>3 DEF Closed
  <2> QED
    BY <1>1, <1>3, <2>2, <2>3
<1> QED
  BY <1>1, <1>2, <1>3 DEF NothingAfterClose

\* Nothing is written: nothing changes.
LEMMA NothingCloses ==
    ASSUME UNCHANGED out PROVE (Closed' <=> Closed) /\ (NothingAfterClose' <=> NothingAfterClose)
BY DEF Closed, NothingAfterClose

\* The invariants hold initially.
LEMMA InitLives == Init => Lives /\ SessionLasts /\ OneCloser /\ CloserSpeaks /\ NeverGivesUp
<1> SUFFICES ASSUME Init PROVE Lives /\ SessionLasts /\ OneCloser /\ CloserSpeaks /\ NeverGivesUp
  OBVIOUS
<1>1. DOMAIN out = {}
  BY NoElement DEF Init
<1> QED
  BY <1>1 DEF Init, Lives, SessionLasts, OneCloser, CloserSpeaks, NeverGivesUp, AppSays,
              HeartSays, Closed, NothingAfterClose, None

\* Every step keeps the threads in order.
LEMMA NextLives == Types /\ Lives /\ [Next]_vars => Lives'
<1> SUFFICES ASSUME Types, Lives, [Next]_vars PROVE Lives'
  OBVIOUS
<1> USE DEF Types, Scalars, Lives, AppStates, Threads, objects
<1>1. CASE Connect
  BY <1>1 DEF Connect, Opened
<1>2. CASE Upgrade
  BY <1>2 DEF Upgrade, Opened
<1>3. CASE ReadTurn
  BY <1>3 DEF ReadTurn
<1>4. CASE ReadFails
  BY <1>4 DEF ReadFails, Reading, Fails
<1>5. CASE ReadPing
  BY <1>5 DEF ReadPing, Reading
<1>6. CASE WritePong
  BY <1>6 DEF WritePong, Write, Control, F
<1>7. CASE ReadPong
  BY <1>7 DEF ReadPong, Reading
<1>8. CASE ReadClose
  BY <1>8 DEF ReadClose, Reading
<1>9. CASE EchoClose
  BY <1>9 DEF EchoClose, Write, Control, F
<1>10. CASE ReadMessage
  BY <1>10 DEF ReadMessage
<1>11. CASE ReadFirstPart
  <2>1. Head(wire).n # None
    BY <1>11, NumberedTail DEF ReadFirstPart, Queues, Data
  <2> QED
    BY <1>11, <2>1 DEF ReadFirstPart
<1>12. CASE ReadOutOfPlace
  BY <1>12 DEF ReadOutOfPlace, Fails
<1>13. CASE AppCloseStep
  BY <1>13 DEF AppCloseStep, CloseStep, Begun, Write, Control, F
<1>14. CASE Destroy
  BY <1>14 DEF Destroy
<1>15. CASE Joined
  BY <1>15 DEF Joined
<1>16. CASE AppCloses
  BY <1>16 DEF AppCloses
<1>17. CASE Leave
  BY <1>17 DEF Leave
<1>18. CASE Send
  BY <1>18 DEF Send, Write, F
<1>19. CASE SenderStops
  BY <1>19 DEF SenderStops
<1>20. CASE HeartWakes
  BY <1>20 DEF HeartWakes
<1>21. CASE HeartSends
  BY <1>21 DEF HeartSends, Write, Control, F
<1>22. CASE HeartCounts
  BY <1>22 DEF HeartCounts
<1>23. CASE HeartCloseStep
  BY <1>23 DEF HeartCloseStep, CloseStep, Begun, Write, Control, F
<1>24. CASE PeerReads
  BY <1>24 DEF PeerReads, Push, Control, F
<1>25. CASE PeerSpeaks
  BY <1>25 DEF PeerSpeaks, Push, Control, F
<1>26. CASE ConnectionLost
  BY <1>26 DEF ConnectionLost
<1>27. CASE UNCHANGED vars
  BY <1>27 DEF vars
<1> QED
  BY <1>1, <1>2, <1>3, <1>4, <1>5, <1>6, <1>7, <1>8, <1>9, <1>10, <1>11, <1>12,
     <1>13, <1>14, <1>15, <1>16, <1>17, <1>18, <1>19, <1>20, <1>21, <1>22, <1>23,
     <1>24, <1>25, <1>26, <1>27
  DEF Next, AppStep, HeartStep

\* Every step keeps the session while it is needed.
LEMMA NextSession == Types /\ SessionLasts /\ [Next]_vars => SessionLasts'
<1> SUFFICES ASSUME Types, SessionLasts, [Next]_vars PROVE SessionLasts'
  OBVIOUS
<1> USE DEF Types, Scalars, SessionLasts, AppStates, objects
<1>1. CASE Connect
  BY <1>1 DEF Connect, Opened
<1>2. CASE Upgrade
  BY <1>2 DEF Upgrade, Opened
<1>3. CASE ReadTurn
  BY <1>3 DEF ReadTurn
<1>4. CASE ReadFails
  BY <1>4 DEF ReadFails, Reading, Fails
<1>5. CASE ReadPing
  BY <1>5 DEF ReadPing, Reading
<1>6. CASE WritePong
  BY <1>6 DEF WritePong, Write, Control, F
<1>7. CASE ReadPong
  BY <1>7 DEF ReadPong, Reading
<1>8. CASE ReadClose
  BY <1>8 DEF ReadClose, Reading
<1>9. CASE EchoClose
  BY <1>9 DEF EchoClose, Write, Control, F
<1>10. CASE ReadMessage
  BY <1>10 DEF ReadMessage
<1>11. CASE ReadFirstPart
  BY <1>11 DEF ReadFirstPart
<1>12. CASE ReadOutOfPlace
  BY <1>12 DEF ReadOutOfPlace, Fails
<1>13. CASE AppCloseStep
  BY <1>13 DEF AppCloseStep, CloseStep, Begun, Write, Control, F
<1>14. CASE Destroy
  BY <1>14 DEF Destroy
<1>15. CASE Joined
  BY <1>15 DEF Joined
<1>16. CASE AppCloses
  BY <1>16 DEF AppCloses
<1>17. CASE Leave
  BY <1>17 DEF Leave
<1>18. CASE Send
  BY <1>18 DEF Send, Write, F
<1>19. CASE SenderStops
  BY <1>19 DEF SenderStops
<1>20. CASE HeartWakes
  BY <1>20 DEF HeartWakes
<1>21. CASE HeartSends
  BY <1>21 DEF HeartSends, Write, Control, F
<1>22. CASE HeartCounts
  BY <1>22 DEF HeartCounts
<1>23. CASE HeartCloseStep
  BY <1>23 DEF HeartCloseStep, CloseStep, Begun, Write, Control, F
<1>24. CASE PeerReads
  BY <1>24 DEF PeerReads, Push, Control, F
<1>25. CASE PeerSpeaks
  BY <1>25 DEF PeerSpeaks, Push, Control, F
<1>26. CASE ConnectionLost
  BY <1>26 DEF ConnectionLost
<1>27. CASE UNCHANGED vars
  BY <1>27 DEF vars
<1> QED
  BY <1>1, <1>2, <1>3, <1>4, <1>5, <1>6, <1>7, <1>8, <1>9, <1>10, <1>11, <1>12,
     <1>13, <1>14, <1>15, <1>16, <1>17, <1>18, <1>19, <1>20, <1>21, <1>22, <1>23,
     <1>24, <1>25, <1>26, <1>27
  DEF Next, AppStep, HeartStep

\* A heartbeat without a limit never gives up.
LEMMA NextGivesUp == Types /\ NeverGivesUp /\ [Next]_vars => NeverGivesUp'
<1> SUFFICES ASSUME Types, NeverGivesUp, [Next]_vars PROVE NeverGivesUp'
  OBVIOUS
<1> USE EndType DEF Types, NeverGivesUp, objects
<1>1. CASE Connect
  BY <1>1 DEF Connect, Opened
<1>2. CASE Upgrade
  BY <1>2 DEF Upgrade, Opened
<1>3. CASE ReadTurn
  BY <1>3 DEF ReadTurn
<1>4. CASE ReadFails
  BY <1>4 DEF ReadFails, Reading, Fails
<1>5. CASE ReadPing
  BY <1>5 DEF ReadPing, Reading
<1>6. CASE WritePong
  BY <1>6 DEF WritePong, Write, Control, F
<1>7. CASE ReadPong
  BY <1>7 DEF ReadPong, Reading
<1>8. CASE ReadClose
  BY <1>8 DEF ReadClose, Reading
<1>9. CASE EchoClose
  BY <1>9 DEF EchoClose, Write, Control, F
<1>10. CASE ReadMessage
  BY <1>10 DEF ReadMessage
<1>11. CASE ReadFirstPart
  BY <1>11 DEF ReadFirstPart
<1>12. CASE ReadOutOfPlace
  BY <1>12 DEF ReadOutOfPlace, Fails
<1>13. CASE AppCloseStep
  BY <1>13 DEF AppCloseStep, CloseStep, Begun, Write, Control, F
<1>14. CASE Destroy
  BY <1>14 DEF Destroy
<1>15. CASE Joined
  BY <1>15 DEF Joined
<1>16. CASE AppCloses
  BY <1>16 DEF AppCloses
<1>17. CASE Leave
  BY <1>17 DEF Leave
<1>18. CASE Send
  BY <1>18 DEF Send, Write, F
<1>19. CASE SenderStops
  BY <1>19 DEF SenderStops
<1>20. CASE HeartWakes
  BY <1>20 DEF HeartWakes, PongsMissed
<1>21. CASE HeartSends
  BY <1>21 DEF HeartSends, Write, Control, F
<1>22. CASE HeartCounts
  BY <1>22 DEF HeartCounts
<1>23. CASE HeartCloseStep
  BY <1>23 DEF HeartCloseStep, CloseStep, Begun, Write, Control, F
<1>24. CASE PeerReads
  BY <1>24 DEF PeerReads, Push, Control, F
<1>25. CASE PeerSpeaks
  BY <1>25 DEF PeerSpeaks, Push, Control, F
<1>26. CASE ConnectionLost
  BY <1>26 DEF ConnectionLost
<1>27. CASE UNCHANGED vars
  BY <1>27 DEF vars
<1> QED
  BY <1>1, <1>2, <1>3, <1>4, <1>5, <1>6, <1>7, <1>8, <1>9, <1>10, <1>11, <1>12,
     <1>13, <1>14, <1>15, <1>16, <1>17, <1>18, <1>19, <1>20, <1>21, <1>22, <1>23,
     <1>24, <1>25, <1>26, <1>27
  DEF Next, AppStep, HeartStep

\* Every step keeps one closer at most.
LEMMA NextCloser == Types /\ Lives /\ OneCloser /\ [Next]_vars => OneCloser'
<1> SUFFICES ASSUME Types, Lives, OneCloser, [Next]_vars PROVE OneCloser'
  OBVIOUS
<1> USE DEF Types, Scalars, Lives, OneCloser, AppSays, HeartSays, AppStates,
     Threads, objects
<1>1. CASE Connect
  BY <1>1, NothingCloses DEF Connect, Opened
<1>2. CASE Upgrade
  BY <1>2, NothingCloses DEF Upgrade, Opened
<1>3. CASE ReadTurn
  BY <1>3, NothingCloses DEF ReadTurn
<1>4. CASE ReadFails
  BY <1>4, NothingCloses DEF ReadFails, Reading, Fails
<1>5. CASE ReadPing
  BY <1>5, NothingCloses DEF ReadPing, Reading
<1>6. CASE WritePong
  <2>1. Closed' <=> Closed
    BY <1>6, WriteCloses, FrameTypes DEF WritePong, Data
  <2>2. NothingAfterClose'
    BY <1>6, WriteCloses, FrameTypes DEF WritePong, Data
  <2> QED
    BY <1>6, <2>1, <2>2 DEF WritePong
<1>7. CASE ReadPong
  BY <1>7, NothingCloses DEF ReadPong, Reading
<1>8. CASE ReadClose
  BY <1>8, NothingCloses DEF ReadClose, Reading
<1>9. CASE EchoClose
  <2>1. NothingAfterClose'
    BY <1>9, WriteCloses, FrameTypes DEF EchoClose
  <2> QED
    BY <1>9, <2>1 DEF EchoClose
<1>10. CASE ReadMessage
  BY <1>10, NothingCloses DEF ReadMessage
<1>11. CASE ReadFirstPart
  BY <1>11, NothingCloses DEF ReadFirstPart
<1>12. CASE ReadOutOfPlace
  BY <1>12, NothingCloses DEF ReadOutOfPlace, Fails
<1>13. CASE AppCloseStep
  <2>1. CASE app = "say"
    <3>1. NothingAfterClose'
      BY <1>13, <2>1, WriteCloses, FrameTypes DEF AppCloseStep, CloseStep
    <3> QED
      BY <1>13, <2>1, <3>1 DEF AppCloseStep, CloseStep
  <2>2. CASE app # "say"
    BY <1>13, <2>2, NothingCloses DEF AppCloseStep, CloseStep, Begun
  <2> QED
    BY <2>1, <2>2
<1>14. CASE Destroy
  BY <1>14, NothingCloses DEF Destroy
<1>15. CASE Joined
  BY <1>15, NothingCloses DEF Joined
<1>16. CASE AppCloses
  BY <1>16, NothingCloses DEF AppCloses
<1>17. CASE Leave
  BY <1>17, NothingCloses DEF Leave
<1>18. CASE Send
  <2>1. ~Closed /\ Write(F("whole", Sends + 1))
    BY <1>18 DEF Send
  <2>2. F("whole", Sends + 1) \in Frames /\ F("whole", Sends + 1).kind = "whole"
    BY SendsType, FrameTypes
  <2>3. NothingAfterClose' /\ (Closed' <=> Closed)
    BY <2>1, <2>2, WriteCloses
  <2> QED
    BY <1>18, <2>3 DEF Send
<1>19. CASE SenderStops
  BY <1>19, NothingCloses DEF SenderStops
<1>20. CASE HeartWakes
  BY <1>20, NothingCloses DEF HeartWakes
<1>21. CASE HeartSends
  <2>1. NothingAfterClose' /\ (Closed' <=> Closed)
    BY <1>21, NothingCloses, WriteCloses, FrameTypes DEF HeartSends
  <2> QED
    BY <1>21, <2>1 DEF HeartSends
<1>22. CASE HeartCounts
  BY <1>22, NothingCloses DEF HeartCounts
<1>23. CASE HeartCloseStep
  <2>1. CASE heart = "say"
    <3>1. NothingAfterClose'
      BY <1>23, <2>1, WriteCloses, FrameTypes DEF HeartCloseStep, CloseStep
    <3> QED
      BY <1>23, <2>1, <3>1 DEF HeartCloseStep, CloseStep
  <2>2. CASE heart # "say"
    BY <1>23, <2>2, NothingCloses DEF HeartCloseStep, CloseStep, Begun
  <2> QED
    BY <2>1, <2>2
<1>24. CASE PeerReads
  BY <1>24, NothingCloses DEF PeerReads, Push, Control, F
<1>25. CASE PeerSpeaks
  BY <1>25, NothingCloses DEF PeerSpeaks, Push, Control, F
<1>26. CASE ConnectionLost
  BY <1>26, NothingCloses DEF ConnectionLost
<1>27. CASE UNCHANGED vars
  BY <1>27, NothingCloses DEF vars
<1> QED
  BY <1>1, <1>2, <1>3, <1>4, <1>5, <1>6, <1>7, <1>8, <1>9, <1>10, <1>11, <1>12,
     <1>13, <1>14, <1>15, <1>16, <1>17, <1>18, <1>19, <1>20, <1>21, <1>22, <1>23,
     <1>24, <1>25, <1>26, <1>27
  DEF Next, AppStep, HeartStep

\* A frame that is written stays, and a Close frame is one.
LEMMA StaysClosed ==
    ASSUME Queues, Closed,
           \/ UNCHANGED out
           \/ \E k \in {"ping", "pong", "close"} : Write(Control(k))
           \/ Write(F("whole", Sends + 1))
    PROVE  Closed'
<1>1. CASE UNCHANGED out
  BY <1>1, NothingCloses
<1>2. ASSUME NEW f \in Frames, Write(f) PROVE Closed'
  BY <1>2, AddLast DEF Closed, Queues, Write
<1> QED
  BY <1>1, <1>2, FrameTypes, SendsType

\* A Close frame is written.
LEMMA WritesClose == ASSUME Queues, Write(Control("close")) PROVE Closed'
<1>1. /\ Len(out) + 1 \in DOMAIN out' /\ out'[Len(out) + 1] = Control("close")
  BY AddLast, FrameTypes DEF Queues, Write
<1> QED
  BY <1>1, FrameTypes DEF Closed

\* Every step keeps a closed client's promise to say so.
LEMMA NextSpeaks == Types /\ Lives /\ CloserSpeaks /\ [Next]_vars => CloserSpeaks'
<1> SUFFICES ASSUME Types, Lives, CloserSpeaks, [Next]_vars PROVE CloserSpeaks'
  OBVIOUS
<1> USE DEF Types, Scalars, Lives, CloserSpeaks, AppSays, HeartSays, AppStates,
     Threads, objects
<1>1. CASE Connect
  BY <1>1, NothingCloses DEF Connect, Opened
<1>2. CASE Upgrade
  BY <1>2, NothingCloses DEF Upgrade, Opened
<1>3. CASE ReadTurn
  BY <1>3, NothingCloses DEF ReadTurn
<1>4. CASE ReadFails
  BY <1>4, NothingCloses DEF ReadFails, Reading, Fails
<1>5. CASE ReadPing
  BY <1>5, NothingCloses DEF ReadPing, Reading
<1>6. CASE WritePong
  BY <1>6, StaysClosed, WritesClose DEF WritePong
<1>7. CASE ReadPong
  BY <1>7, NothingCloses DEF ReadPong, Reading
<1>8. CASE ReadClose
  BY <1>8, NothingCloses DEF ReadClose, Reading
<1>9. CASE EchoClose
  BY <1>9, StaysClosed, WritesClose DEF EchoClose
<1>10. CASE ReadMessage
  BY <1>10, NothingCloses DEF ReadMessage
<1>11. CASE ReadFirstPart
  BY <1>11, NothingCloses DEF ReadFirstPart
<1>12. CASE ReadOutOfPlace
  BY <1>12, NothingCloses DEF ReadOutOfPlace, Fails
<1>13. CASE AppCloseStep
  BY <1>13, StaysClosed, WritesClose DEF AppCloseStep, CloseStep, Begun
<1>14. CASE Destroy
  BY <1>14, NothingCloses DEF Destroy
<1>15. CASE Joined
  BY <1>15, NothingCloses DEF Joined
<1>16. CASE AppCloses
  BY <1>16, NothingCloses DEF AppCloses
<1>17. CASE Leave
  BY <1>17, NothingCloses DEF Leave
<1>18. CASE Send
  BY <1>18, StaysClosed, WritesClose DEF Send
<1>19. CASE SenderStops
  BY <1>19, NothingCloses DEF SenderStops
<1>20. CASE HeartWakes
  BY <1>20, NothingCloses DEF HeartWakes
<1>21. CASE HeartSends
  BY <1>21, StaysClosed, WritesClose DEF HeartSends
<1>22. CASE HeartCounts
  BY <1>22, NothingCloses DEF HeartCounts
<1>23. CASE HeartCloseStep
  BY <1>23, StaysClosed, WritesClose DEF HeartCloseStep, CloseStep, Begun
<1>24. CASE PeerReads
  BY <1>24, NothingCloses DEF PeerReads, Push, Control, F
<1>25. CASE PeerSpeaks
  BY <1>25, NothingCloses DEF PeerSpeaks, Push, Control, F
<1>26. CASE ConnectionLost
  BY <1>26, NothingCloses DEF ConnectionLost
<1>27. CASE UNCHANGED vars
  BY <1>27, NothingCloses DEF vars
<1> QED
  BY <1>1, <1>2, <1>3, <1>4, <1>5, <1>6, <1>7, <1>8, <1>9, <1>10, <1>11, <1>12,
     <1>13, <1>14, <1>15, <1>16, <1>17, <1>18, <1>19, <1>20, <1>21, <1>22, <1>23,
     <1>24, <1>25, <1>26, <1>27
  DEF Next, AppStep, HeartStep

-----------------------------------------------------------------------------
(* Reading *)

\* Nothing is read and nothing is said.
LEMMA WayQuiet ==
    ASSUME OnTheWay, UNCHANGED <<end, wire, got, msg, peer>>,
           MayRead' => MayRead /\ (InMessage' <=> InMessage),
           InMessage' => InMessage
    PROVE  OnTheWay'
<1>1. DeliveredInOrder' <=> DeliveredInOrder
  BY DEF DeliveredInOrder
<1>2. Spoken' = Spoken
  BY DEF Spoken
<1>3. MayRead' => Reached' = Reached
  BY DEF Reached
<1> QED
  BY <1>1, <1>2, <1>3 DEF OnTheWay

\* A control frame is read between two messages or two parts.
LEMMA WaySkips ==
    ASSUME Types, OnTheWay, MayRead, wire # <<>>, Head(wire).kind \notin Data, wire' = Tail(wire),
           UNCHANGED <<end, got, msg, peer>>,
           MayRead', InMessage' <=> InMessage
    PROVE  OnTheWay'
<1> SUFFICES ASSUME end.max_missed = 0
             PROVE  Way(Reached', wire', Spoken') /\ (InMessage' => msg' = Len(got') + 1)
                    /\ DeliveredInOrder'
  BY DEF OnTheWay
<1>1. DeliveredInOrder' /\ Spoken' = Spoken /\ Reached' = Reached
  BY DEF OnTheWay, DeliveredInOrder, Spoken, Reached
<1>2. PICK r \in Points : Leads(Reached, Head(wire), r) /\ Way(r, Tail(wire), Spoken)
  BY WayTail DEF OnTheWay, Types, Queues
<1>3. r = Reached
  BY <1>2 DEF Leads, Data
<1> QED
  BY <1>1, <1>2, <1>3 DEF OnTheWay

\* The peer says something.
LEMMA WayGrows ==
    ASSUME Types, OnTheWay, NEW f \in Frames, f.kind \in Data => f.n # None, Push(<<f>>),
           PeerType', Leads(Spoken, f, Spoken'), UNCHANGED <<end, app, got, msg>>
    PROVE  OnTheWay'
<1>1. wire' = Append(wire, f) /\ wire \in Seq(Frames)
  BY PushKeeps DEF Types, Queues
<1>2. Spoken' \in Points
  BY DEF PeerType, Spoken, Points, Point
<1>3. /\ DeliveredInOrder' <=> DeliveredInOrder
      /\ Reached' = Reached /\ (MayRead' <=> MayRead) /\ (InMessage' <=> InMessage)
  BY DEF DeliveredInOrder, Reached, MayRead, InMessage
<1>4. ASSUME Way(Reached, wire, Spoken) PROVE Way(Reached, wire', Spoken')
  BY <1>1, <1>2, <1>4, WayAppend
<1> QED
  BY <1>3, <1>4 DEF OnTheWay

\* Nobody reads on behalf of the caller any more.
LEMMA WayIsLeft ==
    ASSUME OnTheWay, UNCHANGED <<end, got>>, ~MayRead', ~InMessage' PROVE OnTheWay'
BY DEF OnTheWay, DeliveredInOrder

\* The caller is handed the next message.
LEMMA WayDelivers ==
    ASSUME Types, OnTheWay, ReadMessage PROVE OnTheWay'
<1> SUFFICES ASSUME end.max_missed = 0
             PROVE  /\ MayRead' => Way(Reached', wire', Spoken')
                    /\ InMessage' => msg' = Len(got') + 1
                    /\ DeliveredInOrder'
  BY DEF OnTheWay, ReadMessage
<1>1. PICK n \in Nat : n = Len(got)
  BY LenProperties DEF Types, Queues
<1>2. PICK r \in Points : Leads(Reached, Head(wire), r) /\ Way(r, Tail(wire), Spoken)
  BY WayTail DEF OnTheWay, Types, Queues, ReadMessage, MayRead, InMessage
<1>3. Head(wire).n = n + 1 /\ r = Point(n + 1, FALSE)
  <2>1. CASE app = "read" /\ Head(wire).kind = "whole"
    BY <1>1, <1>2, <2>1 DEF Leads, Reached, InMessage, Point
  <2>2. CASE app = "rest" /\ Head(wire).kind = "last"
    <3>1. msg = n + 1
      BY <1>1, <2>2 DEF OnTheWay, InMessage
    <3> QED
      BY <1>2, <2>2, <3>1 DEF Leads, Reached, InMessage, Point
  <2> QED
    BY <2>1, <2>2 DEF ReadMessage
<1>4. Spoken' = Spoken /\ ~InMessage'
  BY DEF ReadMessage, Spoken, InMessage
<1>5. CASE got' = Append(got, Head(wire).n) /\ app' = "loop"
  <2>1. /\ Len(got') = n + 1 /\ DOMAIN got' = 1 .. n + 1 /\ DOMAIN got = 1 .. n
        /\ got'[n + 1] = n + 1 /\ \A i \in 1 .. n : got'[i] = got[i]
    BY <1>1, <1>3, <1>5, AddLast DEF Types, Queues
  <2>2. Reached' = r
    BY <1>3, <1>4, <2>1 DEF Reached
  <2>3. DeliveredInOrder'
    <3>1. \A i \in DOMAIN got : got[i] = i
      BY DEF OnTheWay, DeliveredInOrder
    <3>2. ASSUME NEW i \in 1 .. n + 1 PROVE got'[i] = i
      BY <2>1, <3>1, <3>2
    <3> QED
      BY <2>1, <3>2 DEF DeliveredInOrder
  <2> QED
    BY <1>2, <1>4, <2>2, <2>3 DEF ReadMessage
<1>6. CASE got' = got /\ app' = "close"
  BY <1>4, <1>6 DEF MayRead, OnTheWay, DeliveredInOrder, ReadMessage
<1> QED
  BY <1>5, <1>6 DEF ReadMessage

\* The first part of a message is read.
LEMMA WayBegins ==
    ASSUME Types, OnTheWay, ReadFirstPart PROVE OnTheWay'
<1> SUFFICES ASSUME end.max_missed = 0
             PROVE  /\ MayRead' => Way(Reached', wire', Spoken')
                    /\ InMessage' => msg' = Len(got') + 1
                    /\ DeliveredInOrder'
  BY DEF OnTheWay, ReadFirstPart
<1>1. PICK r \in Points : Leads(Reached, Head(wire), r) /\ Way(r, Tail(wire), Spoken)
  BY WayTail DEF OnTheWay, Types, Queues, ReadFirstPart, MayRead, InMessage
<1>2. Head(wire).n = Len(got) + 1 /\ r = Point(Len(got) + 1, TRUE)
  BY <1>1 DEF ReadFirstPart, Leads, Reached, InMessage, Point
<1>3. Spoken' = Spoken /\ Reached' = r /\ DeliveredInOrder'
  BY <1>2 DEF ReadFirstPart, Spoken, Reached, InMessage, OnTheWay, DeliveredInOrder
<1> QED
  BY <1>1, <1>2, <1>3 DEF ReadFirstPart

\* Nothing has been said and nothing read.
LEMMA InitWay == Init => OnTheWay
<1> SUFFICES ASSUME Init PROVE OnTheWay
  OBVIOUS
<1>1. Reached = Point(0, FALSE) /\ Spoken = Point(0, FALSE) /\ Point(0, FALSE) \in Points
  BY EmptySeq DEF Init, Reached, Spoken, InMessage, Point, Points
<1>2. Way(Reached, wire, Spoken)
  BY <1>1, WayStands DEF Init
<1>3. DOMAIN got = {} /\ ~InMessage
  BY NoElement DEF Init, InMessage
<1> QED
  BY <1>2, <1>3 DEF OnTheWay, DeliveredInOrder

\* Every step keeps the way from what was read to what was said.
LEMMA NextWay == Types /\ NeverGivesUp /\ OnTheWay /\ [Next]_vars => OnTheWay'
<1> SUFFICES ASSUME Types, NeverGivesUp, OnTheWay, [Next]_vars PROVE OnTheWay'
  OBVIOUS
<1>0. PeerType'
  BY NextPeer
<1> USE DEF MayRead, InMessage, objects
<1>1. CASE Connect
  BY <1>1, WayQuiet DEF Connect, Opened
<1>2. CASE Upgrade
  BY <1>2, WayQuiet DEF Upgrade, Opened
<1>3. CASE ReadTurn
  BY <1>3, WayQuiet DEF ReadTurn
<1>4. CASE ReadFails
  BY <1>4, WayIsLeft DEF ReadFails, Reading, Fails
<1>5. CASE ReadPing
  BY <1>5, WaySkips DEF ReadPing, Reading, Data
<1>6. CASE WritePong
  BY <1>6, WayQuiet DEF WritePong
<1>7. CASE ReadPong
  BY <1>7, WaySkips DEF ReadPong, Reading, Data
<1>8. CASE ReadClose
  BY <1>8, WayIsLeft DEF ReadClose, Reading
<1>9. CASE EchoClose
  BY <1>9, WayQuiet DEF EchoClose
<1>10. CASE ReadMessage
  BY <1>10, WayDelivers
<1>11. CASE ReadFirstPart
  BY <1>11, WayBegins
<1>12. CASE ReadOutOfPlace
  BY <1>12, WayIsLeft DEF ReadOutOfPlace, Fails
<1>13. CASE AppCloseStep
  BY <1>13, WayIsLeft DEF AppCloseStep, CloseStep, Begun
<1>14. CASE Destroy
  BY <1>14, WayQuiet DEF Destroy
<1>15. CASE Joined
  BY <1>15, WayQuiet DEF Joined
<1>16. CASE AppCloses
  BY <1>16, WayQuiet DEF AppCloses
<1>17. CASE Leave
  BY <1>17, WayQuiet DEF Leave
<1>18. CASE Send
  BY <1>18, WayQuiet DEF Send
<1>19. CASE SenderStops
  BY <1>19, WayQuiet DEF SenderStops
<1>20. CASE HeartWakes
  BY <1>20, WayQuiet DEF HeartWakes
<1>21. CASE HeartSends
  BY <1>21, WayQuiet DEF HeartSends
<1>22. CASE HeartCounts
  BY <1>22, WayQuiet DEF HeartCounts
<1>23. CASE HeartCloseStep
  <2>1. CASE end.max_missed = 0 /\ heart = "await"
    BY <2>1 DEF NeverGivesUp
  <2>2. CASE heart # "await"
    BY <1>23, <2>2, WayQuiet DEF HeartCloseStep, CloseStep
  <2>3. CASE end.max_missed # 0
    BY <1>23, <2>3 DEF OnTheWay, HeartCloseStep
  <2> QED
    BY <2>1, <2>2, <2>3
<1>24. CASE PeerReads
  <2>1. CASE UNCHANGED <<wire, peer>>
    BY <1>24, <2>1, WayQuiet DEF PeerReads
  <2>2. ASSUME NEW k \in {"pong", "close"}, NEW c, Push(<<Control(k)>>),
               peer' = [peer EXCEPT !.closed = c]
        PROVE  OnTheWay'
    <3>1. Control(k) \in Frames /\ Control(k).kind = k /\ k \notin Data
      BY FrameTypes DEF Data
    <3>2. Spoken' = Spoken
      BY <2>2 DEF Spoken, Types, PeerType
    <3>3. Leads(Spoken, Control(k), Spoken') /\ PeerType'
      BY <1>0, <3>1, <3>2 DEF Leads, Data
    <3> QED
      BY <1>24, <2>2, <3>1, <3>3, WayGrows DEF PeerReads
  <2> QED
    BY <1>24, <2>1, <2>2 DEF PeerReads
<1>25. CASE PeerSpeaks
  BY <1>25, PeerSays, WayGrows DEF PeerSpeaks
<1>26. CASE ConnectionLost
  BY <1>26, WayQuiet DEF ConnectionLost
<1>27. CASE UNCHANGED vars
  BY <1>27, WayQuiet DEF vars
<1> QED
  BY <1>1, <1>2, <1>3, <1>4, <1>5, <1>6, <1>7, <1>8, <1>9, <1>10, <1>11, <1>12,
     <1>13, <1>14, <1>15, <1>16, <1>17, <1>18, <1>19, <1>20, <1>21, <1>22, <1>23,
     <1>24, <1>25, <1>26, <1>27
  DEF Next, AppStep, HeartStep

-----------------------------------------------------------------------------
(* Counting *)

\* The counts are numbers.
LEMMA CountsType ==
    ASSUME Types
    PROVE  /\ Pings \in Nat /\ PingsHeard \in Nat /\ PongsComing \in Nat /\ PingsHeard <= Pings
           /\ end.pings \in Nat /\ unacked_pings_ \in Nat /\ pongs \in Nat
BY HeardType, CountType, EndType DEF Types, Scalars, Queues, PongsComing

\* Without a frame more or less nothing is counted.
LEMMA CountsStay ==
    /\ UNCHANGED out => Pings' = Pings
    /\ UNCHANGED <<out, heard>> => PingsHeard' = PingsHeard
    /\ UNCHANGED wire => PongsComing' = PongsComing
BY DEF Pings, PingsHeard, PongsComing, Count

\* A ping more is written, or another frame; the peer has not read it yet.
LEMMA CountsWrite ==
    ASSUME Types, NEW f \in Frames, Write(f), UNCHANGED heard
    PROVE  /\ Pings' = IF f.kind = "ping" THEN Pings + 1 ELSE Pings
           /\ PingsHeard' = PingsHeard
<1>1. Pings' = IF f.kind = "ping" THEN Pings + 1 ELSE Pings
  BY CountAppend DEF Types, Queues, Write, Pings
<1>2. {i \in 1 .. heard : out'[i].kind = "ping"} = {i \in 1 .. heard : out[i].kind = "ping"}
  <2>1. heard \in 0 .. Len(out) /\ Len(out) \in Nat /\ \A i \in 1 .. Len(out) : out'[i] = out[i]
    BY AddLast DEF Types, Queues, Write
  <2> QED
    BY <2>1
<1> QED
  BY <1>1, <1>2 DEF PingsHeard

\* A frame is read, by whomever.
LEMMA CountsRead ==
    ASSUME Types, wire # <<>>, wire' = Tail(wire)
    PROVE  PongsComing' <= IF Head(wire).kind = "pong" THEN PongsComing - 1 ELSE PongsComing
BY CountTail DEF Types, Queues, PongsComing

\* The peer speaks.
LEMMA CountsPush ==
    ASSUME Types, NEW f \in Frames, f.kind \in Data => f.n # None, Push(<<f>>)
    PROVE  PongsComing' = IF f.kind = "pong" THEN PongsComing + 1 ELSE PongsComing
<1>1. wire' = Append(wire, f) /\ wire \in Seq(Frames)
  BY PushKeeps DEF Types, Queues
<1> QED
  BY <1>1, CountAppend DEF PongsComing

\* The peer reads a ping, or another frame.
LEMMA CountsHear ==
    ASSUME Types, heard < Len(out), heard' = heard + 1, UNCHANGED out
    PROVE  PingsHeard' = IF out[heard'].kind = "ping" THEN PingsHeard + 1 ELSE PingsHeard
<1> DEFINE H == {i \in 1 .. heard : out[i].kind = "ping"}
<1>1. heard \in Nat
  BY LenProperties DEF Types, Queues
<1>2. {i \in 1 .. heard' : out'[i].kind = "ping"}
        = IF out[heard'].kind = "ping" THEN H \cup {heard + 1} ELSE H
  BY <1>1
<1>3. heard + 1 \notin H /\ IsFiniteSet(H)
  BY <1>1, HeardType
<1>4. Cardinality(H \cup {heard + 1}) = Cardinality(H) + 1
  <2> HIDE DEF H
  <2> QED
    BY <1>3, FS_AddElement
<1> QED
  BY <1>2, <1>4 DEF PingsHeard

\* No ping is written or counted, and no pong comes in.
LEMMA CountsQuiet ==
    ASSUME Types, PingsCounted, PongsComing' \in Nat, PongsComing' <= PongsComing,
           Pings' = Pings, PingsHeard' = PingsHeard, UNCHANGED <<end, unacked_pings_, pongs>>,
           heart' = "send" => heart = "send", heart' = "count" <=> heart = "count"
    PROVE  PingsCounted'
<1> DEFINE c == IF heart = "count" THEN 1 ELSE 0
<1>1. c' = c /\ c \in Nat
  OBVIOUS
<1>2. (heart' = "send" => Pings' < end'.pings) /\ Pings' <= end'.pings
  BY DEF PingsCounted
<1> HIDE DEF c
<1>3. /\ unacked_pings_' + c' <= Pings' /\ unacked_pings_' + pongs' + c' <= Pings' + 1
  BY <1>1, CountsType DEF PingsCounted, c
<1>4. pongs' + PongsComing' <= PingsHeard'
  BY CountsType DEF PingsCounted
<1> QED
  BY <1>2, <1>3, <1>4 DEF PingsCounted, c

\* A pong comes in.
LEMMA CountsPong ==
    ASSUME Types, PingsCounted, PongsComing' \in Nat, ReadPong
    PROVE  PingsCounted'
<1> DEFINE c == IF heart = "count" THEN 1 ELSE 0
           W == PongsComing
           P == Pings
           H == PingsHeard
<1>1. c' = c /\ c \in 0 .. 1 /\ pongs' = pongs + 1 /\ unacked_pings_' = 0 /\ P' = P /\ H' = H
  BY CountsStay DEF ReadPong
<1>2. W' <= W - 1
  BY CountsRead DEF ReadPong
<1>3. /\ W \in Nat /\ W' \in Nat /\ P \in Nat /\ H \in Nat /\ H <= P
      /\ pongs \in Nat /\ unacked_pings_ \in Nat
  BY CountsType
<1>4. pongs + W <= H
  BY DEF PingsCounted
<1>5. (heart' = "send" => P' < end'.pings) /\ P' <= end'.pings
  BY <1>1 DEF PingsCounted, ReadPong
<1> HIDE DEF c, W, P, H
<1>6. W >= 1 /\ P >= pongs + 1
  BY <1>2, <1>3, <1>4
<1>7. unacked_pings_' + c' <= P' /\ unacked_pings_' + pongs' + c' <= P' + 1
  <2>1. 0 + c <= P /\ 0 + (pongs + 1) + c <= P + 1
    BY <1>1, <1>3, <1>6
  <2> QED
    BY <1>1, <2>1
<1>8. pongs' + W' <= H'
  <2>1. (pongs + 1) + W' <= H
    <3>1. PICK w \in Nat, v \in Nat, p \in Nat, h \in Nat :
             w = W /\ v = W' /\ p = pongs /\ h = H
      BY <1>3
    <3>2. v <= w - 1 /\ p + w <= h
      BY <1>2, <1>4, <3>1
    <3>3. (p + 1) + v <= h
      BY <3>2
    <3> QED
      BY <3>1, <3>3
  <2> QED
    BY <1>1, <2>1
<1> QED
  BY <1>5, <1>7, <1>8 DEF PingsCounted, c, W, P, H

\* Nothing has been written and nothing heard.
LEMMA InitCounted == Init => PingsCounted
<1> SUFFICES ASSUME Init PROVE PingsCounted
  OBVIOUS
<1>1. DOMAIN out = {} /\ DOMAIN wire = {} /\ 1 .. heard = {}
  BY NoElement DEF Init
<1>2. Pings = 0 /\ PingsHeard = 0 /\ PongsComing = 0
  BY <1>1, FS_EmptySet DEF Pings, PingsHeard, PongsComing, Count
<1>3. end.pings \in Nat
  BY InitTypes, EndType DEF Types
<1> QED
  BY <1>2, <1>3 DEF Init, PingsCounted

\* Every step counts.
LEMMA NextCounted == Types /\ PingsCounted /\ [Next]_vars => PingsCounted'
<1> SUFFICES ASSUME Types, PingsCounted, [Next]_vars PROVE PingsCounted'
  OBVIOUS
<1>0. /\ PongsComing' \in Nat
      /\ Pings \in Nat /\ PingsHeard \in Nat /\ PongsComing \in Nat /\ PingsHeard <= Pings
      /\ end.pings \in Nat /\ unacked_pings_ \in Nat /\ pongs \in Nat
  <2>1. Types'
    BY NextTypes
  <2>2. PongsComing' \in Nat
    BY <2>1, CountType DEF Types, Queues, PongsComing
  <2> QED
    BY <2>2, CountsType
<1> USE DEF PingsCounted, objects
<1>1. CASE Connect
  BY <1>0, <1>1, CountsStay DEF Connect, Opened
<1>2. CASE Upgrade
  BY <1>0, <1>2, CountsStay DEF Upgrade, Opened
<1>3. CASE ReadTurn
  BY <1>0, <1>3, CountsStay DEF ReadTurn
<1>4. CASE ReadFails
  BY <1>0, <1>4, CountsStay DEF ReadFails, Reading, Fails
<1>5. CASE ReadPing
  <2>1. PongsComing' <= PongsComing
    BY <1>0, <1>5, CountsRead DEF ReadPing
  <2>2. Pings' = Pings /\ PingsHeard' = PingsHeard
    BY <1>0, <1>5, CountsStay DEF ReadPing
  <2> QED
    BY <1>0, <1>5, <2>1, <2>2, CountsQuiet DEF ReadPing
<1>6. CASE WritePong
  <2>1. Pings' = Pings /\ PingsHeard' = PingsHeard
    BY <1>0, <1>6, CountsWrite, FrameTypes DEF WritePong
  <2> QED
    BY <1>0, <1>6, <2>1, CountsStay DEF WritePong
<1>7. CASE ReadPong
  BY <1>0, <1>7, CountsPong
<1>8. CASE ReadClose
  <2>1. PongsComing' <= PongsComing
    BY <1>0, <1>8, CountsRead DEF ReadClose
  <2>2. Pings' = Pings /\ PingsHeard' = PingsHeard
    BY <1>0, <1>8, CountsStay DEF ReadClose
  <2> QED
    BY <1>0, <1>8, <2>1, <2>2, CountsQuiet DEF ReadClose
<1>9. CASE EchoClose
  <2>1. Pings' = Pings /\ PingsHeard' = PingsHeard
    BY <1>0, <1>9, CountsWrite, FrameTypes DEF EchoClose
  <2> QED
    BY <1>0, <1>9, <2>1, CountsStay DEF EchoClose
<1>10. CASE ReadMessage
  <2>1. PongsComing' <= PongsComing
    BY <1>0, <1>10, CountsRead DEF ReadMessage
  <2>2. Pings' = Pings /\ PingsHeard' = PingsHeard
    BY <1>0, <1>10, CountsStay DEF ReadMessage
  <2> QED
    BY <1>0, <1>10, <2>1, <2>2, CountsQuiet DEF ReadMessage
<1>11. CASE ReadFirstPart
  <2>1. PongsComing' <= PongsComing
    BY <1>0, <1>11, CountsRead DEF ReadFirstPart
  <2>2. Pings' = Pings /\ PingsHeard' = PingsHeard
    BY <1>0, <1>11, CountsStay DEF ReadFirstPart
  <2> QED
    BY <1>0, <1>11, <2>1, <2>2, CountsQuiet DEF ReadFirstPart
<1>12. CASE ReadOutOfPlace
  <2>1. PongsComing' <= PongsComing
    BY <1>0, <1>12, CountsRead DEF ReadOutOfPlace
  <2>2. Pings' = Pings /\ PingsHeard' = PingsHeard
    BY <1>0, <1>12, CountsStay DEF ReadOutOfPlace
  <2> QED
    BY <1>0, <1>12, <2>1, <2>2, CountsQuiet DEF ReadOutOfPlace
<1>13. CASE AppCloseStep
  <2>1. Pings' = Pings /\ PingsHeard' = PingsHeard
    BY <1>0, <1>13, CountsWrite, CountsStay, FrameTypes DEF AppCloseStep, CloseStep
  <2>2. PongsComing' <= PongsComing
    BY <1>0, <1>13, CountsRead, CountsStay DEF AppCloseStep, CloseStep
  <2> QED
    BY <1>0, <1>13, <2>1, <2>2, CountsQuiet DEF AppCloseStep, CloseStep, Begun
<1>14. CASE Destroy
  BY <1>0, <1>14, CountsStay DEF Destroy
<1>15. CASE Joined
  BY <1>0, <1>15, CountsStay DEF Joined
<1>16. CASE AppCloses
  BY <1>0, <1>16, CountsStay DEF AppCloses
<1>17. CASE Leave
  BY <1>0, <1>17, CountsStay DEF Leave
<1>18. CASE Send
  <2>1. F("whole", Sends + 1) \in Frames /\ F("whole", Sends + 1).kind = "whole"
    BY SendsType, FrameTypes DEF Types
  <2>2. Pings' = Pings /\ PingsHeard' = PingsHeard
    BY <1>0, <1>18, <2>1, CountsWrite DEF Send
  <2> QED
    BY <1>0, <1>18, <2>2, CountsStay DEF Send
<1>19. CASE SenderStops
  BY <1>0, <1>19, CountsStay DEF SenderStops
<1>20. CASE HeartWakes
  BY <1>0, <1>20, CountsStay DEF HeartWakes
<1>21. CASE HeartSends
  <2>1. CASE heart' = "count"
    <3>1. /\ Write(Control("ping")) /\ heart = "send"
          /\ UNCHANGED <<end, heard, wire, unacked_pings_, pongs>>
      BY <1>0, <1>21, <2>1 DEF HeartSends
    <3>2. Pings' = Pings + 1 /\ PingsHeard' = PingsHeard /\ PongsComing' = PongsComing
      BY <1>0, <3>1, CountsWrite, CountsStay, FrameTypes
    <3> QED
      BY <1>0, <2>1, <3>1, <3>2
  <2>2. CASE heart' = "done"
    <3>1. UNCHANGED <<out, end, heard, wire, unacked_pings_, pongs>> /\ heart = "send"
      BY <1>0, <1>21, <2>2 DEF HeartSends
    <3> QED
      BY <1>0, <2>2, <3>1, CountsStay
  <2> QED
    BY <1>0, <1>21, <2>1, <2>2 DEF HeartSends
<1>22. CASE HeartCounts
  BY <1>0, <1>22, CountsStay DEF HeartCounts
<1>23. CASE HeartCloseStep
  <2>1. Pings' = Pings /\ PingsHeard' = PingsHeard
    BY <1>0, <1>23, CountsWrite, CountsStay, FrameTypes DEF HeartCloseStep, CloseStep
  <2>2. PongsComing' <= PongsComing
    BY <1>0, <1>23, CountsRead, CountsStay DEF HeartCloseStep, CloseStep
  <2> QED
    BY <1>0, <1>23, <2>1, <2>2, CountsQuiet DEF HeartCloseStep, CloseStep, Begun
<1>24. CASE PeerReads
  <2>1. /\ PingsHeard' = IF out[heard'].kind = "ping" THEN PingsHeard + 1 ELSE PingsHeard
        /\ Pings' = Pings
    BY <1>0, <1>24, CountsHear, CountsStay DEF PeerReads
  <2>2. PongsComing' <= IF out[heard'].kind = "ping" THEN PongsComing + 1 ELSE PongsComing
    <3>1. ASSUME NEW k \in {"pong", "close"}, Push(<<Control(k)>>)
          PROVE  PongsComing' = IF k = "pong" THEN PongsComing + 1 ELSE PongsComing
      BY <1>0, <3>1, CountsPush, FrameTypes DEF Data
    <3>2. PICK k : k = out[heard'].kind
      OBVIOUS
    <3>3. PongsComing \in Nat
      BY <1>0
    <3>4. CASE k = "ping" /\ Push(<<Control("pong")>>)
      <4>1. PongsComing' = PongsComing + 1
        BY <3>1, <3>4, Zenon
      <4> QED
        BY <3>2, <3>3, <3>4, <4>1
    <3>5. CASE k = "close" /\ Push(<<Control("close")>>)
      <4>1. PongsComing' = PongsComing
        BY <3>1, <3>5, Zenon
      <4> QED
        BY <3>2, <3>3, <3>5, <4>1
    <3>6. CASE UNCHANGED wire
      <4>1. PongsComing' = PongsComing
        BY <3>6, CountsStay, Zenon
      <4> QED
        BY <3>3, <4>1
    <3>7. \/ k \in {"ping", "close"} /\ Push(<<Control(IF k = "ping" THEN "pong" ELSE k)>>)
          \/ UNCHANGED wire
      BY <1>24, <3>2 DEF PeerReads
    <3> QED
      BY <3>4, <3>5, <3>6, <3>7
  <2> QED
    BY <1>0, <1>24, <2>1, <2>2 DEF PeerReads
<1>25. CASE PeerSpeaks
  <2>1. PongsComing' = PongsComing
    BY <1>0, <1>25, PeerSays, CountsPush
  <2>2. Pings' = Pings /\ PingsHeard' = PingsHeard
    BY <1>0, <1>25, CountsStay DEF PeerSpeaks
  <2> QED
    BY <1>0, <1>25, <2>1, <2>2 DEF PeerSpeaks
<1>26. CASE ConnectionLost
  BY <1>0, <1>26, CountsStay DEF ConnectionLost
<1>27. CASE UNCHANGED vars
  BY <1>0, <1>27, CountsStay DEF vars
<1> QED
  BY <1>0, <1>1, <1>2, <1>3, <1>4, <1>5, <1>6, <1>7, <1>8, <1>9, <1>10, <1>11, <1>12,
     <1>13, <1>14, <1>15, <1>16, <1>17, <1>18, <1>19, <1>20, <1>21, <1>22, <1>23,
     <1>24, <1>25, <1>26, <1>27
  DEF Next, AppStep, HeartStep

-----------------------------------------------------------------------------
(* The theorems *)

\* The invariant holds initially.
LEMMA InitIInv == Init => IInv
BY InitTypes, InitLives, InitWay, InitCounted DEF IInv

\* Every step keeps it.
LEMMA NextIInv == IInv /\ [Next]_vars => IInv'
<1> SUFFICES ASSUME IInv, [Next]_vars PROVE IInv'
  OBVIOUS
<1>1. Types /\ Lives /\ SessionLasts /\ OneCloser /\ CloserSpeaks /\ NeverGivesUp
      /\ OnTheWay /\ PingsCounted
  BY DEF IInv
<1> QED
  BY <1>1, NextTypes, NextLives, NextSession, NextCloser, NextSpeaks, NextGivesUp,
     NextWay, NextCounted
  DEF IInv

\* The threads, the closing, the reading and the counting keep in step.
THEOREM WebSocketInvariant == FairSpec => []IInv
BY InitIInv, NextIInv, PTL DEF FairSpec

\* After a Close frame this end sends no data and no second Close, however the
\* reader, the senders, the heartbeat, close() and the destructor interleave; and a
\* client that leaves a connection on which nothing failed has said Close.
THEOREM EndClosesOnce == FairSpec => []ClosesOnce
<1>1. IInv => ClosesOnce
  BY DEF IInv, Lives, OneCloser, CloserSpeaks, ClosesOnce, GoodbyeSaid, Closed, AppSays,
         HeartSays
<1> QED
  BY <1>1, WebSocketInvariant, PTL

\* An end whose heartbeat has no limit has one reader, and it is handed the
\* messages of the peer, each whole, in their order and from the first on.
THEOREM MessagesArriveWhole == FairSpec => []ReadsAreWhole
<1>1. IInv => OneReader
  BY DEF IInv, Types, Scalars, Threads, NeverGivesUp, OneReader, Awaits
<1>2. IInv => DeliveredInOrder
  BY DEF IInv, OnTheWay, DeliveredInOrder
<1> QED
  BY <1>1, <1>2, WebSocketInvariant, PTL DEF ReadsAreWhole

\* A server's end uses its TLS session only while it has one, the heartbeat ends
\* before the object, and the unanswered pings counted are no more than were sent.
\* A client over TLS frees the session before its goodbye (20245-20254): the theorem is
\* about the other ends.
THEOREM NothingUsedAfterItsEnd ==
    (\A e \in Ends : e.tls => e.kind = "server") => (FairSpec => []EndsInOrder)
<1> SUFFICES ASSUME \A e \in Ends : e.tls => e.kind = "server" PROVE FairSpec => []EndsInOrder
  OBVIOUS
<1>1. IInv => unacked_pings_ \in 0 .. end.pings
  <2> SUFFICES ASSUME IInv PROVE unacked_pings_ \in 0 .. end.pings
    OBVIOUS
  <2>1. /\ Pings \in Nat /\ end.pings \in Nat /\ unacked_pings_ \in Nat
        /\ Pings <= end.pings
        /\ unacked_pings_ <= Pings
    BY CountsType DEF IInv, PingsCounted
  <2> QED
    BY <2>1
<1>2. IInv => TypeOK
  <2> SUFFICES ASSUME IInv PROVE TypeOK
    OBVIOUS
  <2>1. /\ closed_ \in BOOLEAN /\ session \in BOOLEAN /\ heart \in Threads
        /\ app \in AppStates
    BY DEF IInv, Types, Scalars
  <2>2. (msg # None <=> app \in {"rest", "pong between"}) \/ closed_
    BY DEF IInv, Lives
  <2>3. app = "gone" => heart \in {"done", "off"}
    BY DEF IInv, Lives
  <2> QED
    BY <1>1, <2>1, <2>2, <2>3 DEF TypeOK, AppStates
<1>3. IInv => SessionInUse
  <2> SUFFICES ASSUME IInv, end.tls,
                      app \in {"say", "await", "read"}
                        \/ heart \in {"say", "await", "send"}
               PROVE  session
    BY DEF SessionInUse
  <2>1. end.kind = "server"
    BY DEF IInv, Types, Scalars
  <2>2. app \notin {"new", "gone"}
    BY DEF IInv, Lives
  <2> QED
    BY <2>1, <2>2 DEF IInv, SessionLasts
<1> QED
  BY <1>2, <1>3, WebSocketInvariant, PTL DEF EndsInOrder

\* The heartbeat gives up when all but one, at least, of the pings that may go
\* unanswered did: a pong that comes in between a ping and its counting is the one.
THEOREM GivesUpForAReason == FairSpec => PongTimeoutNearlyReal
<1>1. ASSUME IInv, [Next]_vars, heart = "wait", heart' = "close"
      PROVE  Pings - pongs >= end.max_missed - 1
  <2>1. PongsMissed
    BY <1>1 DEF Next, AppStep, HeartStep, Connect, Upgrade, Opened, ReadTurn, ReadFails,
                ReadPing, WritePong, ReadPong, ReadClose, EchoClose, ReadMessage,
                ReadFirstPart, ReadOutOfPlace, AppCloseStep, Destroy, Joined, AppCloses,
                Leave, Send, SenderStops, HeartWakes, HeartSends, HeartCounts,
                HeartCloseStep, CloseStep, PeerReads, PeerSpeaks, ConnectionLost, vars
  <2>2. unacked_pings_ + pongs + 0 <= Pings + 1
    <3>1. 0 = IF heart = "count" THEN 1 ELSE 0
      BY <1>1
    <3> QED
      BY <1>1, <3>1 DEF IInv, PingsCounted
  <2>3. /\ Pings \in Nat /\ pongs \in Nat /\ unacked_pings_ \in Nat
        /\ end.max_missed \in Nat
    BY <1>1, CountsType, EndType DEF IInv, Types
  <2>4. unacked_pings_ >= end.max_missed
    BY <2>1 DEF PongsMissed
  <2> QED
    BY <2>2, <2>3, <2>4
<1>2. IInv /\ [Next]_vars
        => [heart = "wait" /\ heart' = "close" => Pings - pongs >= end.max_missed - 1]_vars
  BY <1>1
<1> QED
  BY <1>2, WebSocketInvariant, PTL DEF FairSpec, PongTimeoutNearlyReal
=============================================================================
