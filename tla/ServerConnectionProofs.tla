------------------------ MODULE ServerConnectionProofs ------------------------
(***************************************************************************)
(* Proofs about ServerConnection for every set of kinds of requests and    *)
(* every bound: the server and the connection stay in step, no request is  *)
(* lost between two others, each gets one final response, in order, and    *)
(* the last one says that the connection closes.                           *)
(*                                                                         *)
(* The properties speak of the moments between two requests.  What carries *)
(* them from one such moment to the next is an account of every token on   *)
(* the connection.  Under Orderly the server has taken all the requests    *)
(* that were sent (Taken) or all but the newest (Pending).  In the first   *)
(* case the stream holds what its location says is left of that request    *)
(* (OwnBody); in the second, what is left of the current one is in the     *)
(* buffer and the newest one waits behind it, beginning with its head      *)
(* (HeadWaits).  InTurn is the account of the responses.  A connection     *)
(* that is going to be closed (~Alive) owes nothing.                       *)
(***************************************************************************)
EXTENDS ServerConnection, QueueLemmas

\* Where the server has taken a request and not answered it.
Processing == {"expect", "upgrade", "routing", "reading", "respond", "refuse"}

\* All the requests that were sent are taken, or all but the newest.
Taken == cur = Len(kinds)
Pending == cur + 1 = Len(kinds)
\* The loop may go on after the current request.
Alive == pc # "closed" /\ ~connection_closed /\ (pc \in {"drain", "done"} => ret)
\* Request i comes in one piece, as those before it do.
Whole(i) == AllWhole(i) /\ ~kinds[i].expect

\* What the server has not received, and what it has not read.
Out == wire \o tosend
Stream == rbuf \o Out
Newest == kinds[Len(kinds)]

\* The number of tokens of a request of kind k.
Bit(b) == IF b THEN 1 ELSE 0
Total(k) == 1 + Bit(k.line = "bad") + Len(k.body)

\* Request i of kind k, or the part of it that the client sent.
Fresh(s, i, k) ==
    /\ s # <<>>
    /\ s[1] = HeadToken(i, "head")
    /\ k.framing = "chunked" /\ k.line # "bad" => Follows(Tail(s), Start(k))
    /\ Len(s) <= Total(k)

\* What a reader at d may still find of a body: no more units than are left of its
\* length, or those of a chunked body from there on; of a body whose framing is
\* unknown nothing is said.
Within(s, k, d) ==
    /\ k.framing = "chunked" => Follows(s, d)
    /\ k.framing \notin {"chunked", "other"} => Len(s) <= d.left

\* All of them, up to the end.
Exactly(s, k, d) ==
    IF k.framing = "chunked"
      THEN Follows(s, d) /\ (IF s = <<>> THEN d.at = "done" ELSE Ends(s))
      ELSE Len(s) = d.left

\* A whole request.
Complete(s, k) ==
    /\ Len(s) = Total(k)
    /\ k.framing = "chunked" => Ends(s)

\* Tokens of requests that were sent.
SentToken == [req : 1 .. Len(kinds), part : Parts, n : Nat, from : State]

-----------------------------------------------------------------------------
(* The inductive invariant *)

\* The types of what is no sequence of tokens, and the bounds of what counts.
Scalars ==
    /\ kinds \in Seq(Kinds) /\ Len(kinds) <= MaxRequests
    /\ clientOpen \in BOOLEAN
    /\ pc \in {"idle", "line", "expect", "upgrade", "routing", "reading",
               "respond", "refuse", "drain", "done", "closed"}
    /\ cur \in Nat /\ cur <= Len(kinds)
    /\ pc \in Processing \cup {"drain"} => cur >= 1
    /\ count \in 0 .. KeepAliveMax
    /\ count = 0 => pc = "closed"
    /\ connection_closed \in BOOLEAN
    /\ ret \in BOOLEAN
    /\ body_consumed_ \in BOOLEAN
    /\ dec \in State
    /\ sent \in Seq(Response)

Types ==
    /\ Scalars
    /\ tosend \in Seq(SentToken) /\ wire \in Seq(SentToken) /\ rbuf \in Seq(SentToken)

\* The count of a length comes to nothing when the body is over.
Counting(d, k) ==
    /\ d.left <= Len(k.body)
    /\ \/ d.at = "length" /\ d.left > 0
       \/ d.at = "done" /\ d.left = 0

\* What a location says about the flags and the request.
Flags ==
    /\ pc \in {"idle", "line"} => ~connection_closed
    /\ pc = "idle" => rbuf = <<>>
    /\ pc \in (Processing \ {"respond"}) \cup {"line"} => ~body_consumed_
    /\ pc = "expect" => Kind.expect
    /\ pc = "upgrade" => Kind.upgrade
    /\ pc \in Processing => Kind.framing # "both" /\ (Kind.close => connection_closed)
    /\ pc \in {"reading", "refuse"} => Kind.use # "none"
    /\ pc = "reading" => Framed(Kind) \/ connection_closed
    /\ pc = "drain" => Framed(Kind)
    /\ pc \in {"reading", "drain"} /\ dec.at = "close" => connection_closed
    /\ pc \in {"reading", "drain"} /\ Kind.framing = "length" => Counting(dec, Kind)
    /\ pc = "respond" /\ Framed(Kind) /\ Kind.use = "all" => body_consumed_
    /\ pc = "drain" /\ ret /\ Kind.use = "all" => CloseAnnounced

\* The last response says that the connection closes; the one that exhausts the
\* count does.
SaidClose == sent # <<>> /\ sent[Len(sent)].close

Announced ==
    /\ pc \in {"drain", "done"} /\ ret /\ ~connection_closed /\ count = 1 => SaidClose
    /\ count = 0 => SaidClose

\* The responses so far belong to requests up to i; the final ones to earlier
\* requests; and they come in order, a final one last.
UpTo(i) == \A m \in DOMAIN sent : sent[m].req <= i
FinalBelow(i) == \A m \in DOMAIN sent : Final(sent[m]) => sent[m].req < i
FinalOnce ==
    \A m, n \in DOMAIN sent : m < n /\ Final(sent[m]) => sent[m].req < sent[n].req

\* Requests are taken and answered one by one.
InTurn ==
    /\ Taken \/ (Pending /\ pc \notin Processing)
    /\ UpTo(cur) /\ FinalOnce
    /\ pc \in Processing => FinalBelow(cur)
    /\ Alive => \A i \in 1 .. cur : Answered(i) \/ (i = cur /\ pc \in Processing)

\* The newest request waits on the connection while the server is busy with the
\* one before it, of which nothing is left but what the drain finds in the buffer.
HeadWaits ==
    Pending /\ Alive =>
        /\ pc \in {"idle", "drain", "done"} =>
              /\ wire # <<>>
              /\ Fresh(Out, Len(kinds), Newest)
              /\ Whole(Len(kinds)) => tosend = <<>> /\ Complete(wire, Newest)
        /\ pc = "line" =>
              /\ rbuf # <<>> \/ wire # <<>>
              /\ Fresh(Stream, Len(kinds), Newest)
              /\ Whole(Len(kinds)) =>
                     /\ tosend = <<>>
                     /\ \/ rbuf = <<>> /\ Complete(wire, Newest)
                        \/ wire = <<>> /\ Complete(rbuf, Newest)
        /\ pc = "drain" => Exactly(rbuf, Kind, dec)

\* What is on the connection belongs to the current request, and there is no more
\* of it than the server may still read; of a chunked body that could not be read
\* nothing is said.
Left == IF pc \in {"reading", "drain"} THEN dec ELSE Start(Kind)

OwnBody ==
    Taken /\ Alive =>
        /\ pc \in {"idle", "line"} => rbuf = <<>>
        /\ pc \in {"idle", "line", "done"} => wire = <<>> /\ tosend = <<>>
        /\ pc = "respond" /\ body_consumed_ => wire = <<>> /\ tosend = <<>>
        /\ pc \in Processing \cup {"drain"} /\ ~(pc = "refuse" /\ Kind.framing = "chunked")
           => Within(Stream, Kind, Left)
        /\ \/ pc \in {"upgrade", "routing"}
           \/ pc \in {"respond", "drain"} /\ Kind.use = "none"
           \/ pc \in {"respond", "refuse"} /\ ~Framed(Kind)
           => (Whole(cur) => /\ wire = <<>> /\ tosend = <<>>
                             /\ Framed(Kind) => Exactly(rbuf, Kind, Left))

IInv ==
    /\ Types /\ Flags /\ Announced
    /\ Orderly => InTurn /\ HeadWaits /\ OwnBody

-----------------------------------------------------------------------------
(* Sequences of tokens *)

\* Where the reader is depends on what the line reader sees.
LEMMA AfterSame ==
    ASSUME NEW d, NEW u, NEW v, u.part = v.part, u.n = v.n
    PROVE  After(d, u) = After(d, v)
BY DEF After

\* A reader that has counted a unit.
LEMMA CountedState ==
    ASSUME NEW d \in State, NEW next \in {"done", "crlf"}
    PROVE  /\ Counted(d, next) \in State
           /\ Counted(d, next).at = IF d.left = 1 THEN next ELSE d.at
           /\ d.left # 0 => Counted(d, next).left = d.left - 1
<1>1. /\ Counted(d, next).at = IF d.left = 1 THEN next ELSE d.at
      /\ Counted(d, next).left = IF d.left = 0 THEN 0 ELSE d.left - 1
      /\ Counted(d, next).units = d.units + 1
  BY DEF Counted
<1>2. d.left \in Nat /\ d.units \in Nat
  BY DEF State
<1>3. (IF d.left = 0 THEN 0 ELSE d.left - 1) \in Nat /\ d.units + 1 \in Nat
  BY <1>2
<1>4. (IF d.left = 1 THEN next ELSE d.at)
         \in {"outside", "length", "line", "data", "crlf", "trailer", "close", "done",
              "failed"}
  BY DEF State
<1>5. Counted(d, next) \in State
  BY <1>3, <1>4 DEF Counted, State
<1> QED
  BY <1>1, <1>5

\* What a step of the reader does to its state.
LEMMA AfterState ==
    ASSUME NEW d \in State, NEW u, u.n \in Nat
    PROVE  /\ After(d, u) \in State
           /\ d.at = "length" => After(d, u) = Counted(d, "done")
           /\ After(d, u).at = "close" => d.at = "close"
<1>1. /\ d.at \in {"outside", "length", "line", "data", "crlf", "trailer", "close",
                   "done", "failed"}
      /\ d.left \in Nat /\ d.units \in Nat
      /\ d = [at |-> d.at, left |-> d.left, units |-> d.units]
  BY DEF State
<1>2. \/ d.at \in {"length", "close"} /\ After(d, u) = Counted(d, "done")
      \/ d.at = "data" /\ After(d, u) = Counted(d, "crlf")
      \/ /\ d.at \notin {"length", "close", "data"}
         /\ \/ After(d, u) = [d EXCEPT !.at = "data", !.left = u.n]
            \/ After(d, u) = d
            \/ \E a \in {"line", "trailer", "done", "failed"} :
                  After(d, u) = [d EXCEPT !.at = a]
  <2>1. CASE d.at \in {"length", "close"}
    BY <2>1 DEF After
  <2>2. CASE d.at = "data"
    BY <2>2 DEF After
  <2>3. CASE d.at = "line"
    BY <2>3 DEF After
  <2>4. CASE d.at = "crlf"
    BY <2>4 DEF After
  <2>5. CASE d.at = "trailer"
    BY <2>5 DEF After
  <2>6. CASE d.at \in {"outside", "done", "failed"}
    BY <2>6 DEF After
  <2> QED
    BY <1>1, <2>1, <2>2, <2>3, <2>4, <2>5, <2>6
<1>3. CASE d.at \in {"length", "close"} /\ After(d, u) = Counted(d, "done")
  BY <1>3, CountedState
<1>4. CASE d.at = "data" /\ After(d, u) = Counted(d, "crlf")
  BY <1>4, CountedState
<1>5. CASE d.at \notin {"length", "close", "data"} /\ After(d, u) = d
  BY <1>5
<1>6. CASE /\ d.at \notin {"length", "close", "data"}
           /\ After(d, u) = [d EXCEPT !.at = "data", !.left = u.n]
  <2>1. After(d, u) = [at |-> "data", left |-> u.n, units |-> d.units]
    BY <1>1, <1>6
  <2> QED
    BY <1>1, <1>6, <2>1 DEF State
<1>7. ASSUME NEW a \in {"line", "trailer", "done", "failed"},
             d.at \notin {"length", "close", "data"}, After(d, u) = [d EXCEPT !.at = a]
      PROVE  /\ After(d, u) \in State
             /\ d.at # "length" /\ After(d, u).at # "close"
  <2>1. After(d, u) = [at |-> a, left |-> d.left, units |-> d.units]
    BY <1>1, <1>7
  <2> QED
    BY <1>1, <1>7, <2>1 DEF State
<1> QED
  BY <1>2, <1>3, <1>4, <1>5, <1>6, <1>7

\* Where a reader starts.
LEMMA StartState ==
    ASSUME NEW k \in KindType
    PROVE  /\ Start(k) \in State
           /\ k.framing = "length" =>
                 Start(k) = [at |-> "length", left |-> Len(k.body), units |-> 0]
           /\ k.framing \notin {"chunked", "other"} => Start(k).left = Len(k.body)
           /\ k.framing # "other" => Start(k).at # "close"
<1>1. Len(k.body) \in Nat
  BY LenProperties DEF KindType
<1>2. CASE k.framing = "chunked"
  BY <1>2 DEF Start, State
<1>3. CASE k.framing = "other"
  BY <1>3 DEF Start, State
<1>4. CASE k.framing \notin {"chunked", "other"}
  <2>1. Start(k) = [at |-> "length", left |-> Len(k.body), units |-> 0]
    BY <1>4 DEF Start
  <2> QED
    BY <1>1, <1>4, <2>1 DEF State
<1> QED
  BY <1>2, <1>3, <1>4

\* The tokens of a request: its head, then nothing but what Total counts; the
\* body follows its head as a reader expects it.
LEMMA TokensShape ==
    ASSUME NEW i \in Nat, NEW k \in Kinds
    PROVE  /\ Tokens(i, k) \in Seq([req : {i}, part : Parts, n : Nat, from : State])
           /\ Fresh(Tokens(i, k), i, k)
           /\ Complete(Tokens(i, k), k)
<1> DEFINE Tok == [req : {i}, part : Parts, n : Nat, from : State]
           h == <<HeadToken(i, "head")>>
           r == IF k.line = "bad" THEN <<HeadToken(i, "rest")>> ELSE <<>>
           b == [j \in 1 .. Len(k.body) |-> BodyToken(i, k.body[j])]
           hr == h \o r
           t == hr \o b
<1>1. Tokens(i, k) = t
  BY DEF Tokens
<1>2. /\ k \in KindType /\ k.body \in Seq(Unit) /\ Len(k.body) \in Nat
      /\ DOMAIN k.body = 1 .. Len(k.body)
      /\ \A j \in 1 .. Len(k.body) : k.body[j] \in Unit
      /\ k.framing \in {"length", "chunked"} =>
            Follows(k.body, Start(k)) /\ Ends(k.body)
  <2>1. k \in KindType /\ k.body \in Seq(Unit)
    BY ConnectionAssumption DEF KindType
  <2> QED
    BY <2>1, LenProperties, ElementOfSeq, ConnectionAssumption
<1>3. HeadToken(i, "head") \in Tok /\ HeadToken(i, "rest") \in Tok
  BY DEF HeadToken, Parts, Outside, State
<1>4. h \in Seq(Tok) /\ Len(h) = 1 /\ h[1] = HeadToken(i, "head")
  BY <1>3
<1>5. r \in Seq(Tok) /\ Len(r) = Bit(k.line = "bad")
  <2>1. CASE k.line = "bad"
    BY <1>3, <2>1 DEF Bit
  <2>2. CASE k.line # "bad"
    <3>1. r = <<>>
      BY <2>2
    <3> QED
      BY <2>2, <3>1, EmptySeq DEF Bit
  <2> QED
    BY <2>1, <2>2
<1>6. /\ b \in Seq(Tok) /\ Len(b) = Len(k.body)
      /\ \A j \in 1 .. Len(b) : /\ b[j].from = k.body[j].from
                                /\ b[j].part = k.body[j].part
                                /\ b[j].n = k.body[j].n
  <2>1. \A j \in 1 .. Len(k.body) : BodyToken(i, k.body[j]) \in Tok
    BY <1>2 DEF BodyToken, Unit, Parts
  <2>2. b \in [1 .. Len(k.body) -> Tok]
    BY <2>1
  <2>3. b \in Seq(Tok)
    <3>1. Seq(Tok) = UNION {[1 .. n -> Tok] : n \in Nat}
      BY SeqDef
    <3> QED
      BY <1>2, <2>2, <3>1
  <2>4. Len(b) = Len(k.body)
    <3>1. DOMAIN b = 1 .. Len(b) /\ DOMAIN b = 1 .. Len(k.body) /\ Len(b) \in Nat
      BY <2>2, <2>3, LenProperties
    <3> QED
      BY <1>2, <3>1
  <2> QED
    BY <2>3, <2>4 DEF BodyToken
<1> HIDE DEF h, r, b, Tok
<1>7. k.framing \in {"length", "chunked"} => Follows(b, Start(k)) /\ Ends(b)
  <2> SUFFICES ASSUME Follows(k.body, Start(k)), Ends(k.body)
               PROVE  Follows(b, Start(k)) /\ Ends(b)
    BY <1>2
  <2>1. Len(b) \in Nat \ {0} /\ b # <<>> /\ DOMAIN b = 1 .. Len(b) /\ k.body # <<>>
    <3>1. k.body # <<>>
      BY DEF Ends
    <3> QED
      BY <1>2, <1>6, <3>1, EmptySeq, LenProperties
  <2>2. \A j \in 1 .. Len(b) :
           After(b[j].from, b[j]) = After(k.body[j].from, k.body[j])
    BY <1>6, AfterSame
  <2>3. Follows(b, Start(k))
    <3>1. /\ DOMAIN b = DOMAIN k.body /\ Len(b) = Len(k.body)
          /\ 1 \in 1 .. Len(b)
          /\ \A j \in 1 .. Len(b) - 1 : j \in 1 .. Len(b) /\ j + 1 \in 1 .. Len(b)
      BY <1>2, <1>6, <2>1
    <3>2. ASSUME NEW j \in DOMAIN b
          PROVE  b[j].from.at \in {"length", "line", "data", "crlf", "trailer"}
      BY <1>6, <2>1, <3>1 DEF Follows
    <3>3. b[1].from = Start(k)
      BY <1>6, <2>1, <3>1 DEF Follows
    <3>4. ASSUME NEW j \in 1 .. Len(b) - 1 PROVE b[j + 1].from = After(b[j].from, b[j])
      <4>1. k.body[j + 1].from = After(k.body[j].from, k.body[j])
        BY <3>1 DEF Follows
      <4> QED
        BY <1>6, <2>2, <3>1, <4>1
    <3> QED
      BY <3>2, <3>3, <3>4 DEF Follows
  <2>4. After(b[Len(b)].from, b[Len(b)]) = After(k.body[Len(k.body)].from, k.body[Len(k.body)])
    BY <1>6, <2>1, <2>2
  <2>5. Ends(b)
    BY <2>1, <2>4 DEF Ends
  <2> QED
    BY <2>3, <2>5
<1>8. /\ hr \in Seq(Tok) /\ Len(hr) = 1 + Len(r) /\ Len(hr) \in Nat \ {0}
      /\ hr[1] = HeadToken(i, "head")
      /\ k.line # "bad" => Len(hr) = 1
  <2>1. /\ hr \in Seq(Tok) /\ Len(hr) = Len(h) + Len(r)
        /\ \A j \in 1 .. Len(h) + Len(r) :
              hr[j] = IF j <= Len(h) THEN h[j] ELSE r[j - Len(h)]
    BY <1>4, <1>5, ConcatProperties
  <2>2. Len(r) \in Nat /\ (k.line # "bad" => Len(r) = 0)
    BY <1>5 DEF Bit
  <2> QED
    BY <1>4, <2>1, <2>2
<1> HIDE DEF hr
<1>9. /\ t \in Seq(Tok) /\ Len(t) = Len(hr) + Len(b) /\ Len(t) \in Nat \ {0}
      /\ Len(b) \in Nat
      /\ \A j \in 1 .. Len(hr) + Len(b) :
            t[j] = IF j <= Len(hr) THEN hr[j] ELSE b[j - Len(hr)]
  <2>1. Len(b) \in Nat
    BY <1>6, LenProperties
  <2>2. /\ t \in Seq(Tok) /\ Len(t) = Len(hr) + Len(b)
        /\ \A j \in 1 .. Len(hr) + Len(b) :
              t[j] = IF j <= Len(hr) THEN hr[j] ELSE b[j - Len(hr)]
    <3>1. hr \in Seq(Tok) /\ b \in Seq(Tok)
      BY <1>6, <1>8
    <3> QED
      BY <3>1, ConcatProperties
  <2> QED
    BY <1>8, <2>1, <2>2
<1> HIDE DEF t
<1>10. t # <<>> /\ t[1] = HeadToken(i, "head") /\ Len(t) = Total(k)
  BY <1>5, <1>6, <1>8, <1>9, EmptySeq DEF Total
<1>11. ASSUME k.line # "bad" PROVE Tail(t) = b
  <2>1. Tail(t) \in Seq(Tok) /\ Len(Tail(t)) = Len(b)
    BY <1>8, <1>9, <1>10, <1>11, TakeFirst
  <2>2. ASSUME NEW j \in 1 .. Len(b) PROVE Tail(t)[j] = b[j]
    <3>1. Tail(t)[j] = t[j + 1]
      BY <1>8, <1>9, <1>10, <1>11, TakeFirst
    <3>2. t[j + 1] = b[j]
      BY <1>8, <1>9, <1>11
    <3> QED
      BY <3>1, <3>2
  <2> QED
    BY <1>6, <2>1, <2>2, SeqEqual
<1>12. ASSUME k.framing = "chunked" PROVE Ends(t)
  <2>1. Ends(b) /\ Len(b) # 0
    <3>1. Ends(b)
      BY <1>7, <1>12
    <3> QED
      BY <1>6, <3>1, EmptySeq DEF Ends
  <2>2. t[Len(t)] = b[Len(b)]
    BY <1>8, <1>9, <2>1
  <2> QED
    BY <1>10, <2>1, <2>2 DEF Ends
<1>13. Fresh(t, i, k)
  <2>1. k.framing = "chunked" /\ k.line # "bad" => Follows(Tail(t), Start(k))
    BY <1>7, <1>11
  <2>2. Len(t) <= Total(k)
    BY <1>9, <1>10
  <2> QED
    BY <1>10, <2>1, <2>2 DEF Fresh
<1>14. Complete(t, k)
  BY <1>10, <1>12 DEF Complete
<1> QED
  BY <1>1, <1>9, <1>13, <1>14 DEF Tok

\* A body from which a unit is taken goes on where the reader goes on.
LEMMA FollowsTail ==
    ASSUME NEW S, NEW s \in Seq(S), s # <<>>, NEW d, Follows(s, d)
    PROVE  /\ d = Head(s).from /\ d.at \notin {"done", "close"}
           /\ Follows(Tail(s), After(d, Head(s)))
           /\ Ends(s) => IF Tail(s) = <<>> THEN After(d, Head(s)).at = "done"
                                           ELSE Ends(Tail(s))
<1>1. /\ Head(s) = s[1]
      /\ Len(s) \in Nat \ {0}
      /\ Tail(s) \in Seq(S)
      /\ Len(Tail(s)) = Len(s) - 1
      /\ DOMAIN s = 1 .. Len(s)
      /\ DOMAIN Tail(s) = 1 .. Len(s) - 1
      /\ \A i \in 1 .. Len(s) - 1 : Tail(s)[i] = s[i + 1]
  BY TakeFirst
<1>2. /\ s[1].from = d /\ Head(s).from = d
      /\ d.at \in {"length", "line", "data", "crlf", "trailer"}
  BY <1>1 DEF Follows
<1> DEFINE t == Tail(s)
           e == After(d, Head(s))
<1>3. Follows(t, e)
  <2>1. ASSUME NEW j \in DOMAIN t
        PROVE  t[j].from.at \in {"length", "line", "data", "crlf", "trailer"}
    <3>1. j + 1 \in DOMAIN s /\ t[j] = s[j + 1]
      BY <1>1
    <3> QED
      BY <3>1 DEF Follows
  <2>2. ASSUME t # <<>> PROVE t[1].from = e
    <3>1. Len(s) - 1 # 0
      BY <1>1, <2>2, EmptySeq
    <3>2. 1 \in 1 .. Len(s) - 1 /\ t[1] = s[1 + 1]
      BY <1>1, <3>1
    <3>3. s[1 + 1].from = After(s[1].from, s[1])
      BY <3>2 DEF Follows
    <3> QED
      BY <1>1, <1>2, <3>2, <3>3
  <2>3. ASSUME NEW j \in 1 .. Len(t) - 1 PROVE t[j + 1].from = After(t[j].from, t[j])
    <3>1. j + 1 \in 1 .. Len(s) - 1 /\ t[j] = s[j + 1] /\ t[j + 1] = s[j + 1 + 1]
      BY <1>1
    <3>2. s[j + 1 + 1].from = After(s[j + 1].from, s[j + 1])
      BY <3>1 DEF Follows
    <3> QED
      BY <3>1, <3>2
  <2> QED
    BY <2>1, <2>2, <2>3 DEF Follows
<1>4. ASSUME Ends(s), t = <<>> PROVE e.at = "done"
  <2>1. Len(s) = 1
    BY <1>1, <1>4, EmptySeq
  <2>2. After(s[1].from, s[1]).at = "done"
    BY <1>4, <2>1 DEF Ends
  <2> QED
    BY <1>1, <1>2, <2>2
<1>5. ASSUME Ends(s), t # <<>> PROVE Ends(t)
  <2>1. Len(s) - 1 \in 1 .. Len(s) - 1
    BY <1>1, <1>5, EmptySeq
  <2>2. t[Len(t)] = s[Len(s)]
    BY <1>1, <2>1
  <2> QED
    BY <1>5, <2>2 DEF Ends
<1> QED
  BY <1>2, <1>3, <1>4, <1>5

\* Leaving away what a sequence ends with leaves the beginning of a body.
LEMMA FollowsPrefix ==
    ASSUME NEW S, NEW s \in Seq(S), NEW t \in Seq(S), NEW d, Follows(s \o t, d)
    PROVE  Follows(s, d)
<1>1. /\ s \o t \in Seq(S) /\ Len(s) \in Nat /\ Len(t) \in Nat
      /\ Len(s \o t) = Len(s) + Len(t)
      /\ DOMAIN s = 1 .. Len(s) /\ DOMAIN (s \o t) = 1 .. Len(s \o t)
      /\ \A i \in 1 .. Len(s) : (s \o t)[i] = s[i]
  BY ConcatProperties, LenProperties
<1> DEFINE u == s \o t
<1> HIDE DEF u
<1>2. ASSUME NEW j \in DOMAIN s
      PROVE  s[j].from.at \in {"length", "line", "data", "crlf", "trailer"}
  <2>1. j \in DOMAIN (s \o t) /\ (s \o t)[j] = s[j]
    BY <1>1
  <2> QED
    BY <2>1 DEF Follows
<1>3. ASSUME s # <<>> PROVE s[1].from = d
  <2>1. 1 \in 1 .. Len(s) /\ s \o t # <<>>
    BY <1>1, <1>3, EmptySeq
  <2>2. (s \o t)[1].from = d
    BY <2>1 DEF Follows
  <2> QED
    BY <1>1, <2>1, <2>2
<1>4. ASSUME NEW j \in 1 .. Len(s) - 1 PROVE s[j + 1].from = After(s[j].from, s[j])
  <2>1. /\ j \in 1 .. Len(s \o t) - 1 /\ j \in 1 .. Len(s) /\ j + 1 \in 1 .. Len(s)
    BY <1>1
  <2>2. (s \o t)[j + 1].from = After((s \o t)[j].from, (s \o t)[j])
    BY <2>1 DEF Follows
  <2> QED
    BY <1>1, <2>1, <2>2
<1> QED
  BY <1>2, <1>3, <1>4 DEF Follows

\* Nothing is the beginning of every body, and all of one that is over.
LEMMA FollowsNothing ==
    ASSUME NEW d
    PROVE  /\ Follows(<<>>, d)
           /\ \A S : \A s \in Seq(S) : Follows(s, d) /\ d.at = "done" => s = <<>>
<1>1. Follows(<<>>, d)
  BY NoElement, EmptySeq DEF Follows
<1>2. ASSUME NEW S, NEW s \in Seq(S), Follows(s, d), d.at = "done" PROVE s = <<>>
  BY <1>2, FollowsTail
<1> QED
  BY <1>1, <1>2

-----------------------------------------------------------------------------
(* What the steps do to the stream of tokens *)

\* The requests are of known kinds, one by one.
LEMMA KindsTyped ==
    ASSUME Types
    PROVE  /\ Len(kinds) \in Nat
           /\ \A i \in 1 .. Len(kinds) : kinds[i] \in KindType
           /\ SentToken \subseteq Token
           /\ \A t \in SentToken : t.req \in 1 .. Len(kinds)
           /\ Out \in Seq(SentToken) /\ Stream \in Seq(SentToken)
<1>1. Len(kinds) \in Nat /\ \A i \in 1 .. Len(kinds) : kinds[i] \in Kinds
  BY LenProperties, ElementOfSeq DEF Types, Scalars
<1>2. Len(kinds) <= MaxRequests
  BY DEF Types, Scalars
<1>3. SentToken \subseteq Token
  BY <1>1, <1>2, ConnectionAssumption DEF SentToken, Token
<1>4. Out \in Seq(SentToken)
  BY ConcatProperties DEF Types, Out
<1>5. Stream \in Seq(SentToken)
  BY <1>4, ConcatProperties DEF Types, Stream
<1> QED
  BY <1>1, <1>3, <1>4, <1>5, ConnectionAssumption DEF SentToken

\* Receiving moves tokens, all of them when the requests arrive whole.
LEMMA RecvFlow ==
    ASSUME Types, Recv
    PROVE  /\ rbuf' \in Seq(SentToken) /\ wire' \in Seq(SentToken)
           /\ rbuf' # <<>>
           /\ Out' \in Seq(SentToken) /\ Stream' = Stream
           /\ AllWhole(Len(kinds)) => rbuf' = wire /\ wire' = <<>>
<1>1. Len(wire) \in Nat \ {0}
  BY TakeFirst DEF Types, Recv
<1>2. PICK n \in 1 .. Len(wire) :
          /\ rbuf' = SubSeq(wire, 1, n)
          /\ wire' = SubSeq(wire, n + 1, Len(wire))
          /\ AllWhole(Len(kinds)) => n = Len(wire)
  <2>1. CASE AllWhole(Len(kinds))
    BY <1>1, <2>1 DEF Recv
  <2>2. CASE ~AllWhole(Len(kinds))
    BY <1>1, <2>2 DEF Recv
  <2> QED
    BY <2>1, <2>2
<1>3. n \in 0 .. Len(wire) /\ n # 0
  BY <1>1, <1>2
<1>4. /\ rbuf' \in Seq(SentToken) /\ wire' \in Seq(SentToken)
      /\ Len(rbuf') = n /\ Len(wire') = Len(wire) - n
      /\ rbuf' \o wire' = wire
  BY <1>2, <1>3, CutInTwo DEF Types
<1>5. rbuf' # <<>>
  BY <1>3, <1>4, EmptySeq
<1>6. rbuf' \o (wire' \o tosend) = wire \o tosend
  <2>1. /\ rbuf' \in Seq(SentToken) /\ wire' \in Seq(SentToken)
        /\ tosend \in Seq(SentToken)
    BY <1>4 DEF Types
  <2>2. (rbuf' \o wire') \o tosend = rbuf' \o (wire' \o tosend)
    BY <2>1, ConcatAssociative
  <2> QED
    BY <1>4, <2>2
<1>7. rbuf \o (wire \o tosend) = wire \o tosend
  BY ConcatProperties, ConcatEmptySeq DEF Types, Recv
<1>8. tosend' = tosend
  BY DEF Recv, client
<1>9. wire' \o tosend' \in Seq(SentToken)
  BY <1>4, <1>8, ConcatProperties DEF Types
<1>10. ASSUME AllWhole(Len(kinds)) PROVE rbuf' = wire /\ wire' = <<>>
  <2>1. n = Len(wire)
    BY <1>2, <1>10
  <2>2. rbuf' = wire
    BY <1>2, <2>1, SubSeqFull DEF Types
  <2>3. Len(wire') = 0
    BY <1>1, <1>4, <2>1
  <2> QED
    BY <1>4, <2>2, <2>3, EmptySeq
<1> QED
  BY <1>4, <1>5, <1>6, <1>7, <1>8, <1>9, <1>10 DEF Out, Stream

\* So does sending.
LEMMA SendMoreFlow ==
    ASSUME Types, SendMore
    PROVE  /\ wire' \in Seq(SentToken) /\ tosend' \in Seq(SentToken)
           /\ wire' # <<>>
           /\ Out' = Out /\ Stream' = Stream
<1>1. Len(tosend) \in Nat \ {0}
  BY TakeFirst DEF Types, SendMore
<1>2. PICK n \in 1 .. Len(tosend) :
          /\ wire' = wire \o SubSeq(tosend, 1, n)
          /\ tosend' = SubSeq(tosend, n + 1, Len(tosend))
  <2>1. PICK n \in (IF kinds[Len(kinds)].split THEN {1} ELSE {Len(tosend)}) :
            /\ wire' = wire \o SubSeq(tosend, 1, n)
            /\ tosend' = SubSeq(tosend, n + 1, Len(tosend))
    BY DEF SendMore
  <2>2. n \in {1, Len(tosend)}
    OBVIOUS
  <2>3. n \in 1 .. Len(tosend)
    BY <1>1, <2>2
  <2> QED
    BY <2>1, <2>3
<1> DEFINE more == SubSeq(tosend, 1, n)
<1>3. n \in 0 .. Len(tosend) /\ n \in Nat \ {0}
  BY <1>1, <1>2
<1>4. /\ more \in Seq(SentToken) /\ tosend' \in Seq(SentToken)
      /\ Len(more) = n
      /\ more \o tosend' = tosend
  BY <1>2, <1>3, CutInTwo DEF Types
<1>5. /\ wire' \in Seq(SentToken) /\ Len(wire') = Len(wire) + Len(more)
      /\ Len(wire) \in Nat
  BY <1>2, <1>4, ConcatProperties, LenProperties DEF Types
<1>6. wire' # <<>>
  BY <1>3, <1>4, <1>5, EmptySeq
<1>7. wire' \o tosend' = wire \o (more \o tosend')
  <2>1. wire \in Seq(SentToken)
    BY DEF Types
  <2>2. (wire \o more) \o tosend' = wire \o (more \o tosend')
    BY <1>4, <2>1, ConcatAssociative
  <2> QED
    BY <1>2, <2>2
<1> QED
  BY <1>4, <1>5, <1>6, <1>7 DEF Out, Stream, SendMore

\* Taking a token off the buffer takes it off the stream.
LEMMA TakeFlow ==
    ASSUME Types, rbuf # <<>>, rbuf' = Tail(rbuf), UNCHANGED <<wire, tosend>>
    PROVE  /\ rbuf' \in Seq(SentToken) /\ Head(rbuf) \in SentToken
           /\ Len(rbuf) \in Nat \ {0} /\ Len(rbuf') = Len(rbuf) - 1
           /\ Head(rbuf) = rbuf[1]
           /\ \A i \in 1 .. Len(rbuf) - 1 : rbuf'[i] = rbuf[i + 1]
           /\ Stream # <<>> /\ Stream[1] = Head(rbuf)
           /\ Stream' = Tail(Stream) /\ Out' = Out
<1>1. Out' = Out /\ Out \in Seq(SentToken)
  BY KindsTyped DEF Out
<1>2. /\ rbuf' \in Seq(SentToken) /\ Head(rbuf) \in SentToken
      /\ Len(rbuf) \in Nat \ {0} /\ Len(rbuf') = Len(rbuf) - 1
      /\ Head(rbuf) = rbuf[1]
      /\ \A i \in 1 .. Len(rbuf) - 1 : rbuf'[i] = rbuf[i + 1]
  BY TakeFirst DEF Types
<1>3. /\ rbuf \o Out # <<>> /\ (rbuf \o Out)[1] = Head(rbuf)
      /\ Tail(rbuf) \o Out = Tail(rbuf \o Out)
  BY <1>1, TakeFromConcat DEF Types
<1> QED
  BY <1>1, <1>2, <1>3 DEF Stream

\* A request begins with its head, and arrives whole or follows in pieces.
LEMMA SendFlow ==
    ASSUME Types, NEW k \in Kinds, SendRequest(k)
    PROVE  LET i == Len(kinds) + 1 IN
           /\ i \in Nat /\ Len(kinds') = i /\ i <= MaxRequests
           /\ kinds' \in Seq(Kinds) /\ kinds'[i] = k
           /\ \A j \in 1 .. Len(kinds) : kinds'[j] = kinds[j]
           /\ wire' \in Seq(SentToken') /\ tosend' \in Seq(SentToken')
           /\ rbuf' \in Seq(SentToken')
           /\ wire' # <<>>
           /\ wire = <<>> =>
                 /\ Out' \in Seq(SentToken') /\ Fresh(Out', i, k)
                 /\ ~k.split /\ ~k.expect => tosend' = <<>> /\ Complete(wire', k)
<1> DEFINE i == Len(kinds) + 1
           t == Tokens(i, k)
           Mine == [req : {i}, part : Parts, n : Nat, from : State]
<1>1. /\ i \in Nat /\ Len(kinds') = i /\ i <= MaxRequests
      /\ kinds' \in Seq(Kinds) /\ kinds'[i] = k
      /\ \A j \in 1 .. Len(kinds) : kinds'[j] = kinds[j]
  <2>1. kinds \in Seq(Kinds) /\ MaxRequests \in Nat
    BY ConnectionAssumption DEF Types, Scalars
  <2>2. kinds' = Append(kinds, k) /\ Len(kinds) < MaxRequests
    BY DEF SendRequest
  <2> QED
    BY <2>1, <2>2, AddLast
<1>2. SentToken \subseteq SentToken' /\ Mine \subseteq SentToken'
  BY <1>1 DEF SentToken
<1>3. t \in Seq(Mine) /\ Fresh(t, i, k) /\ Complete(t, k)
  BY <1>1, ConnectionAssumption, TokensShape
<1>4. t \in Seq(SentToken')
  BY <1>2, <1>3, SeqMonotonic
<1>5. wire \in Seq(SentToken') /\ rbuf \in Seq(SentToken')
  BY <1>2, SeqMonotonic DEF Types
<1>6. \/ wire' = Append(wire, Head(t)) /\ tosend' = Tail(t) /\ (k.split \/ k.expect)
      \/ wire' = wire \o t /\ tosend' = <<>>
  BY <1>1 DEF SendRequest
<1>7. t # <<>> /\ rbuf' = rbuf
  BY <1>3 DEF Fresh, SendRequest
<1> HIDE DEF t
<1>8. CASE wire' = Append(wire, Head(t)) /\ tosend' = Tail(t) /\ (k.split \/ k.expect)
  <2>1. Head(t) \in SentToken' /\ Tail(t) \in Seq(SentToken')
    BY <1>4, <1>7, TakeFirst
  <2>2. wire' \in Seq(SentToken') /\ wire' # <<>>
    BY <1>5, <1>8, <2>1, AppendProperties
  <2>3. ASSUME wire = <<>> PROVE Out' = t
    <3>1. wire' = <<Head(t)>>
      BY <1>8, <2>3
    <3>2. /\ Len(t) \in Nat \ {0} /\ t \in Seq(SentToken')
          /\ 1 \in 1 .. Len(t) /\ Len(t) \in 1 .. Len(t) /\ Head(t) = t[1]
      BY <1>4, <1>7, TakeFirst
    <3>3. SubSeq(t, 1, Len(t)) = <<t[1]>> \o SubSeq(t, 2, Len(t))
      BY <3>2, SubSeqRecursiveFirst
    <3>4. SubSeq(t, 1, Len(t)) = t /\ SubSeq(t, 2, Len(t)) = Tail(t)
      BY <1>7, <3>2, SubSeqFull, TailIsSubSeq
    <3> QED
      BY <1>8, <3>1, <3>2, <3>3, <3>4 DEF Out
  <2> QED
    BY <1>1, <1>3, <1>4, <1>5, <1>7, <1>8, <2>1, <2>2, <2>3
<1>9. CASE wire' = wire \o t /\ tosend' = <<>>
  <2>1. wire' \in Seq(SentToken') /\ tosend' \in Seq(SentToken')
    BY <1>4, <1>5, <1>9, ConcatProperties, EmptySeq
  <2>2. wire' # <<>>
    BY <1>4, <1>5, <1>7, <1>9, ConcatEqualIffEmpty
  <2>3. ASSUME wire = <<>> PROVE wire' = t /\ Out' = t
    BY <1>4, <1>9, <2>3, ConcatEmptySeq DEF Out
  <2> QED
    BY <1>1, <1>3, <1>4, <1>5, <1>7, <1>9, <2>1, <2>2, <2>3
<1> QED
  BY <1>6, <1>8, <1>9

-----------------------------------------------------------------------------
(* Types *)

\* Only requests that were sent have tokens.
LEMMA NextTokens ==
    Types /\ [Next]_vars =>
        /\ rbuf' \in Seq(SentToken')
        /\ wire' \in Seq(SentToken')
        /\ tosend' \in Seq(SentToken')
<1> SUFFICES ASSUME Types, [Next]_vars
             PROVE  /\ rbuf' \in Seq(SentToken')
                    /\ wire' \in Seq(SentToken')
                    /\ tosend' \in Seq(SentToken')
  OBVIOUS
<1>1. /\ rbuf \in Seq(SentToken) /\ wire \in Seq(SentToken)
      /\ tosend \in Seq(SentToken) /\ <<>> \in Seq(SentToken)
  BY EmptySeq DEF Types
<1>2. kinds' = kinds => SentToken' = SentToken
  BY DEF SentToken
<1>3. rbuf # <<>> => Tail(rbuf) \in Seq(SentToken)
  BY TakeFirst DEF Types
<1>4. ASSUME NEW k \in Kinds, SendRequest(k)
      PROVE  /\ rbuf' \in Seq(SentToken')
             /\ wire' \in Seq(SentToken')
             /\ tosend' \in Seq(SentToken')
  BY <1>4, SendFlow
<1>5. CASE SendMore
  BY <1>1, <1>2, <1>5, SendMoreFlow DEF SendMore
<1>6. CASE Recv
  BY <1>1, <1>2, <1>6, RecvFlow DEF Recv, client
<1>7. CASE BadRequest \/ RefuseRequest \/ ParseRequest \/ ReadUnit
  BY <1>1, <1>2, <1>3, <1>7 DEF BadRequest, RefuseRequest, ParseRequest, ReadUnit,
     TakeHead, client
<1>8. CASE ReadDone \/ ReadFails \/ DrainDone \/ DrainFails
  BY <1>1, <1>2, <1>3, <1>8 DEF ReadDone, ReadFails, DrainDone, DrainFails, BodyRead,
     BodyFails, TooLarge, Broken, ReceiverStops, client
<1>9. CASE ClientCloses \/ RequestDone
  BY <1>1, <1>2, <1>9 DEF ClientCloses, RequestDone, client
<1>10. CASE UNCHANGED <<kinds, rbuf, wire, tosend>>
  BY <1>1, <1>2, <1>10
<1>11. CASE KeepAliveEnds \/ KeepAliveReady \/ NoRequest \/ UpgradeHandled \/ Upgrade
            \/ UpgradeFallsThrough \/ RouteWithoutBody \/ BeginRead \/ ReadRefused
            \/ WriteResponse
  BY <1>10, <1>11 DEF KeepAliveEnds, KeepAliveReady, NoRequest, UpgradeHandled, Upgrade,
     UpgradeFallsThrough, RouteWithoutBody, BeginRead, ReadRefused, WriteResponse, client
<1>12. ASSUME NEW s \in ExpectStatuses, Expect(s)
       PROVE  UNCHANGED <<kinds, rbuf, wire, tosend>>
  BY <1>12 DEF Expect, client
<1>13. CASE UNCHANGED vars
  BY <1>10, <1>13 DEF vars
<1> QED
  BY <1>4, <1>5, <1>6, <1>7, <1>8, <1>9, <1>10, <1>11, <1>12, <1>13 DEF Next, ServerStep

\* The types of the model.
LEMMA TypesTypeOK == Types => TypeOK
<1> SUFFICES ASSUME Types PROVE TypeOK
  OBVIOUS
<1>1. SentToken \subseteq Token /\ Len(kinds) \in Nat /\ MaxRequests \in Nat
  BY KindsTyped, ConnectionAssumption
<1>2. tosend \in Seq(Token) /\ wire \in Seq(Token) /\ rbuf \in Seq(Token)
  BY <1>1, SeqMonotonic DEF Types
<1>3. cur \in 0 .. MaxRequests
  BY <1>1 DEF Types, Scalars
<1> QED
  BY <1>2, <1>3 DEF Types, Scalars, TypeOK

\* A response that is written, or not.
LEMMA RespondTypes ==
    ASSUME Types, NEW i \in 1 .. Len(kinds),
           NEW status \in Statuses,
           NEW close \in BOOLEAN, Respond(i, status, close)
    PROVE  sent' \in Seq(Response) /\ ret' \in BOOLEAN
<1> DEFINE response == [req |-> i, status |-> status,
                        close |-> close \/ status \in {"error", "refused"}]
<1>1. response \in Response
  <2>1. i \in 1 .. MaxRequests
    BY ConnectionAssumption, KindsTyped DEF Types, Scalars
  <2>2. (close \/ status \in {"error", "refused"}) \in BOOLEAN
    OBVIOUS
  <2> QED
    BY <2>1, <2>2 DEF Response
<1>2. sent \in Seq(Response) /\ ret \in BOOLEAN
  BY DEF Types, Scalars
<1>3. \/ sent' = Append(sent, response) /\ ret' \in BOOLEAN
      \/ sent' = sent /\ ret' = FALSE
  BY DEF Respond
<1> HIDE DEF response
<1>4. Append(sent, response) \in Seq(Response)
  BY <1>1, <1>2, AppendProperties
<1> QED
  BY <1>2, <1>3, <1>4

\* The current request is one that was sent, and of a known kind.
LEMMA KindTyped ==
    ASSUME Types, pc \in Processing \cup {"drain"}
    PROVE  /\ cur \in 1 .. Len(kinds) /\ Kind \in KindType
           /\ Len(Kind.body) \in Nat /\ Kind.close \in BOOLEAN
           /\ Kind \in Kinds
<1>1. cur \in 1 .. Len(kinds)
  BY KindsTyped DEF Types, Scalars
<1> QED
  <2>1. Kind \in KindType /\ Kind \in Kinds
    BY <1>1, KindsTyped, ElementOfSeq DEF Kind, Types, Scalars
  <2>2. Len(Kind.body) \in Nat
    BY <2>1, LenProperties DEF KindType
  <2> QED
    BY <1>1, <2>1, <2>2 DEF KindType

\* So is the one whose token is taken.
LEMMA TakenTyped ==
    ASSUME Types, TakeHead
    PROVE  /\ Head(rbuf).req \in 1 .. Len(kinds)
           /\ kinds[Head(rbuf).req] \in KindType
           /\ kinds[Head(rbuf).req].close \in BOOLEAN
<1>1. Head(rbuf) \in SentToken
  BY TakeFirst DEF Types, TakeHead
<1> QED
  BY <1>1, KindsTyped DEF SentToken, KindType

\* The reader goes on with a unit that it took.
LEMMA UnitTaken ==
    ASSUME Types, ReadUnit
    PROVE  /\ dec' \in State /\ dec' = After(dec, Head(rbuf))
           /\ dec.at = "length" => dec' = Counted(dec, "done")
           /\ dec'.at = "close" => dec.at = "close"
<1>1. Head(rbuf) \in SentToken /\ dec \in State
  BY TakeFirst DEF Types, Scalars, ReadUnit
<1>2. Head(rbuf).n \in Nat
  BY <1>1 DEF SentToken
<1> QED
  BY <1>1, <1>2, AfterState DEF ReadUnit

\* The other variables, and the bounds of what counts.
LEMMA NextScalars == Types /\ [Next]_vars => Scalars'
<1> SUFFICES ASSUME Types, [Next]_vars PROVE Scalars'
  OBVIOUS
<1>0. Scalars /\ Len(kinds) \in Nat
  BY KindsTyped DEF Types
<1> USE ConnectionAssumption DEF Scalars, Processing, client
<1>1. ASSUME NEW k \in Kinds, SendRequest(k) PROVE Scalars'
  <2>1. /\ kinds' \in Seq(Kinds) /\ Len(kinds') = Len(kinds) + 1
        /\ Len(kinds') <= MaxRequests
    BY <1>0, <1>1, SendFlow
  <2> QED
    BY <1>0, <1>1, <2>1 DEF SendRequest
<1>2. CASE SendMore
  BY <1>0, <1>2 DEF SendMore
<1>3. CASE ClientCloses
  BY <1>0, <1>3 DEF ClientCloses
<1>4. CASE KeepAliveEnds
  BY <1>0, <1>4 DEF KeepAliveEnds
<1>5. CASE Recv
  BY <1>0, <1>5 DEF Recv
<1>6. CASE KeepAliveReady
  BY <1>0, <1>6 DEF KeepAliveReady
<1>7. CASE RequestDone
  BY <1>0, <1>7 DEF RequestDone
<1>8. CASE NoRequest
  BY <1>0, <1>8 DEF NoRequest
<1>9. CASE BadRequest
  <2>1. Head(rbuf).req \in 1 .. Len(kinds) /\ close_connection \in BOOLEAN
    BY <1>0, <1>9, TakenTyped DEF BadRequest, close_connection
  <2>2. sent' \in Seq(Response) /\ ret' \in BOOLEAN
    BY <1>0, <1>9, <2>1, RespondTypes DEF Statuses, BadRequest
  <2> QED
    BY <1>0, <1>9, <2>1, <2>2 DEF BadRequest, TakeHead
<1>10. CASE RefuseRequest
  <2>1. Head(rbuf).req \in 1 .. Len(kinds) /\ close_connection \in BOOLEAN
    BY <1>0, <1>10, TakenTyped DEF RefuseRequest, close_connection
  <2>2. sent' \in Seq(Response) /\ ret' \in BOOLEAN
    BY <1>0, <1>10, <2>1, RespondTypes DEF Statuses, RefuseRequest
  <2> QED
    BY <1>0, <1>10, <2>1, <2>2 DEF RefuseRequest, TakeHead
<1>11. CASE ParseRequest
  <2>1. /\ Head(rbuf).req \in 1 .. Len(kinds)
        /\ kinds[Head(rbuf).req].close \in BOOLEAN
    BY <1>0, <1>11, TakenTyped DEF ParseRequest
  <2>2. pc' \in {"expect", "upgrade", "routing"}
    BY <1>0, <1>11 DEF ParseRequest
  <2>3. cur' = Head(rbuf).req /\ connection_closed' \in BOOLEAN
    BY <1>0, <1>11, <2>1 DEF ParseRequest, TakeHead
  <2> QED
    BY <1>0, <1>11, <2>1, <2>2, <2>3 DEF ParseRequest, TakeHead
<1>12. ASSUME NEW s \in ExpectStatuses, Expect(s) PROVE Scalars'
  <2>1. cur \in 1 .. Len(kinds) /\ s \in {"100", "417", "other"}
    BY <1>0, <1>12, KindTyped DEF Expect, Processing
  <2>2. CASE s = "other"
    <3>1. PICK t \in {"ok", "error"} : Respond(cur, t, TRUE)
      BY <1>0, <1>12, <2>2 DEF Expect
    <3>2. sent' \in Seq(Response) /\ ret' \in BOOLEAN
      BY <1>0, <2>1, <3>1, RespondTypes DEF Statuses
    <3> QED
      BY <1>0, <1>12, <2>2, <3>2 DEF Expect
  <2>3. CASE s # "other"
    <3> DEFINE response == [req |-> cur, status |-> s, close |-> FALSE]
    <3>1. response \in Response
      BY <1>0, <2>1, <2>3, KindsTyped DEF Response, Statuses
    <3>2. sent' = Append(sent, response)
      BY <1>0, <1>12, <2>1, <2>3 DEF Expect
    <3>3. sent' \in Seq(Response)
      BY <1>0, <3>1, <3>2, AppendProperties
    <3> QED
      BY <1>0, <1>12, <2>1, <2>3, <3>3 DEF Expect
  <2> QED
    BY <1>0, <2>2, <2>3
<1>13. CASE UpgradeHandled
  <2>1. cur \in 1 .. Len(kinds) /\ (close_connection \/ Kind.close) \in BOOLEAN
    BY <1>0, <1>13, KindTyped DEF UpgradeHandled, Processing
  <2>2. PICK s \in {"ok", "error"} : Respond(cur, s, close_connection \/ Kind.close)
    BY <1>0, <1>13 DEF UpgradeHandled
  <2>3. sent' \in Seq(Response) /\ ret' \in BOOLEAN
    BY <1>0, <2>1, <2>2, RespondTypes DEF Statuses
  <2> QED
    BY <1>0, <1>13, <2>3 DEF UpgradeHandled
<1>14. CASE Upgrade
  <2> DEFINE response == [req |-> cur, status |-> "101", close |-> FALSE]
  <2>1. cur \in 1 .. Len(kinds)
    BY <1>0, <1>14, KindTyped DEF Upgrade, Processing
  <2>2. response \in Response
    BY <1>0, <2>1, KindsTyped DEF Response, Statuses
  <2>3. sent' \in Seq(Response)
    <3> HIDE DEF response
    <3>1. sent' = sent \/ sent' = Append(sent, response)
      BY <1>0, <1>14 DEF Upgrade, response
    <3> QED
      BY <1>0, <2>2, <3>1, AppendProperties
  <2> QED
    BY <1>0, <1>14, <2>3 DEF Upgrade
<1>15. CASE UpgradeFallsThrough
  BY <1>0, <1>15 DEF UpgradeFallsThrough
<1>16. CASE RouteWithoutBody
  BY <1>0, <1>16 DEF RouteWithoutBody
<1>17. CASE BeginRead
  <2>1. dec' \in State
    BY <1>0, <1>17, KindTyped, StartState DEF BeginRead, Processing
  <2> QED
    BY <1>0, <1>17, <2>1 DEF BeginRead
<1>18. CASE ReadUnit
  <2>1. dec' \in State
    BY <1>0, <1>18, UnitTaken
  <2> QED
    BY <1>0, <1>18, <2>1 DEF ReadUnit
<1>19. CASE ReadDone
  <2>1. body_consumed_' \in BOOLEAN
    BY <1>19 DEF ReadDone, Framed
  <2> QED
    BY <1>0, <1>19, <2>1 DEF ReadDone
<1>20. CASE ReadFails
  BY <1>0, <1>20 DEF ReadFails
<1>25. CASE ReadRefused
  <2>1. pc' \in {"refuse", "respond"}
    BY <1>25 DEF ReadRefused
  <2> QED
    BY <1>0, <1>25, <2>1 DEF ReadRefused
<1>21. CASE WriteResponse
  <2>1. cur \in 1 .. Len(kinds) /\ (close_connection \/ Kind.close) \in BOOLEAN
    BY <1>0, <1>21, KindTyped DEF WriteResponse, Processing
  <2>2. PICK s \in {"ok", "error", "refused"} :
           Respond(cur, s, close_connection \/ Kind.close)
    BY <1>0, <1>21 DEF WriteResponse
  <2>3. sent' \in Seq(Response) /\ ret' \in BOOLEAN
    BY <1>0, <2>1, <2>2, RespondTypes DEF Statuses
  <2>4. Kind \in KindType
    BY <1>0, <1>21, KindTyped DEF WriteResponse, Processing
  <2>5. dec' \in State /\ pc' \in {"drain", "done"}
    BY <1>0, <1>21, <2>4, StartState DEF WriteResponse
  <2> QED
    BY <1>0, <1>21, <2>3, <2>5 DEF WriteResponse
<1>22. CASE DrainDone
  BY <1>0, <1>22 DEF DrainDone
<1>23. CASE DrainFails
  BY <1>0, <1>23 DEF DrainFails
<1>24. CASE UNCHANGED vars
  BY <1>0, <1>24 DEF vars
<1> QED
  BY <1>0, <1>1, <1>2, <1>3, <1>4, <1>5, <1>6, <1>7, <1>8, <1>9, <1>10, <1>11, <1>12,
     <1>13, <1>14, <1>15, <1>16, <1>17, <1>18, <1>19, <1>20, <1>21, <1>22, <1>23,
     <1>24, <1>25
  DEF Next, ServerStep

\* Together.
LEMMA NextTypes == Types /\ [Next]_vars => Types'
BY NextTokens, NextScalars DEF Types

-----------------------------------------------------------------------------
(* What is written *)

\* One more response, after those there are.
Writes(response) ==
    /\ Len(sent') = Len(sent) + 1
    /\ DOMAIN sent' = 1 .. Len(sent) + 1
    /\ sent'[Len(sent) + 1] = response
    /\ \A m \in 1 .. Len(sent) : sent'[m] = sent[m]

\* The responses so far have positions.
LEMMA SentTyped ==
    ASSUME Types
    PROVE  /\ sent \in Seq(Response) /\ Len(sent) \in Nat
           /\ DOMAIN sent = 1 .. Len(sent)
           /\ \A m \in DOMAIN sent : sent[m].req \in Nat
<1>1. /\ sent \in Seq(Response) /\ Len(sent) \in Nat
      /\ DOMAIN sent = 1 .. Len(sent)
  BY LenProperties DEF Types, Scalars
<1>2. \A m \in DOMAIN sent : sent[m] \in Response
  BY <1>1, ElementOfSeq
<1> QED
  BY <1>1, <1>2, ConnectionAssumption DEF Response

\* Appending writes.
LEMMA AppendWrites ==
    ASSUME Types, NEW i \in 1 .. Len(kinds),
           NEW status \in Statuses, NEW close \in BOOLEAN,
           sent' = Append(sent, [req |-> i, status |-> status, close |-> close])
    PROVE  Writes([req |-> i, status |-> status, close |-> close])
<1> DEFINE response == [req |-> i, status |-> status, close |-> close]
<1>1. response \in Response
  <2>1. i \in 1 .. MaxRequests
    BY ConnectionAssumption, KindsTyped DEF Types, Scalars
  <2> QED
    BY <2>1 DEF Response
<1>2. sent' = Append(sent, response)
  OBVIOUS
<1> HIDE DEF response
<1>3. Writes(response)
  BY <1>1, <1>2, AddLast, SentTyped DEF Writes
<1> QED
  BY <1>3 DEF response

\* A response is written, or process_request fails.
LEMMA RespondWrites ==
    ASSUME Types, NEW i \in 1 .. Len(kinds),
           NEW status \in Statuses,
           NEW close \in BOOLEAN, Respond(i, status, close)
    PROVE  \/ sent' = sent /\ ~ret'
           \/ Writes([req |-> i, status |-> status,
                      close |-> close \/ status \in {"error", "refused"}])
<1> DEFINE says == close \/ status \in {"error", "refused"}
<1>1. says \in BOOLEAN
  OBVIOUS
<1>2. \/ sent' = sent /\ ~ret'
      \/ sent' = Append(sent, [req |-> i, status |-> status, close |-> says])
  BY DEF Respond
<1> HIDE DEF says
<1>3. \/ sent' = sent /\ ~ret'
      \/ Writes([req |-> i, status |-> status, close |-> says])
  BY <1>1, <1>2, AppendWrites
<1> QED
  BY <1>3 DEF says

\* What each handler writes: in the first list a response of its own ...
LEMMA HandlerWrites ==
    ASSUME Types
    PROVE  /\ \/ BadRequest \/ RefuseRequest
              => \/ sent' = sent /\ ~ret'
                 \/ Writes([req |-> Head(rbuf).req, status |-> "error", close |-> TRUE])
           /\ UpgradeHandled \/ WriteResponse
              => \/ sent' = sent /\ ~ret'
                 \/ \E s \in {"ok", "error", "refused"}, c \in BOOLEAN :
                      /\ Writes([req |-> cur, status |-> s, close |-> c])
                      /\ close_connection \/ Kind.close => c
                      /\ pc = "refuse" => s = "refused" /\ c
           /\ \A s \in ExpectStatuses : Expect(s)
              => \/ sent' = sent /\ ~ret'
                 \/ \E t \in {"100", "417", "ok", "error"}, c \in BOOLEAN :
                      /\ Writes([req |-> cur, status |-> t, close |-> c])
                      /\ t \in {"100", "417"} => t = s
                      /\ t \notin {"100", "417"} => s = "other"
           /\ Upgrade
              => \/ sent' = sent /\ ~ret'
                 \/ Writes([req |-> cur, status |-> "101", close |-> FALSE])
<1>1. ASSUME BadRequest \/ RefuseRequest
      PROVE  \/ sent' = sent /\ ~ret'
             \/ Writes([req |-> Head(rbuf).req, status |-> "error", close |-> TRUE])
  <2>1. Head(rbuf).req \in 1 .. Len(kinds) /\ close_connection \in BOOLEAN
    BY <1>1, TakenTyped DEF BadRequest, RefuseRequest, close_connection
  <2>2. Respond(Head(rbuf).req, "error", close_connection)
    BY <1>1 DEF BadRequest, RefuseRequest
  <2>3. (close_connection \/ "error" \in {"error", "refused"}) = TRUE
    OBVIOUS
  <2> QED
    BY <2>1, <2>2, <2>3, RespondWrites DEF Statuses
<1>2. ASSUME UpgradeHandled \/ WriteResponse
      PROVE  \/ sent' = sent /\ ~ret'
             \/ \E s \in {"ok", "error", "refused"}, c \in BOOLEAN :
                  /\ Writes([req |-> cur, status |-> s, close |-> c])
                  /\ close_connection \/ Kind.close => c
                  /\ pc = "refuse" => s = "refused" /\ c
  <2>1. cur \in 1 .. Len(kinds) /\ (close_connection \/ Kind.close) \in BOOLEAN
    BY <1>2, KindTyped DEF UpgradeHandled, WriteResponse, Processing
  <2>2. PICK s \in {"ok", "error", "refused"} :
           /\ Respond(cur, s, close_connection \/ Kind.close)
           /\ pc = "refuse" => s = "refused"
    BY <1>2 DEF UpgradeHandled, WriteResponse
  <2> DEFINE c == (close_connection \/ Kind.close) \/ s \in {"error", "refused"}
  <2>3. (sent' = sent /\ ~ret') \/ Writes([req |-> cur, status |-> s, close |-> c])
    BY <2>1, <2>2, RespondWrites DEF Statuses
  <2>4. /\ c \in BOOLEAN /\ (close_connection \/ Kind.close => c)
        /\ pc = "refuse" => s = "refused" /\ c
    BY <2>2
  <2> HIDE DEF c
  <2> QED
    BY <2>3, <2>4
<1>3. ASSUME NEW s \in ExpectStatuses, Expect(s)
      PROVE  \/ sent' = sent /\ ~ret'
             \/ \E t \in {"100", "417", "ok", "error"}, c \in BOOLEAN :
                  /\ Writes([req |-> cur, status |-> t, close |-> c])
                  /\ t \in {"100", "417"} => t = s
                  /\ t \notin {"100", "417"} => s = "other"
  <2>1. cur \in 1 .. Len(kinds)
    BY <1>3, KindTyped DEF Expect, Processing
  <2>2. CASE s \in {"100", "417"}
    <3>1. sent' = Append(sent, [req |-> cur, status |-> s, close |-> FALSE])
      BY <1>3, <2>2 DEF Expect
    <3>2. Writes([req |-> cur, status |-> s, close |-> FALSE])
      BY <2>1, <2>2, <3>1, AppendWrites DEF Statuses
    <3> QED
      BY <2>2, <3>2
  <2>3. CASE s \notin {"100", "417"}
    <3>1. PICK t \in {"ok", "error"} : Respond(cur, t, TRUE) /\ s = "other"
      BY <1>3, <2>3 DEF Expect
    <3>2. \/ sent' = sent /\ ~ret'
          \/ Writes([req |-> cur, status |-> t, close |-> TRUE \/ t \in {"error", "refused"}])
      BY <2>1, <3>1, RespondWrites DEF Statuses
    <3>3. (TRUE \/ t \in {"error", "refused"}) = TRUE
      OBVIOUS
    <3> QED
      BY <3>1, <3>2, <3>3
  <2> QED
    BY <2>2, <2>3
<1>4. ASSUME Upgrade
      PROVE  \/ sent' = sent /\ ~ret'
             \/ Writes([req |-> cur, status |-> "101", close |-> FALSE])
  <2>1. cur \in 1 .. Len(kinds)
    BY <1>4, KindTyped DEF Upgrade, Processing
  <2> QED
    BY <1>4, <2>1, AppendWrites DEF Upgrade, Statuses
<1> QED
  BY <1>1, <1>2, <1>3, <1>4

\* A last response that says that the connection closes.
LEMMA WritesClose ==
    ASSUME Types, NEW i, NEW status,
           Writes([req |-> i, status |-> status, close |-> TRUE])
    PROVE  SaidClose'
<1>1. Len(sent') = Len(sent) + 1 /\ Len(sent) \in Nat
  BY SentTyped DEF Writes
<1>2. sent'[Len(sent')].close
  BY <1>1 DEF Writes
<1>3. sent' # <<>>
  BY <1>1, EmptySeq
<1> QED
  BY <1>2, <1>3 DEF SaidClose

\* The response that may be the last says so.
LEMMA NextAnnounced == Types /\ Announced /\ [Next]_vars => Announced'
<1> SUFFICES ASSUME Types, Announced, [Next]_vars PROVE Announced'
  OBVIOUS
<1>0. Scalars /\ count \in Nat
  BY ConnectionAssumption DEF Types, Scalars
<1> USE DEF Announced, client, Scalars
<1>1. ASSUME NEW k \in Kinds, SendRequest(k) PROVE Announced'
  BY <1>0, <1>1 DEF SendRequest, SaidClose
<1>2. CASE SendMore
  BY <1>0, <1>2 DEF SendMore, SaidClose
<1>3. CASE ClientCloses
  BY <1>0, <1>3 DEF ClientCloses, SaidClose
<1>4. CASE KeepAliveEnds
  BY <1>0, <1>4 DEF KeepAliveEnds, SaidClose
<1>5. CASE Recv
  BY <1>0, <1>5 DEF Recv, SaidClose
<1>6. CASE KeepAliveReady
  BY <1>0, <1>6 DEF KeepAliveReady, SaidClose
<1>7. CASE RequestDone
  BY <1>0, <1>7 DEF RequestDone, SaidClose
<1>8. CASE NoRequest
  BY <1>0, <1>8 DEF NoRequest, SaidClose
<1>9. CASE BadRequest
  <2>1. ret' => SaidClose'
    BY <1>0, <1>9, HandlerWrites, WritesClose
  <2> QED
    BY <1>0, <1>9, <2>1 DEF BadRequest, TakeHead
<1>10. CASE RefuseRequest
  BY <1>0, <1>10 DEF RefuseRequest, TakeHead
<1>11. CASE ParseRequest
  BY <1>0, <1>11 DEF ParseRequest, TakeHead
<1>12. ASSUME NEW s \in ExpectStatuses, Expect(s) PROVE Announced'
  BY <1>0, <1>12 DEF Expect
<1>13. CASE UpgradeHandled
  <2>1. ret' /\ count = 1 => SaidClose'
    BY <1>0, <1>13, HandlerWrites, WritesClose DEF close_connection
  <2> QED
    BY <1>0, <1>13, <2>1 DEF UpgradeHandled
<1>14. CASE Upgrade
  BY <1>0, <1>14 DEF Upgrade
<1>15. CASE UpgradeFallsThrough
  BY <1>0, <1>15 DEF UpgradeFallsThrough, SaidClose
<1>16. CASE RouteWithoutBody
  BY <1>0, <1>16 DEF RouteWithoutBody, SaidClose
<1>17. CASE BeginRead
  BY <1>0, <1>17 DEF BeginRead, SaidClose
<1>18. CASE ReadUnit
  BY <1>0, <1>18 DEF ReadUnit, SaidClose
<1>19. CASE ReadDone
  BY <1>0, <1>19 DEF ReadDone, SaidClose
<1>20. CASE ReadFails
  BY <1>0, <1>20 DEF ReadFails, SaidClose
<1>25. CASE ReadRefused
  BY <1>0, <1>25 DEF ReadRefused, SaidClose
<1>21. CASE WriteResponse
  <2>1. ret' /\ count = 1 => SaidClose'
    BY <1>0, <1>21, HandlerWrites, WritesClose DEF close_connection
  <2> QED
    BY <1>0, <1>21, <2>1 DEF WriteResponse
<1>22. CASE DrainDone
  BY <1>0, <1>22 DEF DrainDone, SaidClose
<1>23. CASE DrainFails
  BY <1>0, <1>23 DEF DrainFails, SaidClose
<1>24. CASE UNCHANGED vars
  BY <1>0, <1>24 DEF vars, SaidClose
<1> QED
  BY <1>0, <1>1, <1>2, <1>3, <1>4, <1>5, <1>6, <1>7, <1>8, <1>9, <1>10, <1>11, <1>12,
     <1>13, <1>14, <1>15, <1>16, <1>17, <1>18, <1>19, <1>20, <1>21, <1>22, <1>23,
     <1>24, <1>25
  DEF Next, ServerStep

\* The count of a length starts with the body.
LEMMA StartCounting ==
    ASSUME NEW k \in Kinds, k.framing = "length"
    PROVE  Counting(Start(k), k)
<1>1. k \in KindType /\ k.body # <<>> /\ k.body \in Seq(Unit)
  BY ConnectionAssumption DEF Ends, KindType
<1>2. Len(k.body) \in Nat /\ Len(k.body) # 0
  BY <1>1, LenProperties, EmptySeq
<1> QED
  BY <1>1, <1>2, StartState DEF Counting

\* What a location says about the request.
LEMMA NextFlags == Types /\ Flags /\ [Next]_vars => Flags'
<1> SUFFICES ASSUME Types, Flags, [Next]_vars PROVE Flags'
  OBVIOUS
<1>0. Scalars
  BY DEF Types
<1> USE DEF Flags, client
<1>1. ASSUME NEW k \in Kinds, SendRequest(k) PROVE Flags'
  <2>1. pc \in Processing \cup {"drain"} => Kind' = Kind
    BY <1>0, <1>1, SendFlow, KindTyped DEF SendRequest, Kind
  <2>2. CloseAnnounced' = CloseAnnounced
    BY <1>0, <1>1 DEF SendRequest, CloseAnnounced
  <2> QED
    BY <1>0, <1>1, <2>1, <2>2 DEF SendRequest, Processing
<1>2. CASE SendMore
  BY <1>0, <1>2 DEF SendMore, Processing, Kind, CloseAnnounced
<1>3. CASE ClientCloses
  BY <1>0, <1>3 DEF ClientCloses, Processing, Kind, CloseAnnounced
<1>4. CASE KeepAliveEnds
  BY <1>0, <1>4 DEF KeepAliveEnds, Processing, Kind, CloseAnnounced
<1>5. CASE Recv
  BY <1>0, <1>5 DEF Recv, Reads, Processing, Kind, CloseAnnounced
<1>6. CASE KeepAliveReady
  BY <1>0, <1>6 DEF KeepAliveReady, Processing, Kind, CloseAnnounced
<1>7. CASE RequestDone
  BY <1>0, <1>7 DEF RequestDone, Processing, Kind, CloseAnnounced
<1>8. CASE NoRequest
  BY <1>0, <1>8 DEF NoRequest, Processing, Kind, CloseAnnounced
<1>9. CASE BadRequest
  BY <1>0, <1>9 DEF BadRequest, Processing, Kind, CloseAnnounced, TakeHead
<1>10. CASE RefuseRequest
  BY <1>0, <1>10 DEF RefuseRequest, Processing, Kind, CloseAnnounced, TakeHead
<1>11. CASE ParseRequest
  BY <1>0, <1>11 DEF ParseRequest, Processing, Kind, CloseAnnounced, TakeHead, Refused
<1>12. ASSUME NEW s \in ExpectStatuses, Expect(s) PROVE Flags'
  <2>1. /\ Kind' = Kind /\ pc = "expect" /\ rbuf' = rbuf
        /\ body_consumed_' = body_consumed_
        /\ \/ pc' = "done"
           \/ /\ pc' = IF Kind.upgrade THEN "upgrade" ELSE "routing"
              /\ connection_closed' = connection_closed
    BY <1>12 DEF Expect, Kind
  <2> QED
    BY <2>1 DEF Processing
<1>13. CASE UpgradeHandled
  BY <1>0, <1>13 DEF UpgradeHandled, Processing, Kind, CloseAnnounced
<1>14. CASE Upgrade
  BY <1>0, <1>14 DEF Upgrade, Processing, Kind, CloseAnnounced
<1>15. CASE UpgradeFallsThrough
  BY <1>0, <1>15 DEF UpgradeFallsThrough, Processing, Kind, CloseAnnounced
<1>16. CASE RouteWithoutBody
  BY <1>0, <1>16 DEF RouteWithoutBody, HasContent, Framed, Processing, Kind, CloseAnnounced
<1>17. CASE BeginRead
  <2>1. Kind' = Kind /\ Kind \in KindType /\ dec' = Start(Kind) /\ Kind \in Kinds
    BY <1>0, <1>17, KindTyped DEF BeginRead, Kind, Processing
  <2>2. Framed(Kind) => dec'.at # "close"
    BY <2>1, StartState DEF Framed
  <2>3. Kind.framing = "length" => Counting(dec', Kind)
    BY <2>1, StartCounting
  <2> QED
    BY <1>0, <1>17, <2>1, <2>2, <2>3 DEF BeginRead, Processing
<1>18. CASE ReadUnit
  <2>1. Kind' = Kind /\ dec'.at = "close" => dec.at = "close"
    BY <1>0, <1>18, UnitTaken DEF ReadUnit, Kind
  <2>2. Kind.framing = "length" => Counting(dec', Kind)
    <3> SUFFICES ASSUME Kind.framing = "length" PROVE Counting(dec', Kind)
      OBVIOUS
    <3>1. Counting(dec, Kind) /\ dec.at # "done"
      BY <1>18 DEF ReadUnit
    <3>2. /\ dec.at = "length" /\ dec.left > 0 /\ dec.left <= Len(Kind.body)
          /\ dec.left \in Nat /\ Len(Kind.body) \in Nat
          /\ dec' = Counted(dec, "done") /\ dec \in State
      BY <1>0, <1>18, <3>1, UnitTaken, KindTyped
         DEF Counting, Scalars, State, ReadUnit, Processing
    <3>3. /\ dec'.at = IF dec.left = 1 THEN "done" ELSE "length"
          /\ dec'.left = dec.left - 1
      BY <3>2, CountedState
    <3> QED
      BY <3>2, <3>3 DEF Counting
  <2> QED
    BY <1>0, <1>18, <2>1, <2>2 DEF ReadUnit, Processing, CloseAnnounced, Kind
<1>19. CASE ReadDone
  BY <1>0, <1>19 DEF ReadDone, Processing, Kind, CloseAnnounced
<1>20. CASE ReadFails
  BY <1>0, <1>20 DEF ReadFails, ReceiverStops, Processing, Kind, CloseAnnounced
<1>25. CASE ReadRefused
  BY <1>0, <1>25 DEF ReadRefused, Framed, Processing, Kind, CloseAnnounced
<1>21. CASE WriteResponse
  <2>1. Kind' = Kind
    BY <1>0, <1>21 DEF WriteResponse, Kind
  <2>2. ASSUME pc = "refuse", ret' PROVE CloseAnnounced'
    <3>1. PICK s \in {"ok", "error", "refused"} :
             Writes([req |-> cur, status |-> s, close |-> TRUE])
      BY <1>0, <1>21, <2>2, HandlerWrites
    <3> QED
      BY <1>0, <3>1, SentTyped DEF Writes, CloseAnnounced
  <2>3. /\ Framed(Kind) => Start(Kind).at # "close"
        /\ Kind.framing = "length" => Counting(Start(Kind), Kind)
    <3>1. Kind \in KindType /\ Kind \in Kinds
      BY <1>0, <1>21, KindTyped DEF WriteResponse, Processing
    <3> QED
      BY <3>1, StartState, StartCounting DEF Framed
  <2> QED
    BY <1>0, <1>21, <2>1, <2>2, <2>3 DEF WriteResponse, Processing
<1>22. CASE DrainDone
  BY <1>0, <1>22 DEF DrainDone, Processing, Kind, CloseAnnounced
<1>23. CASE DrainFails
  BY <1>0, <1>23 DEF DrainFails, Processing, Kind, CloseAnnounced
<1>24. CASE UNCHANGED vars
  BY <1>0, <1>24 DEF vars, Processing, Kind, CloseAnnounced
<1> QED
  BY <1>0, <1>1, <1>2, <1>3, <1>4, <1>5, <1>6, <1>7, <1>8, <1>9, <1>10, <1>11, <1>12,
     <1>13, <1>14, <1>15, <1>16, <1>17, <1>18, <1>19, <1>20, <1>21, <1>22, <1>23,
     <1>24, <1>25
  DEF Next, ServerStep

-----------------------------------------------------------------------------
(* Responses in the order of the requests *)

\* The next response, to a request with none that is final and after all others.
LEMMA WritesInTurn ==
    ASSUME Types, NEW i \in Nat, NEW status, NEW close,
           Writes([req |-> i, status |-> status, close |-> close]),
           UpTo(i), FinalBelow(i), FinalOnce
    PROVE  /\ UpTo(i)' /\ FinalOnce'
           /\ status \in {"100", "101"} => FinalBelow(i)'
           /\ \A j \in Nat : Answered(j) => Answered(j)'
           /\ status \notin {"100", "101"} => Answered(i)'
<1> DEFINE response == [req |-> i, status |-> status, close |-> close]
<1>1. /\ Len(sent) \in Nat /\ sent \in Seq(Response)
      /\ DOMAIN sent = 1 .. Len(sent) /\ DOMAIN sent' = 1 .. Len(sent) + 1
      /\ sent'[Len(sent) + 1] = response
      /\ \A m \in 1 .. Len(sent) : sent'[m] = sent[m]
  BY SentTyped DEF Writes
<1>2. response.req = i /\ response.status = status
  OBVIOUS
<1> HIDE DEF response
<1>3. \A m \in DOMAIN sent : sent[m].req \in Nat
  BY SentTyped
<1>4. UpTo(i)'
  BY <1>1, <1>2 DEF UpTo
<1>5. FinalOnce'
  <2> SUFFICES ASSUME NEW m \in DOMAIN sent', NEW n \in DOMAIN sent', m < n,
                      Final(sent'[m])
               PROVE  sent'[m].req < sent'[n].req
    BY DEF FinalOnce, Final
  <2>1. m \in DOMAIN sent /\ sent'[m] = sent[m]
    BY <1>1
  <2>2. CASE n \in DOMAIN sent
    BY <1>1, <2>1, <2>2 DEF FinalOnce
  <2>3. CASE n \notin DOMAIN sent
    <3>1. sent'[n] = response
      BY <1>1, <2>3
    <3> QED
      BY <1>2, <2>1, <3>1 DEF FinalBelow
  <2> QED
    BY <2>2, <2>3
<1>6. ASSUME status \in {"100", "101"} PROVE FinalBelow(i)'
  <2> SUFFICES ASSUME NEW m \in DOMAIN sent', Final(sent'[m]) PROVE sent'[m].req < i
    BY DEF FinalBelow, Final
  <2>1. m # Len(sent) + 1
    BY <1>1, <1>2, <1>6 DEF Final
  <2>2. m \in DOMAIN sent /\ sent'[m] = sent[m]
    BY <1>1, <2>1
  <2> QED
    BY <2>2 DEF FinalBelow
<1>7. ASSUME NEW j \in Nat, Answered(j) PROVE Answered(j)'
  <2>1. PICK m \in DOMAIN sent : sent[m].req = j /\ Final(sent[m])
    BY <1>7 DEF Answered
  <2>2. m \in DOMAIN sent' /\ sent'[m] = sent[m]
    BY <1>1
  <2> QED
    BY <2>1, <2>2 DEF Answered, Final
<1>8. ASSUME status \notin {"100", "101"} PROVE Answered(i)'
  BY <1>1, <1>2, <1>8 DEF Answered, Final
<1> QED
  BY <1>4, <1>5, <1>6, <1>7, <1>8

\* A token is taken off a connection in order: it is the head of the request
\* that the server has not taken yet.
LEMMA HeadIsNext ==
    ASSUME Types, Flags, InTurn, HeadWaits, OwnBody, TakeHead
    PROVE  /\ Pending /\ Alive
           /\ Head(rbuf) = HeadToken(Len(kinds), "head")
           /\ Head(rbuf).req = Len(kinds) /\ Head(rbuf).part = "head"
           /\ Len(kinds) \in Nat /\ cur \in Nat /\ Len(kinds) = cur + 1
           /\ cur' = Len(kinds)
<1>1. Alive /\ pc = "line" /\ rbuf # <<>>
  BY DEF Alive, TakeHead, Flags
<1>2. Pending
  BY <1>1 DEF InTurn, OwnBody
<1>3. Stream[1] = Head(rbuf)
  BY <1>1, KindsTyped, TakeFromConcat DEF Types, Stream
<1>4. Head(rbuf) = HeadToken(Len(kinds), "head")
  BY <1>1, <1>2, <1>3 DEF HeadWaits, Fresh
<1>5. Head(rbuf).req = Len(kinds) /\ Head(rbuf).part = "head"
  BY <1>4 DEF HeadToken
<1> QED
  BY <1>1, <1>2, <1>4, <1>5, KindsTyped DEF TakeHead, Pending, Types, Scalars

\* The other steps leave requests and responses alone, and revive nothing.
LEMMA Quiet ==
    ASSUME InTurn, UNCHANGED <<kinds, cur, sent>>,
           pc' \in Processing <=> pc \in Processing, Alive' => Alive
    PROVE  InTurn'
<1>1. UpTo(cur)' /\ FinalOnce' /\ (FinalBelow(cur) => FinalBelow(cur)')
  BY DEF InTurn, UpTo, FinalOnce, FinalBelow, Final
<1>2. \A i \in 1 .. cur : Answered(i) => Answered(i)'
  BY DEF Answered, Final
<1>3. Taken' = Taken /\ Pending' = Pending
  BY DEF Taken, Pending
<1> QED
  BY <1>1, <1>2, <1>3 DEF InTurn

\* Requests are taken and answered one by one.
LEMMA NextInTurn ==
    "417" \notin ExpectStatuses
    => (Types /\ Flags /\ InTurn /\ HeadWaits /\ OwnBody /\ [Next]_vars => InTurn')
<1> SUFFICES ASSUME "417" \notin ExpectStatuses,
                    Types, Flags, InTurn, HeadWaits, OwnBody, [Next]_vars
             PROVE  InTurn'
  OBVIOUS
<1>0. Scalars /\ Len(kinds) \in Nat /\ cur \in Nat /\ cur <= Len(kinds)
  BY KindsTyped DEF Types, Scalars
<1> USE DEF client
<1>1. ASSUME NEW k \in Kinds, SendRequest(k) PROVE InTurn'
  <2>1. /\ Len(kinds') = Len(kinds) + 1 /\ cur' = cur /\ pc' = pc /\ sent' = sent
        /\ Alive' = Alive
    BY <1>1, SendFlow DEF SendRequest, Alive
  <2>2. Taken /\ pc \notin Processing
    <3>1. CASE kinds = <<>>
      BY <1>0, <3>1, EmptySeq DEF Taken, Pending, InTurn, Scalars, Processing
    <3>2. CASE kinds # <<>>
      <4>1. PICK m \in DOMAIN sent : sent[m].req = Len(kinds) /\ Final(sent[m])
        BY <1>1, <3>2 DEF SendRequest, Answered
      <4> QED
        BY <1>0, <4>1 DEF InTurn, UpTo, FinalBelow, Taken, Pending
    <3> QED
      BY <3>1, <3>2
  <2>3. Pending' /\ pc' \notin Processing
    BY <1>0, <2>1, <2>2 DEF Taken, Pending
  <2> QED
    BY <2>1, <2>2, <2>3 DEF InTurn, UpTo, FinalOnce, Answered, Final
<1>2. CASE SendMore
  BY <1>2, Quiet
     DEF SendMore, Flags, Processing, Alive
<1>3. CASE ClientCloses
  BY <1>3, Quiet
     DEF ClientCloses, Flags, Processing, Alive
<1>4. CASE KeepAliveEnds
  BY <1>4, Quiet
     DEF KeepAliveEnds, Flags, Processing, Alive
<1>5. CASE Recv
  BY <1>5, Quiet
     DEF Recv, Flags, Processing, Alive
<1>6. CASE KeepAliveReady
  BY <1>6, Quiet
     DEF KeepAliveReady, Flags, Processing, Alive
<1>7. CASE RequestDone
  BY <1>7, Quiet
     DEF RequestDone, Flags, Processing, Alive
<1>8. CASE NoRequest
  BY <1>8, Quiet
     DEF NoRequest, Flags, Processing, Alive
<1>9. CASE BadRequest
  <2>1. /\ Pending /\ Alive /\ Head(rbuf).req = Len(kinds) /\ Len(kinds) = cur + 1
        /\ cur' = Len(kinds) /\ pc = "line" /\ pc' = "done" /\ kinds' = kinds
    BY <1>9, HeadIsNext DEF BadRequest, TakeHead, client
  <2>2. UpTo(Len(kinds)) /\ FinalBelow(Len(kinds)) /\ FinalOnce
    BY <1>0, <2>1, SentTyped DEF InTurn, UpTo, FinalBelow
  <2>3. Taken'
    BY <2>1 DEF Taken
  <2>4. CASE sent' = sent /\ ~ret'
    <3>1. ~Alive'
      BY <2>1, <2>4 DEF Alive
    <3> QED
      BY <2>1, <2>2, <2>3, <2>4, <3>1 DEF InTurn, Processing, UpTo, FinalOnce, Final
  <2>5. CASE Writes([req |-> Len(kinds), status |-> "error", close |-> TRUE])
    <3>1. /\ UpTo(Len(kinds))' /\ FinalOnce'
          /\ \A j \in Nat : Answered(j) => Answered(j)'
          /\ Answered(Len(kinds))'
      <4>1. PICK n \in Nat : n = Len(kinds)
        BY <1>0
      <4>2. UpTo(n) /\ FinalBelow(n)
        BY <2>2, <4>1
      <4> QED
        BY <2>1, <2>2, <2>5, <4>1, <4>2, WritesInTurn DEF UpTo, Answered
    <3>2. UpTo(cur)'
      BY <2>1, <3>1 DEF UpTo
    <3>3. \A i \in 1 .. cur' : Answered(i)'
      <4> SUFFICES ASSUME NEW i \in 1 .. Len(kinds) PROVE Answered(i)'
        BY <2>1
      <4>1. CASE i = Len(kinds)
        BY <2>1, <3>1, <4>1 DEF Answered
      <4>2. CASE i # Len(kinds)
        <5>1. i \in 1 .. cur
          BY <1>0, <2>1, <4>2
        <5> QED
          BY <1>0, <2>1, <3>1, <5>1 DEF InTurn, Processing
      <4> QED
        BY <4>1, <4>2
    <3> QED
      BY <2>1, <2>3, <3>1, <3>2, <3>3 DEF InTurn, Processing
  <2> QED
    BY <1>9, <2>1, <2>4, <2>5, HandlerWrites
<1>10. CASE RefuseRequest
  <2>1. /\ Pending /\ Alive /\ Head(rbuf).req = Len(kinds) /\ Len(kinds) = cur + 1
        /\ cur' = Len(kinds) /\ pc = "line" /\ pc' = "done" /\ kinds' = kinds
    BY <1>10, HeadIsNext DEF RefuseRequest, TakeHead, client
  <2>2. UpTo(Len(kinds)) /\ FinalBelow(Len(kinds)) /\ FinalOnce
    BY <1>0, <2>1, SentTyped DEF InTurn, UpTo, FinalBelow
  <2>3. Taken'
    BY <2>1 DEF Taken
  <2>4. CASE sent' = sent /\ ~ret'
    <3>1. ~Alive'
      BY <2>1, <2>4 DEF Alive
    <3> QED
      BY <2>1, <2>2, <2>3, <2>4, <3>1 DEF InTurn, Processing, UpTo, FinalOnce, Final
  <2>5. CASE Writes([req |-> Len(kinds), status |-> "error", close |-> TRUE])
    <3>1. /\ UpTo(Len(kinds))' /\ FinalOnce'
          /\ \A j \in Nat : Answered(j) => Answered(j)'
          /\ Answered(Len(kinds))'
      <4>1. PICK n \in Nat : n = Len(kinds)
        BY <1>0
      <4>2. UpTo(n) /\ FinalBelow(n)
        BY <2>2, <4>1
      <4> QED
        BY <2>1, <2>2, <2>5, <4>1, <4>2, WritesInTurn DEF UpTo, Answered
    <3>2. UpTo(cur)'
      BY <2>1, <3>1 DEF UpTo
    <3>3. \A i \in 1 .. cur' : Answered(i)'
      <4> SUFFICES ASSUME NEW i \in 1 .. Len(kinds) PROVE Answered(i)'
        BY <2>1
      <4>1. CASE i = Len(kinds)
        BY <2>1, <3>1, <4>1 DEF Answered
      <4>2. CASE i # Len(kinds)
        <5>1. i \in 1 .. cur
          BY <1>0, <2>1, <4>2
        <5> QED
          BY <1>0, <2>1, <3>1, <5>1 DEF InTurn, Processing
      <4> QED
        BY <4>1, <4>2
    <3> QED
      BY <2>1, <2>3, <3>1, <3>2, <3>3 DEF InTurn, Processing
  <2> QED
    BY <1>10, <2>1, <2>4, <2>5, HandlerWrites
<1>11. CASE ParseRequest
  <2>1. /\ Pending /\ Alive /\ Head(rbuf).req = Len(kinds) /\ Len(kinds) = cur + 1
        /\ cur' = Len(kinds) /\ pc = "line" /\ pc' \in Processing /\ kinds' = kinds
        /\ sent' = sent
    BY <1>11, HeadIsNext DEF ParseRequest, TakeHead, client, Processing
  <2>2. UpTo(cur)' /\ FinalBelow(cur)' /\ FinalOnce'
    BY <1>0, <2>1, SentTyped DEF InTurn, UpTo, FinalBelow, FinalOnce, Final
  <2>3. Taken'
    BY <2>1 DEF Taken
  <2>4. \A i \in 1 .. cur' : Answered(i)' \/ (i = cur' /\ pc' \in Processing)
    <3> SUFFICES ASSUME NEW i \in 1 .. Len(kinds), i # Len(kinds) PROVE Answered(i)'
      BY <2>1
    <3>1. i \in 1 .. cur
      BY <1>0, <2>1
    <3>2. Answered(i)
      BY <2>1, <3>1 DEF InTurn, Processing
    <3> QED
      BY <2>1, <3>2 DEF Answered, Final
  <2> QED
    BY <2>1, <2>2, <2>3, <2>4 DEF InTurn
<1>12. ASSUME NEW s \in ExpectStatuses, Expect(s) PROVE InTurn'
  <2>1. /\ Taken /\ Len(kinds) = cur /\ cur' = cur /\ kinds' = kinds
        /\ UpTo(cur) /\ FinalBelow(cur) /\ FinalOnce
        /\ s # "417"
    BY <1>12 DEF Expect, InTurn, Taken, Pending, Processing, client
  <2>2. Taken'
    BY <2>1 DEF Taken
  <2>3. CASE s = "100"
    <3>1. pc' \in Processing /\ pc \in Processing /\ (Alive' => Alive)
      BY <1>12, <2>3 DEF Expect, Processing, Alive
    <3>2. Writes([req |-> cur, status |-> "100", close |-> FALSE])
      <4>1. sent' = Append(sent, [req |-> cur, status |-> "100", close |-> FALSE])
        BY <1>12, <2>3 DEF Expect
      <4>2. cur \in 1 .. Len(kinds)
        BY <3>1, KindTyped
      <4> QED
        BY <4>1, <4>2, AppendWrites DEF Statuses
    <3>3. /\ UpTo(cur)' /\ FinalOnce' /\ FinalBelow(cur)'
          /\ \A j \in Nat : Answered(j) => Answered(j)'
      <4>1. PICK n \in Nat : n = cur
        BY <1>0
      <4> QED
        BY <2>1, <3>2, <4>1, WritesInTurn DEF UpTo, FinalBelow
    <3>4. Alive' => \A i \in 1 .. cur' : Answered(i)' \/ (i = cur' /\ pc' \in Processing)
      BY <1>0, <2>1, <3>1, <3>3 DEF InTurn
    <3> QED
      BY <2>1, <2>2, <3>1, <3>3, <3>4 DEF InTurn
  <2>4. CASE s = "other"
    <3>1. pc' = "done" /\ connection_closed' /\ ~Alive'
      BY <1>12, <2>4 DEF Expect, Alive
    <3>2. CASE sent' = sent
      BY <2>1, <2>2, <3>1, <3>2 DEF InTurn, Processing, UpTo, FinalOnce, Final
    <3>3. ASSUME NEW t, NEW c, Writes([req |-> cur, status |-> t, close |-> c])
          PROVE  InTurn'
      <4>1. PICK n \in Nat : n = cur
        BY <1>0
      <4>2. UpTo(cur)' /\ FinalOnce'
        BY <2>1, <3>3, <4>1, WritesInTurn DEF UpTo
      <4> QED
        BY <2>1, <2>2, <3>1, <4>2 DEF InTurn, Processing
    <3> QED
      BY <1>12, <3>2, <3>3, HandlerWrites
  <2> QED
    BY <1>12, <2>1, <2>3, <2>4 DEF Expect
<1>13. CASE UpgradeHandled
  <2>1. /\ Taken /\ Len(kinds) = cur /\ cur' = cur /\ kinds' = kinds
        /\ UpTo(cur) /\ FinalBelow(cur) /\ FinalOnce /\ pc' = "done"
        /\ Alive' => /\ ret' /\ \A i \in 1 .. cur : Answered(i) \/ i = cur
    BY <1>13 DEF UpgradeHandled, InTurn, Taken, Pending, Processing, client, Alive
  <2>2. CASE sent' = sent /\ ~ret'
    <3>1. Taken' /\ pc' \notin Processing /\ UpTo(cur)' /\ FinalOnce'
      BY <2>1, <2>2 DEF Taken, Processing, UpTo, FinalOnce, Final
    <3> QED
      BY <2>1, <2>2, <3>1 DEF InTurn
  <2>3. ASSUME NEW s \in {"ok", "error", "refused"}, NEW c \in BOOLEAN,
               Writes([req |-> cur, status |-> s, close |-> c])
        PROVE  InTurn'
    <3>1. /\ UpTo(cur)' /\ FinalOnce'
          /\ \A j \in Nat : Answered(j) => Answered(j)'
          /\ Answered(cur)'
      <4>1. UpTo(cur) /\ FinalBelow(cur) /\ FinalOnce /\ s \notin {"100", "101"}
        BY <2>1
      <4>2. PICK n \in Nat : n = cur
        BY <1>0
      <4> QED
        BY <1>0, <2>1, <2>3, <4>1, <4>2, WritesInTurn DEF UpTo, Answered
    <3>2. Alive' => \A i \in 1 .. cur' : Answered(i)'
      BY <1>0, <2>1, <3>1
    <3> QED
      BY <2>1, <3>1, <3>2 DEF InTurn, Taken, Processing
  <2> QED
    BY <1>13, <2>2, <2>3, HandlerWrites
<1>14. CASE Upgrade
  <2>1. /\ Taken /\ Len(kinds) = cur /\ cur' = cur /\ kinds' = kinds
        /\ UpTo(cur) /\ FinalBelow(cur) /\ FinalOnce
        /\ pc' = "done" /\ ~Alive'
    BY <1>14 DEF Upgrade, InTurn, Taken, Pending, Processing, client, Alive
  <2>2. Taken'
    BY <2>1 DEF Taken
  <2>3. CASE sent' = sent
    BY <2>1, <2>2, <2>3 DEF InTurn, Processing, UpTo, FinalOnce, Final
  <2>4. CASE Writes([req |-> cur, status |-> "101", close |-> FALSE])
    <3>1. PICK n \in Nat : n = cur
      BY <1>0
    <3>2. UpTo(cur)' /\ FinalOnce'
      BY <2>1, <2>4, <3>1, WritesInTurn DEF UpTo
    <3> QED
      BY <2>1, <2>2, <3>2 DEF InTurn, Processing
  <2> QED
    BY <1>14, <2>3, <2>4, HandlerWrites
<1>15. CASE UpgradeFallsThrough
  BY <1>15, Quiet
     DEF UpgradeFallsThrough, Flags, Processing, Alive
<1>16. CASE RouteWithoutBody
  BY <1>16, Quiet
     DEF RouteWithoutBody, Flags, Processing, Alive
<1>17. CASE BeginRead
  BY <1>17, Quiet
     DEF BeginRead, Flags, Processing, Alive
<1>18. CASE ReadUnit
  BY <1>18, Quiet
     DEF ReadUnit, Flags, Processing, Alive
<1>19. CASE ReadDone
  BY <1>19, Quiet
     DEF ReadDone, Flags, Processing, Alive
<1>20. CASE ReadFails
  BY <1>20, Quiet
     DEF ReadFails, Flags, Processing, Alive
<1>25. CASE ReadRefused
  BY <1>25, Quiet
     DEF ReadRefused, Flags, Processing, Alive
<1>21. CASE WriteResponse
  <2>1. /\ Taken /\ Len(kinds) = cur /\ cur' = cur /\ kinds' = kinds
        /\ UpTo(cur) /\ FinalBelow(cur) /\ FinalOnce /\ pc' \in {"drain", "done"}
        /\ Alive' => /\ ret' /\ \A i \in 1 .. cur : Answered(i) \/ i = cur
    BY <1>21 DEF WriteResponse, InTurn, Taken, Pending, Processing, client, Alive
  <2>2. CASE sent' = sent /\ ~ret'
    <3>1. Taken' /\ pc' \notin Processing /\ UpTo(cur)' /\ FinalOnce'
      BY <2>1, <2>2 DEF Taken, Processing, UpTo, FinalOnce, Final
    <3> QED
      BY <2>1, <2>2, <3>1 DEF InTurn
  <2>3. ASSUME NEW s \in {"ok", "error", "refused"}, NEW c \in BOOLEAN,
               Writes([req |-> cur, status |-> s, close |-> c])
        PROVE  InTurn'
    <3>1. /\ UpTo(cur)' /\ FinalOnce'
          /\ \A j \in Nat : Answered(j) => Answered(j)'
          /\ Answered(cur)'
      <4>1. UpTo(cur) /\ FinalBelow(cur) /\ FinalOnce /\ s \notin {"100", "101"}
        BY <2>1
      <4>2. PICK n \in Nat : n = cur
        BY <1>0
      <4> QED
        BY <1>0, <2>1, <2>3, <4>1, <4>2, WritesInTurn DEF UpTo, Answered
    <3>2. Alive' => \A i \in 1 .. cur' : Answered(i)'
      BY <1>0, <2>1, <3>1
    <3> QED
      BY <2>1, <3>1, <3>2 DEF InTurn, Taken, Processing
  <2> QED
    BY <1>21, <2>2, <2>3, HandlerWrites
<1>22. CASE DrainDone
  BY <1>22, Quiet
     DEF DrainDone, Flags, Processing, Alive
<1>23. CASE DrainFails
  BY <1>23, Quiet
     DEF DrainFails, Flags, Processing, Alive
<1>24. CASE UNCHANGED vars
  BY <1>24, Quiet DEF vars, Alive
<1> QED
  BY <1>1, <1>2, <1>3, <1>4, <1>5, <1>6, <1>7, <1>8, <1>9, <1>10, <1>11, <1>12,
     <1>13, <1>14, <1>15, <1>16, <1>17, <1>18, <1>19, <1>20, <1>21, <1>22, <1>23,
     <1>24, <1>25
  DEF Next, ServerStep

-----------------------------------------------------------------------------
(* What is on the connection *)

\* As long as no request is sent, what depends on the requests only is the same.
LEMMA SameKinds ==
    ASSUME UNCHANGED kinds
    PROVE  /\ Newest' = Newest
           /\ Whole(Len(kinds))' <=> Whole(Len(kinds))
           /\ SentToken' = SentToken
           /\ cur' = cur => /\ Kind' = Kind /\ (Whole(cur)' <=> Whole(cur))
                            /\ (Taken' <=> Taken) /\ (Pending' <=> Pending)
BY DEF Newest, Whole, AllWhole, SentToken, Kind, Taken, Pending

\* No response is taken back.
LEMMA SentGrows ==
    ASSUME Types, [Next]_vars
    PROVE  \A m \in DOMAIN sent : m \in DOMAIN sent' /\ sent'[m] = sent[m]
<1>1. Len(sent) \in Nat /\ DOMAIN sent = 1 .. Len(sent)
  BY SentTyped
<1>2. \/ sent' = sent
      \/ BadRequest \/ RefuseRequest \/ UpgradeHandled \/ WriteResponse \/ Upgrade
      \/ \E s \in ExpectStatuses : Expect(s)
  BY DEF Next, ServerStep, vars, SendRequest, SendMore, ClientCloses, Recv,
     KeepAliveReady, KeepAliveEnds, RequestDone, NoRequest, ParseRequest,
     UpgradeFallsThrough, RouteWithoutBody, BeginRead, ReadRefused, ReadUnit, ReadDone,
     ReadFails, DrainDone, DrainFails
<1>3. sent' = sent \/ \E response : Writes(response)
  <2>1. CASE BadRequest \/ RefuseRequest
    BY <2>1, HandlerWrites, Zenon
  <2>2. CASE UpgradeHandled \/ WriteResponse
    BY <2>2, HandlerWrites, Zenon
  <2>3. ASSUME NEW s \in ExpectStatuses, Expect(s)
        PROVE  sent' = sent \/ \E response : Writes(response)
    BY <2>3, HandlerWrites, Zenon
  <2>4. CASE Upgrade
    BY <2>4, HandlerWrites, Zenon
  <2> QED
    BY <1>2, <2>1, <2>2, <2>3, <2>4
<1>4. CASE sent' = sent
  BY <1>4
<1>5. CASE \E response : Writes(response)
  <2>1. PICK response : Writes(response)
    BY <1>5
  <2> QED
    BY <1>1, <2>1 DEF Writes
<1> QED
  BY <1>3, <1>4, <1>5

\* Only sending a request adds one, and none that leaves the others less in order.
LEMMA OrderlyBefore ==
    ASSUME Types, [Next]_vars, Orderly'
    PROVE  Orderly
<1>1. kinds' = kinds \/ \E k \in Kinds : SendRequest(k)
  BY DEF Next, ServerStep, vars, client, SendMore, ClientCloses, Recv, KeepAliveReady,
     KeepAliveEnds, RequestDone, NoRequest, BadRequest, RefuseRequest, ParseRequest,
     TakeHead, Expect, UpgradeHandled, Upgrade, UpgradeFallsThrough, RouteWithoutBody,
     BeginRead, ReadRefused, ReadUnit, ReadDone, ReadFails, WriteResponse, DrainDone,
     DrainFails
<1>2. kinds \in Seq(Kinds) /\ Len(kinds) \in Nat /\ DOMAIN kinds = 1 .. Len(kinds)
  BY LenProperties DEF Types, Scalars
<1>3. /\ Len(kinds') \in Nat /\ Len(kinds) <= Len(kinds')
      /\ DOMAIN kinds' = 1 .. Len(kinds')
      /\ \A j \in 1 .. Len(kinds) : kinds'[j] = kinds[j]
  <2>1. CASE kinds' = kinds
    BY <1>2, <2>1
  <2>2. ASSUME NEW k \in Kinds, SendRequest(k)
        PROVE  /\ Len(kinds') = Len(kinds) + 1 /\ DOMAIN kinds' = 1 .. Len(kinds')
               /\ \A j \in 1 .. Len(kinds) : kinds'[j] = kinds[j]
    BY <2>2, SendFlow, LenProperties
  <2> QED
    BY <1>1, <1>2, <2>1, <2>2
<1>4. ASSUME NEW i \in 1 .. Len(kinds) PROVE AllWhole(i)' <=> AllWhole(i)
  BY <1>2, <1>3 DEF AllWhole
<1>5. ASSUME NEW i \in 1 .. Len(kinds) - 1 PROVE Careful(i)
  <2>1. i \in 1 .. Len(kinds') - 1 /\ i \in 1 .. Len(kinds)
    BY <1>2, <1>3
  <2>2. Careful(i)'
    BY <2>1 DEF Orderly
  <2> QED
    BY <1>3, <1>4, <2>1, <2>2 DEF Careful
<1>6. ASSUME NEW i \in DOMAIN kinds PROVE ~Misread(i)
  <2>1. i \in DOMAIN kinds' /\ kinds'[i] = kinds[i]
    BY <1>2, <1>3
  <2>2. ~Misread(i)'
    BY <2>1 DEF Orderly
  <2> QED
    BY <2>1, <2>2, SentGrows DEF Misread
<1>7. ASSUME NEW i \in DOMAIN kinds, Undrained(kinds[i])
      PROVE  AllWhole(i) /\ ~kinds[i].expect
  <2>1. i \in DOMAIN kinds' /\ i \in 1 .. Len(kinds) /\ kinds'[i] = kinds[i]
    BY <1>2, <1>3
  <2>2. AllWhole(i)' /\ ~kinds'[i].expect
    BY <1>7, <2>1 DEF Orderly
  <2> QED
    BY <1>4, <2>1, <2>2
<1> QED
  BY <1>5, <1>6, <1>7 DEF Orderly

\* How much there is on the connection.
LEMMA StreamLength ==
    ASSUME Types
    PROVE  /\ Len(rbuf) \in Nat /\ Len(wire) \in Nat /\ Len(tosend) \in Nat
           /\ Len(Stream) = Len(rbuf) + (Len(wire) + Len(tosend))
           /\ Len(rbuf) = 0 <=> rbuf = <<>>
           /\ Len(wire) = 0 <=> wire = <<>>
           /\ Len(tosend) = 0 <=> tosend = <<>>
<1>1. /\ rbuf \in Seq(SentToken) /\ wire \in Seq(SentToken) /\ tosend \in Seq(SentToken)
      /\ Out \in Seq(SentToken)
  BY KindsTyped DEF Types
<1>2. Len(Out) = Len(wire) + Len(tosend)
  BY <1>1, ConcatProperties DEF Out
<1>3. Len(Stream) = Len(rbuf) + Len(Out)
  BY <1>1, ConcatProperties DEF Stream
<1>4. ASSUME NEW s \in Seq(SentToken) PROVE Len(s) \in Nat /\ (Len(s) = 0 <=> s = <<>>)
  BY EmptySeq, LenProperties
<1> QED
  BY <1>1, <1>2, <1>3, <1>4

\* Nothing is left of a body that may not be longer.
LEMMA NothingLeft ==
    ASSUME Types
    PROVE  /\ Len(Stream) <= 0 => rbuf = <<>> /\ wire = <<>> /\ tosend = <<>>
           /\ Len(Stream) = 1 /\ rbuf # <<>> => wire = <<>> /\ tosend = <<>>
<1> DEFINE r == Len(rbuf)
           w == Len(wire)
           t == Len(tosend)
           all == Len(Stream)
<1>1. /\ r \in Nat /\ w \in Nat /\ t \in Nat
      /\ all = r + (w + t)
      /\ r = 0 <=> rbuf = <<>>
      /\ w = 0 <=> wire = <<>>
      /\ t = 0 <=> tosend = <<>>
  BY StreamLength
<1> HIDE DEF r, w, t, all
<1>2. all <= 0 => r = 0 /\ w = 0 /\ t = 0
  BY <1>1
<1>3. all = 1 /\ r # 0 => w = 0 /\ t = 0
  BY <1>1
<1> QED
  BY <1>1, <1>2, <1>3 DEF all

\* Of a request without a framed body nothing is left.
LEMMA Unframed ==
    ASSUME Types, Flags, Orderly, OwnBody, Taken, Alive,
           pc \in {"upgrade", "respond", "refuse"}, ~Framed(Kind)
    PROVE  wire = <<>> /\ tosend = <<>>
<1>1. /\ cur \in 1 .. Len(kinds) /\ Kind \in KindType /\ Kind \in Kinds
      /\ pc \in Processing
  BY KindTyped DEF Processing
<1>2. Kind.framing \in {"none", "badLength", "other"}
  BY <1>1 DEF KindType, Framed, Flags
<1>3. CASE Kind.framing = "none"
  <2>1. Kind.body = <<>>
    BY <1>1, <1>3, ConnectionAssumption
  <2>2. Start(Kind).left = 0 /\ Left = Start(Kind)
    BY <1>1, <1>3, <2>1, StartState, EmptySeq DEF Left
  <2>3. Within(Stream, Kind, Left)
    BY <1>1, <1>3 DEF OwnBody
  <2>4. Len(Stream) <= 0
    BY <1>3, <2>2, <2>3 DEF Within
  <2> QED
    BY <2>4, NothingLeft
<1>4. CASE Kind.framing \in {"badLength", "other"}
  <2>1. cur \in DOMAIN kinds /\ Undrained(kinds[cur])
    BY <1>1, <1>4, LenProperties DEF Undrained, Kind, Types, Scalars
  <2>2. Whole(cur)
    BY <2>1 DEF Orderly, Whole
  <2> QED
    BY <2>2 DEF OwnBody
<1> QED
  BY <1>2, <1>3, <1>4

\* A unit less is left of a length.
LEMMA LengthRead ==
    ASSUME Types, ReadUnit, Kind.framing = "length", Counting(dec, Kind)
    PROVE  dec.left \in Nat \ {0} /\ dec'.left = dec.left - 1
<1>1. dec \in State /\ dec.left \in Nat
  BY DEF Types, Scalars, State
<1>2. dec.at = "length" /\ dec.left > 0 /\ dec' = Counted(dec, "done")
  BY UnitTaken DEF Counting, ReadUnit
<1> QED
  BY <1>1, <1>2, CountedState

\* Taking a unit leaves what the reader may find from there on.
LEMMA WithinTail ==
    ASSUME Types, ReadUnit, Framed(Kind), Within(Stream, Kind, dec),
           Kind.framing = "length" => Counting(dec, Kind)
    PROVE  Within(Stream', Kind, dec')
<1>1. /\ rbuf # <<>> /\ Stream # <<>> /\ Stream[1] = Head(rbuf)
      /\ Stream' = Tail(Stream) /\ Stream \in Seq(SentToken)
  BY TakeFlow, KindsTyped DEF ReadUnit, client
<1>2. /\ Head(Stream) = Head(rbuf) /\ Len(Stream') = Len(Stream) - 1
      /\ Len(Stream) \in Nat \ {0}
  BY <1>1, TakeFirst
<1>3. CASE Kind.framing = "chunked"
  <2>1. Follows(Stream, dec)
    BY <1>3 DEF Within
  <2>2. Follows(Tail(Stream), After(dec, Head(Stream)))
    BY <1>1, <2>1, FollowsTail
  <2>3. Follows(Stream', dec')
    BY <1>1, <1>2, <2>2, UnitTaken
  <2> QED
    BY <1>3, <2>3 DEF Within
<1>4. CASE Kind.framing = "length"
  <2>1. dec.left \in Nat \ {0} /\ dec'.left = dec.left - 1
    BY <1>4, LengthRead
  <2>2. Len(Stream) <= dec.left
    BY <1>4 DEF Within
  <2>3. Len(Stream') <= dec'.left
    BY <1>2, <2>1, <2>2
  <2> QED
    BY <1>4, <2>3 DEF Within
<1> QED
  BY <1>3, <1>4 DEF Framed

\* When the body was read whole, nothing of the request is left.
LEMMA ReadWhole ==
    ASSUME Types, BodyRead, UNCHANGED <<wire, tosend>>, Framed(Kind),
           dec.at # "close", Within(Stream, Kind, dec),
           Kind.framing = "length" => Counting(dec, Kind)
    PROVE  /\ wire = <<>> /\ tosend = <<>>
           /\ \A d \in State : Within(Stream', Kind, d)
<1>1. dec.at = "done" /\ rbuf' = rbuf /\ Stream' = Stream
  BY DEF BodyRead, Stream, Out
<1>2. Stream \in Seq(SentToken) /\ Len(Stream) \in Nat
  BY KindsTyped, LenProperties
<1>3. Len(Stream) <= 0
  <2>1. CASE Kind.framing = "chunked"
    <3>1. Follows(Stream, dec)
      BY <2>1 DEF Within
    <3>2. Stream = <<>>
      BY <1>1, <1>2, <3>1, FollowsNothing
    <3> QED
      BY <3>2, EmptySeq
  <2>2. CASE Kind.framing = "length"
    <3>1. dec.left = 0
      BY <1>1, <2>2 DEF Counting
    <3> QED
      BY <2>2, <3>1 DEF Within
  <2> QED
    BY <2>1, <2>2 DEF Framed
<1>4. wire = <<>> /\ tosend = <<>>
  BY <1>3, NothingLeft
<1>5. ASSUME NEW d \in State PROVE Within(Stream', Kind, d)
  <2>1. Stream = <<>> /\ d.left \in Nat
    BY <1>2, <1>3, EmptySeq DEF State
  <2>2. Follows(Stream, d)
    BY <2>1, FollowsNothing
  <2>3. Len(Stream) <= d.left
    BY <1>2, <1>3, <2>1
  <2> QED
    BY <1>1, <2>2, <2>3 DEF Within
<1> QED
  BY <1>4, <1>5

\* Taking a unit of a body that is in the buffer as a whole.
LEMMA ExactlyTail ==
    ASSUME Types, ReadUnit, Framed(Kind), Exactly(rbuf, Kind, dec),
           Kind.framing = "length" => Counting(dec, Kind)
    PROVE  Exactly(rbuf', Kind, dec')
<1>1. /\ rbuf # <<>> /\ rbuf' = Tail(rbuf) /\ UNCHANGED <<wire, tosend>>
      /\ rbuf \in Seq(SentToken)
  BY DEF ReadUnit, client, Types
<1>2. Len(rbuf) \in Nat \ {0} /\ Len(rbuf') = Len(rbuf) - 1
  BY <1>1, TakeFlow
<1>3. CASE Kind.framing = "chunked"
  <2>1. Follows(rbuf, dec) /\ Ends(rbuf)
    BY <1>1, <1>3 DEF Exactly
  <2>2. /\ Follows(Tail(rbuf), After(dec, Head(rbuf)))
        /\ IF Tail(rbuf) = <<>> THEN After(dec, Head(rbuf)).at = "done"
                                ELSE Ends(Tail(rbuf))
    BY <1>1, <2>1, FollowsTail
  <2>3. Follows(rbuf', dec') /\ (IF rbuf' = <<>> THEN dec'.at = "done" ELSE Ends(rbuf'))
    BY <1>1, <2>2, UnitTaken
  <2> QED
    BY <1>3, <2>3 DEF Exactly
<1>4. CASE Kind.framing = "length"
  <2>1. dec'.left = dec.left - 1 /\ Len(rbuf) = dec.left
    BY <1>4, LengthRead DEF Exactly
  <2>2. Len(rbuf') = dec'.left
    BY <1>2, <2>1
  <2> QED
    BY <1>4, <2>2 DEF Exactly
<1> QED
  BY <1>3, <1>4 DEF Framed

\* When the client goes away, what it has not sent never comes.
LEMMA CloseFlow ==
    ASSUME Types, ClientCloses
    PROVE  /\ Out' = wire /\ Stream' = rbuf \o wire
           /\ \A d : Follows(Stream, d) => Follows(Stream', d)
           /\ Len(Out') <= Len(Out) /\ Len(Stream') <= Len(Stream)
           /\ Len(Out) \in Nat /\ Len(Stream) \in Nat
           /\ Len(Out') \in Nat /\ Len(Stream') \in Nat
           /\ wire # <<>> =>
                 /\ Out' # <<>> /\ Out'[1] = Out[1]
                 /\ \A d : Follows(Tail(Out), d) => Follows(Tail(Out'), d)
           /\ rbuf # <<>> \/ wire # <<>> =>
                 /\ Stream' # <<>> /\ Stream'[1] = Stream[1]
                 /\ \A d : Follows(Tail(Stream), d) => Follows(Tail(Stream'), d)
<1> DEFINE u == rbuf \o wire
<1>1. /\ rbuf \in Seq(SentToken) /\ wire \in Seq(SentToken) /\ tosend \in Seq(SentToken)
      /\ u \in Seq(SentToken)
  BY ConcatProperties DEF Types
<1>2. Out' = wire /\ Stream' = u
  BY <1>1, ConcatEmptySeq DEF ClientCloses, Out, Stream
<1>3. Out = wire \o tosend /\ Stream = u \o tosend
  BY <1>1, ConcatAssociative DEF Out, Stream
<1> HIDE DEF u
<1>4. ASSUME NEW s \in Seq(SentToken)
      PROVE  /\ \A d : Follows(s \o tosend, d) => Follows(s, d)
             /\ Len(s) <= Len(s \o tosend)
             /\ Len(s) \in Nat /\ Len(s \o tosend) \in Nat
             /\ s # <<>> => /\ (s \o tosend)[1] = s[1]
                            /\ \A d : Follows(Tail(s \o tosend), d) => Follows(Tail(s), d)
  <2>1. \A d : Follows(s \o tosend, d) => Follows(s, d)
    BY <1>1, FollowsPrefix
  <2>2. /\ Len(s \o tosend) = Len(s) + Len(tosend)
        /\ Len(s) \in Nat /\ Len(tosend) \in Nat
    BY <1>1, ConcatProperties, LenProperties
  <2>3. ASSUME s # <<>>
        PROVE  /\ (s \o tosend)[1] = s[1]
               /\ \A d : Follows(Tail(s \o tosend), d) => Follows(Tail(s), d)
    <3>1. /\ (s \o tosend)[1] = s[1] /\ Tail(s) \in Seq(SentToken)
          /\ Tail(s \o tosend) = Tail(s) \o tosend
      BY <1>1, <2>3, TakeFromConcat, TakeFirst
    <3> QED
      BY <1>1, <3>1, FollowsPrefix
  <2> QED
    BY <2>1, <2>2, <2>3
<1>5. rbuf # <<>> \/ wire # <<>> => u # <<>>
  BY <1>1, ConcatEqualIffEmpty DEF u
<1> QED
  BY <1>1, <1>2, <1>3, <1>4, <1>5 DEF u

\* The client sends a request when the server has taken and answered the others.
LEMMA SendWhen ==
    ASSUME Types, InTurn, NEW k \in Kinds, SendRequest(k)
    PROVE  /\ Taken /\ pc \notin Processing /\ Pending'
           /\ Alive' <=> Alive
           /\ cur' = cur /\ pc' = pc /\ Len(kinds') = Len(kinds) + 1
<1>1. /\ Len(kinds') = Len(kinds) + 1 /\ cur' = cur /\ pc' = pc /\ sent' = sent
      /\ Alive' <=> Alive
  BY SendFlow DEF SendRequest, Alive
<1>2. cur \in Nat /\ cur <= Len(kinds) /\ Len(kinds) \in Nat
      /\ (pc \in Processing => cur >= 1)
  BY KindsTyped DEF Types, Scalars
<1>3. Taken /\ pc \notin Processing
  <2>1. CASE kinds = <<>>
    BY <1>2, <2>1, EmptySeq DEF Taken, Pending, InTurn
  <2>2. CASE kinds # <<>>
    <3>1. PICK m \in DOMAIN sent : sent[m].req = Len(kinds) /\ Final(sent[m])
      BY <2>2 DEF SendRequest, Answered
    <3> QED
      BY <1>2, <3>1 DEF InTurn, UpTo, FinalBelow, Taken, Pending
  <2> QED
    BY <2>1, <2>2
<1> QED
  BY <1>1, <1>2, <1>3 DEF Taken, Pending

\* A request that is drained when the next one comes arrived whole, and its
\* handler has not touched the body.
LEMMA DrainedWhole ==
    ASSUME Types, Flags, InTurn, OwnBody, Alive, NEW k \in Kinds, SendRequest(k),
           Orderly', pc = "drain"
    PROVE  /\ wire = <<>> /\ tosend = <<>>
           /\ Framed(Kind) /\ Exactly(rbuf, Kind, dec)
<1>1. /\ cur \in 1 .. Len(kinds) /\ kinds'[cur] = kinds[cur] /\ Taken
      /\ Len(kinds') = Len(kinds) + 1 /\ Len(kinds) \in Nat /\ cur = Len(kinds)
      /\ \A j \in 1 .. Len(kinds) : kinds'[j] = kinds[j]
  BY KindTyped, KindsTyped, SendWhen, SendFlow DEF Taken
<1>2. cur \in 1 .. Len(kinds') - 1
  BY <1>1
<1>3. Careful(cur)'
  <2>1. PICK n \in Nat : n = cur
    BY <1>1
  <2>2. cur' = cur /\ n \in 1 .. Len(kinds') - 1
    BY <1>2, <2>1 DEF SendRequest
  <2> QED
    BY <2>1, <2>2 DEF Orderly, Careful, AllWhole
<1>4. Framed(Kind) /\ Kind.use # "all"
  BY DEF Flags, Alive, SendRequest
<1>5. kinds'[cur].use = "none" /\ ~kinds'[cur].expect /\ AllWhole(cur)'
  <2>1. cur' = cur /\ kinds'[cur] = Kind
    BY <1>1 DEF SendRequest, Kind
  <2> QED
    BY <1>3, <1>4, <2>1 DEF Careful
<1>6. Kind.use = "none" /\ Whole(cur)
  <2>1. cur' = cur
    BY DEF SendRequest
  <2>2. \A h \in 1 .. cur : ~kinds'[h].split
    BY <1>5, <2>1 DEF AllWhole
  <2>3. \A h \in 1 .. cur : ~kinds[h].split
    BY <1>1, <2>2
  <2> QED
    BY <1>1, <1>5, <2>3 DEF Whole, AllWhole, Kind
<1> QED
  BY <1>1, <1>4, <1>6 DEF OwnBody, Left

\* How many tokens a request has.
LEMMA TotalTyped ==
    ASSUME Types, Len(kinds) \in Nat \ {0}
    PROVE  /\ Newest \in KindType /\ Newest \in Kinds
           /\ Len(Newest.body) \in Nat /\ Total(Newest) \in Nat
           /\ Newest.line # "bad" => Total(Newest) = 1 + Len(Newest.body)
           /\ Newest.framing = "chunked" => Len(Newest.body) # 0
<1>1. Len(kinds) \in 1 .. Len(kinds)
  OBVIOUS
<1>2. Newest \in KindType /\ Newest \in Kinds
  BY <1>1, KindsTyped, ElementOfSeq DEF Newest, Types, Scalars
<1>3. Newest.body \in Seq(Unit) /\ Len(Newest.body) \in Nat
  BY <1>2, LenProperties DEF KindType
<1>4. Total(Newest) \in Nat /\ (Newest.line # "bad" => Total(Newest) = 1 + Len(Newest.body))
  <2>1. /\ Bit(Newest.line = "bad") \in {0, 1}
        /\ Newest.line # "bad" => Bit(Newest.line = "bad") = 0
    BY DEF Bit
  <2> QED
    BY <1>3, <2>1 DEF Total
<1>5. ASSUME Newest.framing = "chunked" PROVE Len(Newest.body) # 0
  <2>1. Newest.body # <<>>
    BY <1>2, <1>5, ConnectionAssumption DEF Ends
  <2> QED
    BY <1>3, <2>1, EmptySeq
<1> QED
  BY <1>2, <1>3, <1>4, <1>5

\* Each step leaves the next request waiting, as a whole, behind what is left of
\* the current one.
LEMMA NextHeadWaits ==
    Types /\ Flags /\ InTurn /\ HeadWaits /\ OwnBody /\ Orderly' /\ [Next]_vars
    => HeadWaits'
<1> SUFFICES ASSUME Types, Flags, InTurn, HeadWaits, OwnBody, Orderly', [Next]_vars,
                    Pending', Alive'
             PROVE  HeadWaits'
  BY DEF HeadWaits
<1>0. /\ Len(kinds) \in Nat /\ cur \in Nat
      /\ rbuf \in Seq(SentToken) /\ wire \in Seq(SentToken) /\ tosend \in Seq(SentToken)
      /\ Out \in Seq(SentToken) /\ Stream \in Seq(SentToken)
  BY KindsTyped DEF Types, Scalars
<1>1. ASSUME NEW k \in Kinds, SendRequest(k) PROVE HeadWaits'
  <2> DEFINE i == Len(kinds) + 1
  <2>1. /\ Taken /\ pc \notin Processing /\ Alive /\ pc' = pc /\ cur' = cur
        /\ rbuf' = rbuf /\ dec' = dec /\ Len(kinds') = i /\ i \in Nat
    <3>1. Taken /\ pc \notin Processing /\ Alive /\ Len(kinds') = i
      BY <1>1, SendWhen
    <3> QED
      BY <1>0, <1>1, <3>1 DEF SendRequest
  <2>2. pc \in {"idle", "line", "done", "drain"}
    BY <2>1 DEF Types, Scalars, Processing, Alive
  <2>3. /\ wire = <<>> /\ tosend = <<>>
        /\ pc = "drain" => Framed(Kind) /\ Exactly(rbuf, Kind, dec)
    BY <1>1, <2>1, <2>2, DrainedWhole DEF OwnBody
  <2>4. /\ wire' # <<>> /\ kinds'[i] = k /\ Out' \in Seq(SentToken')
        /\ Fresh(Out', i, k)
        /\ ~k.split /\ ~k.expect => tosend' = <<>> /\ Complete(wire', k)
    BY <1>1, <2>3, SendFlow
  <2>5. Newest' = k /\ (Whole(Len(kinds))' => ~k.split /\ ~k.expect)
    <3>1. i \in 1 .. i
      BY <2>1
    <3> QED
      BY <2>1, <2>4, <3>1 DEF Newest, Whole, AllWhole
  <2>6. pc = "drain" => Kind' = Kind
    BY <1>1, <2>1, KindTyped, SendFlow DEF Kind
  <2>7. CASE pc = "line"
    <3>1. rbuf = <<>>
      BY <2>1, <2>7 DEF OwnBody
    <3>2. Stream' = Out'
      BY <2>1, <2>4, <3>1, ConcatEmptySeq DEF Stream
    <3> QED
      BY <2>1, <2>4, <2>5, <2>7, <3>1, <3>2 DEF HeadWaits
  <2>8. CASE pc # "line"
    BY <2>1, <2>3, <2>4, <2>5, <2>6, <2>8 DEF HeadWaits
  <2> QED
    BY <2>7, <2>8
<1>2. CASE SendMore
  <2>1. wire' # <<>> /\ Out' = Out /\ Stream' = Stream /\ tosend # <<>>
    BY <1>2, SendMoreFlow DEF SendMore
  <2>2. UNCHANGED <<kinds, cur, pc, rbuf, dec>> /\ Pending /\ Alive
    BY <1>2 DEF SendMore, Pending, Alive
  <2> QED
    BY <2>1, <2>2, SameKinds DEF HeadWaits
<1>3. CASE ClientCloses
  <2>1. /\ Out' = wire /\ Stream' = rbuf \o wire
        /\ wire # <<>> =>
              /\ Out' # <<>> /\ Out'[1] = Out[1]
              /\ \A d : Follows(Tail(Out), d) => Follows(Tail(Out'), d)
        /\ rbuf # <<>> \/ wire # <<>> =>
              /\ Stream' # <<>> /\ Stream'[1] = Stream[1]
              /\ \A d : Follows(Tail(Stream), d) => Follows(Tail(Stream'), d)
    BY <1>3, CloseFlow
  <2>2. \A r \in Nat : /\ Len(Out) <= r => Len(Out') <= r
                       /\ Len(Stream) <= r => Len(Stream') <= r
    BY <1>3, CloseFlow
  <2>3. /\ UNCHANGED <<kinds, cur, pc, rbuf, wire, dec>> /\ tosend' = <<>>
        /\ Pending /\ Alive
    BY <1>3 DEF ClientCloses, Pending, Alive
  <2>4. Total(Newest) \in Nat
    BY <1>0, <2>3, TotalTyped DEF Pending
  <2>5. Fresh(Out, Len(kinds), Newest) /\ wire # <<>>
        => Fresh(Out', Len(kinds), Newest)
    BY <2>1, <2>2, <2>4 DEF Fresh
  <2>6. Fresh(Stream, Len(kinds), Newest) /\ (rbuf # <<>> \/ wire # <<>>)
        => Fresh(Stream', Len(kinds), Newest)
    BY <2>1, <2>2, <2>4 DEF Fresh
  <2> QED
    BY <2>3, <2>5, <2>6, SameKinds DEF HeadWaits
<1>4. CASE Recv
  <2>1. /\ rbuf' # <<>> /\ Stream' = Stream /\ rbuf = <<>> /\ wire # <<>>
        /\ AllWhole(Len(kinds)) => rbuf' = wire /\ wire' = <<>>
        /\ UNCHANGED <<kinds, tosend, cur, pc, dec>>
    BY <1>4, RecvFlow DEF Recv, client
  <2>2. Pending /\ Alive
    BY <1>4, <2>1 DEF Pending, Alive, Recv
  <2>3. pc \in {"line", "drain"} /\ (pc = "drain" => dec.at # "done")
    BY <1>4, <2>2 DEF Recv, Reads, InTurn, Taken, Pending, Processing
  <2>4. pc # "drain"
    <3> SUFFICES ASSUME pc = "drain" PROVE FALSE
      OBVIOUS
    <3>1. Exactly(<<>>, Kind, dec) /\ dec.at # "done"
      BY <2>1, <2>2, <2>3 DEF HeadWaits
    <3>2. Kind.framing = "length" /\ Counting(dec, Kind)
      BY <3>1 DEF Flags, Framed, Exactly
    <3>3. dec.left = 0
      BY <3>1, <3>2, EmptySeq DEF Exactly
    <3> QED
      BY <3>1, <3>2, <3>3 DEF Counting
  <2> QED
    BY <2>1, <2>2, <2>3, <2>4, SameKinds DEF HeadWaits, Whole
<1>5. CASE KeepAliveReady
  <2>1. UNCHANGED <<kinds, cur, rbuf, wire, tosend>> /\ pc = "idle" /\ pc' = "line"
    BY <1>5 DEF KeepAliveReady, client
  <2>2. Pending /\ Alive /\ rbuf = <<>>
    BY <2>1 DEF Pending, Alive, Flags
  <2>3. Stream' = Out
    BY <1>0, <2>1, <2>2, ConcatEmptySeq DEF Stream, Out
  <2> QED
    BY <2>1, <2>2, <2>3, SameKinds DEF HeadWaits
<1>6. CASE RequestDone
  <2>1. /\ UNCHANGED <<kinds, cur, wire, tosend, connection_closed, ret>>
        /\ pc = "done" /\ pc' = "idle" /\ ret /\ ~connection_closed /\ rbuf' = <<>>
    BY <1>6 DEF RequestDone, client, Alive
  <2>2. Pending /\ Alive /\ Out' = Out
    BY <2>1 DEF Pending, Alive, Out
  <2> QED
    BY <2>1, <2>2, SameKinds DEF HeadWaits
<1>7. CASE ReadUnit
  <2>1. UNCHANGED <<kinds, cur, pc, wire, tosend>> /\ pc \in {"reading", "drain"}
    BY <1>7 DEF ReadUnit, client
  <2>2. Pending /\ Alive /\ Out' = Out
    BY <1>7, <2>1 DEF Pending, Alive, Out, ReadUnit
  <2>3. pc = "drain"
    BY <2>1, <2>2 DEF InTurn, Taken, Pending, Processing
  <2>4. Exactly(rbuf', Kind, dec')
    BY <1>0, <1>7, <2>2, <2>3, ExactlyTail DEF HeadWaits, Flags
  <2> QED
    BY <2>1, <2>2, <2>3, <2>4, SameKinds DEF HeadWaits
<1>8. CASE DrainDone
  <2>1. /\ UNCHANGED <<kinds, cur, wire, tosend, connection_closed, ret>>
        /\ pc = "drain" /\ pc' = "done"
    BY <1>8 DEF DrainDone, client
  <2>2. Pending /\ Alive /\ Out' = Out
    BY <2>1 DEF Pending, Alive, Out
  <2> QED
    BY <2>1, <2>2, SameKinds DEF HeadWaits
<1>9. CASE KeepAliveEnds \/ NoRequest \/ DrainFails
  BY <1>9 DEF KeepAliveEnds, NoRequest, DrainFails, Alive
<1>10. CASE BadRequest \/ RefuseRequest \/ ParseRequest
  <2>1. TakeHead
    BY <1>10 DEF BadRequest, RefuseRequest, ParseRequest
  <2>2. cur' = Len(kinds) /\ kinds' = kinds
    BY <2>1, HeadIsNext DEF TakeHead, client
  <2> QED
    BY <1>0, <2>2 DEF Pending
<1>11. CASE pc \in Processing /\ UNCHANGED <<kinds, cur>>
  BY <1>0, <1>11 DEF InTurn, Taken, Pending
<1>12. CASE \/ UpgradeHandled \/ Upgrade \/ UpgradeFallsThrough \/ RouteWithoutBody
            \/ BeginRead \/ ReadRefused \/ ReadDone \/ ReadFails \/ WriteResponse
  BY <1>12, <1>11 DEF UpgradeHandled, Upgrade, UpgradeFallsThrough, RouteWithoutBody,
     BeginRead, ReadRefused, ReadDone, ReadFails, WriteResponse, Processing, client
<1>13. ASSUME NEW s \in ExpectStatuses, Expect(s) PROVE HeadWaits'
  BY <1>13, <1>11 DEF Expect, Processing, client
<1>14. CASE UNCHANGED vars
  <2>1. /\ UNCHANGED <<kinds, cur, pc, rbuf, wire, tosend, dec>>
        /\ Pending /\ Alive /\ Out' = Out /\ Stream' = Stream
    BY <1>14 DEF vars, Pending, Alive, Out, Stream
  <2> QED
    BY <2>1, SameKinds DEF HeadWaits
<1> QED
  BY <1>1, <1>2, <1>3, <1>4, <1>5, <1>6, <1>7, <1>8, <1>9, <1>10, <1>12, <1>13,
     <1>14 DEF Next, ServerStep

\* A request that arrived whole is in the buffer when its head is taken, and
\* nothing else is.
LEMMA HeadTaken ==
    ASSUME Types, Flags, InTurn, HeadWaits, OwnBody, TakeHead,
           Head(rbuf).part = "head", Newest.line # "bad"
    PROVE  /\ Within(Stream', Newest, Start(Newest))
           /\ Whole(Len(kinds)) =>
                 /\ wire = <<>> /\ tosend = <<>>
                 /\ Framed(Newest) => Exactly(rbuf', Newest, Start(Newest))
<1>1. /\ Pending /\ Alive /\ pc = "line" /\ rbuf # <<>> /\ rbuf' = Tail(rbuf)
      /\ UNCHANGED <<wire, tosend>> /\ Len(kinds) \in Nat \ {0}
  BY HeadIsNext DEF TakeHead, client
<1>2. /\ Len(rbuf) \in Nat \ {0} /\ Len(rbuf') = Len(rbuf) - 1
      /\ \A i \in 1 .. Len(rbuf) - 1 : rbuf'[i] = rbuf[i + 1]
      /\ rbuf' \in Seq(SentToken)
      /\ Stream' = Tail(Stream) /\ Stream # <<>>
  BY <1>1, TakeFlow
<1>3. /\ Newest \in KindType /\ Len(Newest.body) \in Nat
      /\ Total(Newest) = 1 + Len(Newest.body)
      /\ Newest.framing = "chunked" => Len(Newest.body) # 0
  BY <1>1, TotalTyped
<1>4. /\ Newest.framing \notin {"chunked", "other"} => Start(Newest).left = Len(Newest.body)
      /\ Stream \in Seq(SentToken) /\ Fresh(Stream, Len(kinds), Newest)
  BY <1>1, <1>3, StartState, KindsTyped DEF HeadWaits
<1>5. Newest.framing = "chunked" => Follows(Stream', Start(Newest))
  BY <1>2, <1>4 DEF Fresh
<1>6. Within(Stream', Newest, Start(Newest))
  <2>1. Len(Stream') = Len(Stream) - 1 /\ Len(Stream) \in Nat
    BY <1>2, <1>4, TakeFirst
  <2>2. Len(Stream) <= 1 + Len(Newest.body)
    BY <1>3, <1>4 DEF Fresh
  <2>3. Len(Stream') <= Len(Newest.body)
    BY <1>3, <2>1, <2>2
  <2> QED
    BY <1>4, <1>5, <2>3 DEF Within
<1>7. ASSUME Whole(Len(kinds))
      PROVE  /\ wire = <<>> /\ tosend = <<>>
             /\ Framed(Newest) => Exactly(rbuf', Newest, Start(Newest))
  <2>1. wire = <<>> /\ tosend = <<>> /\ Complete(rbuf, Newest)
    BY <1>1, <1>7 DEF HeadWaits
  <2>2. Len(rbuf') = Len(Newest.body)
    BY <1>2, <1>3, <2>1 DEF Complete
  <2>3. CASE Newest.framing = "chunked"
    <3>1. Stream' = rbuf'
      BY <1>1, <1>2, <2>1, EmptySeq, ConcatEmptySeq DEF Stream, Out
    <3>2. rbuf' # <<>> /\ Len(rbuf') \in Nat \ {0}
      BY <1>3, <2>2, <2>3, EmptySeq
    <3>3. rbuf'[Len(rbuf')] = rbuf[Len(rbuf)]
      <4>1. Len(rbuf') \in 1 .. Len(rbuf) - 1 /\ Len(rbuf') + 1 = Len(rbuf)
        BY <1>2, <3>2
      <4> QED
        BY <1>2, <4>1
    <3>4. Ends(rbuf')
      BY <2>1, <2>3, <3>2, <3>3 DEF Complete, Ends
    <3> QED
      BY <1>5, <2>1, <2>3, <3>1, <3>2, <3>4 DEF Exactly
  <2>4. CASE Newest.framing = "length"
    BY <1>4, <2>1, <2>2, <2>4 DEF Exactly
  <2> QED
    BY <2>1, <2>3, <2>4 DEF Framed
<1> QED
  BY <1>6, <1>7

\* Each step leaves of the current request only what its location says.
LEMMA NextOwnBody ==
    Types /\ Flags /\ InTurn /\ HeadWaits /\ OwnBody /\ Orderly' /\ [Next]_vars
    => OwnBody'
<1> SUFFICES ASSUME Types, Flags, InTurn, HeadWaits, OwnBody, Orderly', [Next]_vars,
                    Taken', Alive'
             PROVE  OwnBody'
  BY DEF OwnBody
<1>0. /\ Len(kinds) \in Nat /\ cur \in Nat /\ dec \in State
      /\ rbuf \in Seq(SentToken) /\ wire \in Seq(SentToken) /\ tosend \in Seq(SentToken)
      /\ Out \in Seq(SentToken) /\ Stream \in Seq(SentToken)
  BY KindsTyped DEF Types, Scalars
<1>o. Orderly
  BY OrderlyBefore
<1>c. /\ pc \in {"reading", "drain"} /\ Alive => Framed(Kind) /\ dec.at # "close"
      /\ pc \in {"reading", "drain"} /\ Kind.framing = "length" => Counting(dec, Kind)
  BY DEF Flags, Alive
<1>m. ASSUME pc \in Processing, UNCHANGED <<kinds, cur>>
      PROVE  ~Misread(cur)'
  <2>1. cur \in DOMAIN kinds'
    BY <1>m, KindTyped, LenProperties DEF Types, Scalars
  <2>2. PICK n \in DOMAIN kinds' : n = cur
    BY <2>1
  <2>3. ~Misread(n)'
    BY DEF Orderly
  <2> QED
    BY <1>m, <2>2, <2>3 DEF Misread
<1>1. ASSUME NEW k \in Kinds, SendRequest(k) PROVE OwnBody'
  <2>1. Pending' /\ Len(kinds') \in Nat /\ cur' \in Nat
    BY <1>0, <1>1, SendWhen
  <2> QED
    BY <2>1 DEF Taken, Pending
<1>2. CASE SendMore
  <2>1. Stream' = Stream /\ tosend # <<>>
    BY <1>2, SendMoreFlow DEF SendMore
  <2>2. /\ UNCHANGED <<kinds, cur, pc, rbuf, dec, body_consumed_>> /\ Taken /\ Alive
        /\ Left' = Left
    BY <1>2 DEF SendMore, Taken, Alive, Left, Kind
  <2> QED
    BY <2>1, <2>2, SameKinds DEF OwnBody
<1>3. CASE ClientCloses
  <2>1. /\ \A d : Follows(Stream, d) => Follows(Stream', d)
        /\ Len(Stream') <= Len(Stream) /\ Len(Stream) \in Nat /\ Len(Stream') \in Nat
    BY <1>3, CloseFlow
  <2>2. /\ UNCHANGED <<kinds, cur, pc, rbuf, wire, dec, body_consumed_>>
        /\ tosend' = <<>> /\ Taken /\ Alive /\ Left' = Left
    BY <1>3 DEF ClientCloses, Taken, Alive, Left, Kind
  <2>3. pc \in Processing \cup {"drain"} => Left.left \in Nat
    <3>1. pc \in Processing \cup {"drain"} => Left \in State
      BY <1>0, KindTyped, StartState DEF Left
    <3> QED
      BY <3>1 DEF State
  <2>4. ASSUME pc \in Processing \cup {"drain"}, Within(Stream, Kind, Left)
        PROVE  Within(Stream', Kind, Left)
    BY <2>1, <2>3, <2>4 DEF Within
  <2> QED
    BY <2>2, <2>4, SameKinds DEF OwnBody
<1>4. CASE Recv
  <2>1. /\ Stream' = Stream /\ rbuf = <<>> /\ wire # <<>>
        /\ UNCHANGED <<kinds, tosend, cur, pc, dec, body_consumed_>>
        /\ pc \in {"line", "reading", "drain"}
    BY <1>4, RecvFlow DEF Recv, Reads, client
  <2>2. Taken /\ Alive /\ Left' = Left
    BY <1>4, <2>1 DEF Taken, Alive, Recv, Left, Kind
  <2>3. pc # "line"
    BY <2>1, <2>2 DEF OwnBody
  <2> QED
    BY <2>1, <2>2, <2>3, SameKinds DEF OwnBody
<1>5. CASE KeepAliveReady \/ RequestDone
  <2>1. /\ UNCHANGED <<kinds, cur, wire, tosend>>
        /\ pc \in {"idle", "done"} /\ pc' \in {"line", "idle"} /\ rbuf' = <<>>
    BY <1>5 DEF KeepAliveReady, RequestDone, client, Flags, Alive
  <2>2. Taken /\ Alive
    BY <1>5, <2>1 DEF Taken, Alive, Flags, KeepAliveReady, RequestDone
  <2> QED
    BY <2>1, <2>2 DEF OwnBody, Processing
<1>6. CASE BadRequest
  <2>1. TakeHead
    BY <1>6 DEF BadRequest
  <2>2. /\ Pending /\ Alive /\ pc = "line" /\ rbuf # <<>>
        /\ Head(rbuf).req = Len(kinds) /\ Head(rbuf).part = "head"
        /\ UNCHANGED <<kinds, wire, tosend>> /\ Len(kinds) \in 1 .. Len(kinds)
    BY <2>1, HeadIsNext DEF TakeHead, client
  <2>3. Newest.line = "bad"
    BY <1>6, <2>2 DEF BadRequest, Newest
  <2>4. Whole(Len(kinds))
    <3>1. Len(kinds) \in DOMAIN kinds
      BY <2>2, LenProperties DEF Types, Scalars
    <3>2. Undrained(kinds[Len(kinds)])
      BY <2>3 DEF Undrained, Newest
    <3> QED
      BY <1>o, <3>1, <3>2 DEF Orderly, Whole
  <2>5. wire = <<>> /\ tosend = <<>>
    BY <2>2, <2>4 DEF HeadWaits
  <2> QED
    BY <1>6, <2>2, <2>5 DEF BadRequest, OwnBody, Processing
<1>7. CASE ParseRequest
  <2>1. TakeHead /\ Head(rbuf).part = "head" /\ pc' \in {"expect", "upgrade", "routing"}
    BY <1>7 DEF ParseRequest
  <2>2. /\ Head(rbuf).req = Len(kinds) /\ cur' = Len(kinds)
        /\ UNCHANGED <<kinds, wire, tosend>>
    BY <2>1, HeadIsNext DEF TakeHead, client
  <2>3. Newest.line # "bad"
    BY <1>7, <2>2 DEF ParseRequest, Newest
  <2>4. /\ Within(Stream', Newest, Start(Newest))
        /\ Whole(Len(kinds)) =>
              /\ wire = <<>> /\ tosend = <<>>
              /\ Framed(Newest) => Exactly(rbuf', Newest, Start(Newest))
    BY <2>1, <2>3, HeadTaken
  <2>5. Kind' = Newest /\ Left' = Start(Newest) /\ (Whole(cur)' <=> Whole(Len(kinds)))
    BY <2>1, <2>2 DEF Kind, Newest, Left, Whole, AllWhole
  <2> QED
    BY <2>1, <2>2, <2>4, <2>5 DEF OwnBody
<1>8. ASSUME NEW s \in ExpectStatuses, Expect(s) PROVE OwnBody'
  <2>1. /\ UNCHANGED <<kinds, cur, rbuf, wire, tosend, dec>> /\ pc = "expect"
        /\ pc' \in {"upgrade", "routing"} /\ connection_closed' = connection_closed
    BY <1>8 DEF Expect, client, Alive
  <2>2. Taken /\ Alive /\ Left' = Left /\ Stream' = Stream /\ ~Whole(cur)
    BY <2>1 DEF Taken, Alive, Left, Kind, Stream, Out, Flags, Whole
  <2> QED
    BY <2>1, <2>2, SameKinds DEF OwnBody, Processing
<1>9. CASE UpgradeHandled
  <2>1. /\ UNCHANGED <<kinds, cur, rbuf, wire, tosend>> /\ pc = "upgrade"
        /\ pc' = "done" /\ connection_closed' = connection_closed
    BY <1>9 DEF UpgradeHandled, client
  <2>2. Taken /\ Alive /\ Kind.upgrade /\ pc \in Processing
    BY <2>1 DEF Taken, Alive, Flags, Processing
  <2>3. CASE Framed(Kind)
    <3>1. cur \in DOMAIN kinds
      BY <2>2, KindTyped, LenProperties DEF Types, Scalars
    <3>2. Undrained(kinds[cur])
      BY <2>2, <2>3 DEF Undrained, Kind
    <3>3. Whole(cur)
      BY <1>o, <3>1, <3>2 DEF Orderly, Whole
    <3> QED
      BY <2>1, <2>2, <3>3 DEF OwnBody, Processing
  <2>4. CASE ~Framed(Kind)
    <3>1. wire = <<>> /\ tosend = <<>>
      BY <1>o, <2>1, <2>2, <2>4, Unframed
    <3> QED
      BY <2>1, <3>1 DEF OwnBody, Processing
  <2> QED
    BY <2>3, <2>4
<1>10. CASE UpgradeFallsThrough \/ RouteWithoutBody
  <2>1. /\ UNCHANGED <<kinds, cur, rbuf, wire, tosend, dec, body_consumed_>>
        /\ pc \in {"upgrade", "routing"} /\ pc' \in {"routing", "respond"}
        /\ connection_closed' = connection_closed
    BY <1>10 DEF UpgradeFallsThrough, RouteWithoutBody, client
  <2>2. Taken /\ Alive /\ Left' = Left /\ Stream' = Stream /\ ~body_consumed_
    BY <2>1 DEF Taken, Alive, Left, Kind, Stream, Out, Flags, Processing
  <2> QED
    BY <2>1, <2>2, SameKinds DEF OwnBody, Processing
<1>11. CASE BeginRead
  <2>1. /\ UNCHANGED <<kinds, cur, rbuf, wire, tosend>> /\ pc = "routing"
        /\ pc' = "reading" /\ dec' = Start(Kind) /\ connection_closed' = connection_closed
    BY <1>11 DEF BeginRead, client
  <2>2. Taken /\ Alive /\ Left' = Left /\ Stream' = Stream
    BY <2>1 DEF Taken, Alive, Left, Kind, Stream, Out
  <2> QED
    BY <2>1, <2>2, SameKinds DEF OwnBody, Processing
<1>19. CASE ReadRefused
  <2>1. /\ UNCHANGED <<kinds, cur, rbuf, wire, tosend, body_consumed_>> /\ pc = "routing"
        /\ pc' \in {"refuse", "respond"} /\ Kind.framing = "badLength"
        /\ connection_closed' = connection_closed
    BY <1>19 DEF ReadRefused, client
  <2>2. /\ Taken /\ Alive /\ Left' = Left /\ Stream' = Stream /\ Kind' = Kind
        /\ ~body_consumed_ /\ ~Framed(Kind)
    BY <2>1 DEF Taken, Alive, Left, Kind, Stream, Out, Flags, Processing, Framed
  <2> QED
    BY <2>1, <2>2, SameKinds DEF OwnBody, Processing
<1>12. CASE ReadUnit
  <2>1. UNCHANGED <<kinds, cur, pc, wire, tosend>> /\ pc \in {"reading", "drain"}
    BY <1>12 DEF ReadUnit, client
  <2>2. Taken /\ Alive /\ Framed(Kind) /\ Kind' = Kind
    BY <1>12, <1>c, <2>1 DEF Taken, Alive, ReadUnit, Kind
  <2>3. Within(Stream, Kind, dec)
    BY <2>1, <2>2 DEF OwnBody, Left, Processing
  <2>4. Within(Stream', Kind, dec')
    BY <1>12, <1>c, <2>1, <2>2, <2>3, WithinTail
  <2>5. ASSUME pc = "drain", Kind.use = "none", Whole(cur)
        PROVE  wire = <<>> /\ tosend = <<>> /\ Exactly(rbuf', Kind, dec')
    <3>1. wire = <<>> /\ tosend = <<>> /\ Exactly(rbuf, Kind, dec)
      BY <2>2, <2>5 DEF OwnBody, Left
    <3> QED
      BY <1>12, <1>c, <2>1, <2>2, <3>1, ExactlyTail
  <2> QED
    BY <2>1, <2>2, <2>4, <2>5, SameKinds DEF OwnBody, Left, Processing
<1>13. CASE ReadDone
  <2>1. /\ UNCHANGED <<kinds, cur, wire, tosend>> /\ pc = "reading" /\ pc' = "respond"
        /\ connection_closed' = connection_closed
    BY <1>13 DEF ReadDone, client
  <2>2. /\ Taken /\ Alive /\ Kind.use # "none" /\ Within(Stream, Kind, dec)
        /\ Framed(Kind) /\ dec.at # "close"
    BY <1>c, <2>1 DEF Taken, Alive, Flags, OwnBody, Left, Processing
  <2>3. wire = <<>> /\ tosend = <<>> /\ \A d \in State : Within(Stream', Kind, d)
    BY <1>13, <1>c, <2>1, <2>2, ReadWhole DEF ReadDone
  <2>4. Kind' = Kind /\ Left' = Start(Kind) /\ Start(Kind) \in State
    BY <2>1, KindTyped, StartState DEF Processing, Kind, Left
  <2> QED
    BY <2>1, <2>2, <2>3, <2>4 DEF OwnBody
<1>14. CASE ReadFails
  <2>1. /\ UNCHANGED <<kinds, cur, wire, tosend, body_consumed_>> /\ pc = "reading"
        /\ pc' \in {"refuse", "respond"} /\ connection_closed' = connection_closed
        /\ rbuf' = rbuf \/ (rbuf # <<>> /\ rbuf' = Tail(rbuf))
        /\ pc' = "respond" => Kind.use = "part"
    BY <1>14 DEF ReadFails, BodyFails, TooLarge, Broken, ReceiverStops, client
  <2>2. /\ Taken /\ Alive /\ Kind.use # "none" /\ Within(Stream, Kind, dec)
        /\ Framed(Kind) /\ ~body_consumed_
    BY <1>c, <2>1 DEF Taken, Alive, Flags, OwnBody, Left, Processing
  <2>3. /\ Kind \in KindType /\ Len(Kind.body) \in Nat /\ Kind' = Kind
        /\ Left' = Start(Kind) /\ pc \in Processing
    BY <2>1, KindTyped DEF Processing, Kind, Left
  <2>4. ASSUME Kind.framing = "length" PROVE Within(Stream', Kind, Start(Kind))
    <3>1. Counting(dec, Kind) /\ Start(Kind).left = Len(Kind.body) /\ dec.left \in Nat
      BY <1>0, <1>c, <2>1, <2>3, <2>4, StartState DEF State
    <3>2. Len(Stream) \in Nat /\ Len(Stream) <= dec.left /\ dec.left <= Len(Kind.body)
      BY <1>0, <2>2, <2>4, <3>1, LenProperties DEF Within, Counting
    <3>3. CASE rbuf' = rbuf
      <4>1. Stream' = Stream
        BY <2>1, <3>3 DEF Stream, Out
      <4> QED
        BY <2>3, <2>4, <3>1, <3>2, <4>1 DEF Within
    <3>4. CASE rbuf # <<>> /\ rbuf' = Tail(rbuf)
      <4>1. Stream' = Tail(Stream) /\ Stream # <<>>
        BY <2>1, <3>4, TakeFlow
      <4>2. Len(Stream') = Len(Stream) - 1
        BY <1>0, <4>1, TakeFirst
      <4>3. Len(Stream') <= Len(Kind.body)
        BY <2>3, <3>1, <3>2, <4>2
      <4> QED
        BY <2>4, <3>1, <4>3 DEF Within
    <3> QED
      BY <2>1, <3>3, <3>4
  <2>5. ASSUME Kind.framing = "chunked" PROVE pc' = "refuse"
    <3>1. pc' = "respond" => Misread(cur)'
      BY <2>1, <2>3, <2>5 DEF Misread, Kind
    <3> QED
      BY <1>m, <2>1, <2>3, <3>1
  <2> QED
    BY <2>1, <2>2, <2>3, <2>4, <2>5 DEF OwnBody, Processing, Framed
<1>15. CASE WriteResponse
  <2>1. /\ UNCHANGED <<kinds, cur, rbuf, wire, tosend>> /\ pc \in {"respond", "refuse"}
        /\ connection_closed' = connection_closed
        /\ \/ ~body_consumed_ /\ Framed(Kind) /\ pc' = "drain" /\ dec' = Start(Kind)
           \/ (body_consumed_ \/ ~Framed(Kind)) /\ pc' = "done"
    BY <1>15 DEF WriteResponse, client
  <2>2. Taken /\ Alive /\ Stream' = Stream /\ Left = Start(Kind) /\ pc \in Processing
    BY <2>1 DEF Taken, Alive, Left, Processing, Stream, Out
  <2>3. CASE pc' = "drain"
    <3>1. Kind' = Kind /\ Left' = Start(Kind) /\ (Kind.use = "none" => pc = "respond")
      BY <2>1, <2>3 DEF Kind, Left, Flags
    <3>2. ASSUME pc = "refuse" PROVE Kind.framing # "chunked"
      <4>1. ret'
        BY <2>3 DEF Alive
      <4>2. PICK s \in {"ok", "error", "refused"}, c \in BOOLEAN :
               Writes([req |-> cur, status |-> s, close |-> c]) /\ s = "refused"
        BY <1>15, <3>2, <4>1, HandlerWrites
      <4>3. Len(sent) + 1 \in DOMAIN sent'
        BY <4>2, SentTyped DEF Writes
      <4>4. sent'[Len(sent) + 1].req = cur /\ sent'[Len(sent) + 1].status = "refused"
        BY <4>2 DEF Writes
      <4>5. Kind.framing = "chunked" => Misread(cur)'
        BY <2>1, <4>3, <4>4 DEF Misread, Kind
      <4> QED
        BY <1>m, <2>1, <2>2, <4>5
    <3>3. Within(Stream, Kind, Start(Kind))
      BY <2>1, <2>2, <3>2 DEF OwnBody
    <3> QED
      BY <2>1, <2>2, <2>3, <3>1, <3>3, SameKinds DEF OwnBody, Left
  <2>4. CASE pc' = "done" /\ ~Framed(Kind)
    <3>1. wire = <<>> /\ tosend = <<>>
      BY <1>o, <2>1, <2>2, <2>4, Unframed
    <3> QED
      BY <2>1, <2>4, <3>1 DEF OwnBody, Processing
  <2>5. CASE pc' = "done" /\ Framed(Kind)
    <3>1. body_consumed_ /\ pc = "respond"
      BY <2>1, <2>5 DEF Flags, Processing
    <3> QED
      BY <2>1, <2>2, <2>5, <3>1 DEF OwnBody, Processing
  <2> QED
    BY <2>1, <2>3, <2>4, <2>5
<1>16. CASE DrainDone
  <2>1. /\ UNCHANGED <<kinds, cur, wire, tosend, connection_closed, ret>>
        /\ pc = "drain" /\ pc' = "done"
    BY <1>16 DEF DrainDone, client
  <2>2. Taken /\ Alive /\ Within(Stream, Kind, dec) /\ Framed(Kind) /\ dec.at # "close"
    BY <1>c, <2>1 DEF Taken, Alive, OwnBody, Left
  <2>3. wire = <<>> /\ tosend = <<>>
    BY <1>16, <1>c, <2>1, <2>2, ReadWhole DEF DrainDone
  <2> QED
    BY <2>1, <2>3 DEF OwnBody, Processing
<1>17. CASE KeepAliveEnds \/ NoRequest \/ RefuseRequest \/ Upgrade \/ DrainFails
  BY <1>17 DEF KeepAliveEnds, NoRequest, RefuseRequest, Upgrade, DrainFails, Alive
<1>18. CASE UNCHANGED vars
  <2>1. /\ UNCHANGED <<kinds, cur, pc, rbuf, wire, tosend, dec, body_consumed_>>
        /\ Taken /\ Alive /\ Stream' = Stream /\ Left' = Left
    BY <1>18 DEF vars, Taken, Alive, Stream, Out, Left, Kind
  <2> QED
    BY <2>1, SameKinds DEF OwnBody
<1> QED
  BY <1>1, <1>2, <1>3, <1>4, <1>5, <1>6, <1>7, <1>8, <1>9, <1>10, <1>11, <1>12,
     <1>13, <1>14, <1>15, <1>16, <1>17, <1>18, <1>19 DEF Next, ServerStep

-----------------------------------------------------------------------------
(* The inductive invariant *)

\* Nothing was sent, nothing is on the connection.
LEMMA InitIInv == Init => IInv
<1> SUFFICES ASSUME Init PROVE IInv
  OBVIOUS
<1>1. /\ kinds = <<>> /\ tosend = <<>> /\ wire = <<>> /\ rbuf = <<>> /\ sent = <<>>
      /\ cur = 0 /\ pc = "idle" /\ Len(kinds) = 0
  BY EmptySeq DEF Init
<1>2. Types
  <2>1. <<>> \in Seq(SentToken) /\ <<>> \in Seq(Kinds) /\ <<>> \in Seq(Response)
    BY EmptySeq
  <2>2. /\ count \in 0 .. KeepAliveMax /\ count # 0 /\ Len(kinds) <= MaxRequests
        /\ cur \in Nat /\ cur <= Len(kinds)
    BY <1>1, ConnectionAssumption DEF Init
  <2>3. pc \notin Processing \cup {"drain"}
    BY <1>1 DEF Processing
  <2>4. Scalars
    <3>1. kinds \in Seq(Kinds) /\ sent \in Seq(Response) /\ dec \in State
      BY <1>1, <2>1 DEF Init, Outside, State
    <3>2. /\ clientOpen \in BOOLEAN /\ connection_closed \in BOOLEAN /\ ret \in BOOLEAN
          /\ body_consumed_ \in BOOLEAN
      BY DEF Init
    <3> QED
      BY <1>1, <2>2, <2>3, <3>1, <3>2 DEF Scalars
  <2> QED
    BY <1>1, <2>1, <2>4 DEF Types
<1>3. Flags /\ Announced
  BY <1>1, ConnectionAssumption DEF Init, Flags, Announced, Processing
<1>4. InTurn
  BY <1>1, NoElement DEF InTurn, Taken, UpTo, FinalOnce, Processing
<1>5. HeadWaits
  BY <1>1 DEF HeadWaits, Pending
<1>6. OwnBody
  BY <1>1 DEF OwnBody, Processing
<1> QED
  BY <1>2, <1>3, <1>4, <1>5, <1>6 DEF IInv

\* The part of the invariant that holds whatever the requests are.
LEMMA NextBase ==
    Types /\ Flags /\ Announced /\ [Next]_vars => (Types /\ Flags /\ Announced)'
BY NextTypes, NextFlags, NextAnnounced

\* All of it, step by step.
LEMMA NextIInv == "417" \notin ExpectStatuses => (IInv /\ [Next]_vars => IInv')
<1> SUFFICES ASSUME "417" \notin ExpectStatuses, IInv, [Next]_vars PROVE IInv'
  OBVIOUS
<1>1. Types /\ Flags /\ Announced
  BY DEF IInv
<1>2. (Types /\ Flags /\ Announced)'
  BY <1>1, NextBase
<1>3. ASSUME Orderly' PROVE InTurn' /\ HeadWaits' /\ OwnBody'
  <2>1. InTurn /\ HeadWaits /\ OwnBody
    BY <1>1, <1>3, OrderlyBefore DEF IInv
  <2> QED
    BY <1>1, <1>3, <2>1, NextInTurn, NextHeadWaits, NextOwnBody
<1> QED
  BY <1>2, <1>3 DEF IInv

-----------------------------------------------------------------------------
(* Theorems *)

\* The types of the model hold, and the bounds on what the server serves.
THEOREM ConnectionTypes == Spec => [](Types /\ Flags /\ Announced)
<1>1. Init => Types /\ Flags /\ Announced
  BY InitIInv DEF IInv
<1> QED
  BY <1>1, NextBase, PTL DEF Spec

\* The response that exhausts keep_alive_max_count_ announces that the connection
\* closes, whatever the requests and however they fail.
THEOREM LastResponseSaysClose == Spec => []LastIsAnnounced
<1>1. Announced => LastIsAnnounced
  BY DEF Announced, SaidClose, LastIsAnnounced, Last
<1> QED
  BY <1>1, ConnectionTypes, PTL

\* The inductive invariant, for a server that does not answer Expect with 417
\* (which it follows with a second response).
THEOREM ConnectionInvariant == "417" \notin ExpectStatuses => (Spec => []IInv)
<1> SUFFICES ASSUME "417" \notin ExpectStatuses PROVE Spec => []IInv
  OBVIOUS
<1>1. IInv /\ [Next]_vars => IInv'
  BY NextIInv
<1> QED
  BY <1>1, InitIInv, PTL DEF Spec

\* Between two requests the connection is at the head of one: nothing of an
\* earlier request is left on it, whatever its data look like, as long as no body
\* was read in part and none is left undrained that did not come with its head
\* (Orderly, here and in the next two).
THEOREM ConnectionInStep == "417" \notin ExpectStatuses => (Spec => []InStep)
<1> SUFFICES ASSUME "417" \notin ExpectStatuses PROVE Spec => []InStep
  OBVIOUS
<1>1. IInv => InStep
  <2> SUFFICES ASSUME IInv PROVE InStep
    OBVIOUS
  <2>1. TypeOK
    BY TypesTypeOK DEF IInv
  <2>2. ASSUME pc = "idle", Orderly, wire \o tosend # <<>>
        PROVE  Head(wire \o tosend).part = "head"
    <3>1. Types /\ Flags /\ InTurn /\ HeadWaits /\ OwnBody
      BY <2>2 DEF IInv
    <3>2. Alive /\ Out \in Seq(SentToken) /\ Out # <<>>
      BY <2>2, <3>1, KindsTyped DEF Alive, Flags, Out
    <3>3. ~Taken
      <4>1. ASSUME Taken PROVE wire = <<>> /\ tosend = <<>>
        BY <2>2, <3>1, <3>2, <4>1 DEF OwnBody
      <4> QED
        BY <2>2, <4>1, EmptySeq, ConcatEmptySeq
    <3>4. Out[1] = HeadToken(Len(kinds), "head")
      BY <2>2, <3>1, <3>2, <3>3 DEF InTurn, HeadWaits, Fresh
    <3>5. Head(Out) = Out[1]
      BY <3>2, TakeFirst
    <3>6. Head(Out).part = "head"
      BY <3>4, <3>5 DEF HeadToken
    <3> QED
      BY <3>6 DEF Out
  <2> QED
    BY <2>1, <2>2 DEF InStep, IdleAtBoundary
<1> QED
  BY <1>1, ConnectionInvariant, PTL

\* No request disappears in the drain of the one before it, or in its buffer.
THEOREM RequestsReachTheServer ==
    "417" \notin ExpectStatuses => (Spec => []NoRequestLost)
<1> SUFFICES ASSUME "417" \notin ExpectStatuses PROVE Spec => []NoRequestLost
  OBVIOUS
<1>1. IInv => NoRequestLost
  <2> SUFFICES ASSUME IInv, pc = "idle", Orderly, NEW i \in DOMAIN kinds
               PROVE  \/ Answered(i)
                      \/ \E n \in DOMAIN wire : wire[n] = HeadToken(i, "head")
    BY DEF NoRequestLost, NothingLost
  <2>1. Types /\ Flags /\ InTurn /\ HeadWaits /\ OwnBody
    BY DEF IInv
  <2>2. /\ Alive /\ pc \notin Processing /\ cur \in Nat /\ Len(kinds) \in Nat
        /\ i \in 1 .. Len(kinds) /\ (Taken \/ Pending)
    BY <2>1, KindsTyped, LenProperties
       DEF Alive, Flags, Types, Scalars, InTurn, Processing
  <2>3. CASE i \in 1 .. cur
    BY <2>1, <2>2, <2>3 DEF InTurn
  <2>4. CASE i \notin 1 .. cur
    <3>1. Pending /\ i = Len(kinds)
      BY <2>2, <2>4 DEF Taken, Pending
    <3>2. wire # <<>> /\ Out[1] = HeadToken(i, "head")
      BY <2>1, <2>2, <3>1 DEF HeadWaits, Fresh
    <3>3. Out[1] = Head(wire)
      BY <2>1, <3>2, TakeFromConcat DEF Types, Out
    <3>4. Head(wire) = wire[1] /\ DOMAIN wire = 1 .. Len(wire) /\ Len(wire) \in Nat \ {0}
      BY <2>1, <3>2, TakeFirst DEF Types
    <3> QED
      BY <3>2, <3>3, <3>4
  <2> QED
    BY <2>3, <2>4
<1> QED
  BY <1>1, ConnectionInvariant, PTL

\* Each request gets one final response at most, in the order of the requests.
THEOREM ResponsesInOrder ==
    "417" \notin ExpectStatuses => (Spec => []OneFinalResponse)
<1> SUFFICES ASSUME "417" \notin ExpectStatuses PROVE Spec => []OneFinalResponse
  OBVIOUS
<1>1. IInv => OneFinalResponse
  BY DEF IInv, InTurn, FinalOnce, OneFinalResponse
<1> QED
  BY <1>1, ConnectionInvariant, PTL
=============================================================================
