-------------------------- MODULE MCServerConnection --------------------------
(***************************************************************************)
(* Instances of ServerConnection for TLC: which requests the client may    *)
(* send.  Two requests in any order, so that each way to end one           *)
(* is followed by each way to begin another.                               *)
(***************************************************************************)
EXTENDS ServerConnection

Plain == [line |-> "ok", framing |-> "none", body |-> <<>>,
          close |-> FALSE, fields |-> "ok", expect |-> FALSE, upgrade |-> FALSE,
          split |-> FALSE, use |-> "none"]

Text == [part |-> "text", n |-> 1, from |-> Outside]
Line(p) == [Text EXCEPT !.part = p]
Size(n) == [Line("size") EXCEPT !.n = n]
Zero == Line("zero")
Blank == Line("blank")

\* Each unit says where its sender is.
Send(units, start) ==
    LET at[j \in 1 .. Len(units)] ==
            IF j = 1 THEN start ELSE After(at[j - 1], units[j - 1])
    IN  [j \in 1 .. Len(units) |-> [units[j] EXCEPT !.from = at[j]]]

Post(framing, units, use) ==
    LET k == [Plain EXCEPT !.framing = framing, !.body = units, !.use = use]
    IN  [k EXCEPT !.body = Send(units, Start(k))]
Pieces(k) == [k EXCEPT !.split = TRUE]

\* Bodies with a length, the last one beyond the limit, and without a framing.
One == <<Text>>
Two == <<Text, Text>>
Three == <<Text, Text, Text>>

\* Chunked bodies: a chunk; two; one whose data end like a body; too much in one
\* chunk, and in the second of two.
Chunk == <<Size(1), Text, Blank, Zero, Blank>>
Fields == <<Size(1), Text, Blank, Zero, Line("field"), Blank>>
Misleading == <<Size(2), Text, Zero, Blank, Zero, Blank>>
TooMuch == <<Size(3), Text, Text, Zero, Blank, Zero, Blank>>
TooMuchTwice == <<Size(2), Text, Text, Blank, Size(1), Text, Blank, Zero, Blank>>

MixedKinds ==
    {Plain,
     Post("length", Two, "none"), Post("chunked", Chunk, "none"),
     Pieces(Post("length", Two, "all")), Pieces(Post("chunked", Misleading, "all")),
     Pieces(Post("length", Two, "part")), Post("chunked", Misleading, "part"),
     Post("length", Three, "none"),
     Pieces(Post("length", Three, "all")),
     Post("chunked", TooMuch, "part"), Post("chunked", TooMuch, "all"),
     Post("chunked", TooMuchTwice, "none"),
     Pieces([Post("chunked", Fields, "all") EXCEPT !.close = TRUE]),
     Pieces([Post("length", One, "all") EXCEPT !.expect = TRUE]),
     [Plain EXCEPT !.expect = TRUE],
     [Post("length", One, "none") EXCEPT !.line = "bad"],
     [Plain EXCEPT !.line = "long"],
     Post("both", One, "none"),
     Post("badLength", One, "part"), Post("other", Chunk, "all"),
     [Post("other", Three, "all") EXCEPT !.close = TRUE],
     [Plain EXCEPT !.fields = "bad"],
     [Plain EXCEPT !.upgrade = TRUE]}

PartialKinds == {Plain, Post("length", Two, "part")}
=============================================================================
