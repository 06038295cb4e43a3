------------------------------ MODULE MCContent ------------------------------
(* Instances of Content's parts: small, and with every kind of case.         *)
EXTENDS Content, TLC

-----------------------------------------------------------------------------
(* Multipart: kinds of header lines, contents that nearly hold a boundary   *)

LineKind == "f1" :> "field" @@ "f2" :> "file" @@ "t" :> "other" @@ "bad" :> "malformed"
        @@ "x" :> "malformed" @@ "-" :> "malformed" @@ "b" :> "malformed"
Near == {<<>>, <<"x">>, <<"r", "n", "-">>, <<"r", "n", "-", "-">>, <<"r", "r", "n", "-", "-", "x">>}
Item(l, c) == [lines |-> l, content |-> c]
SomeForms == { <<Item(<<"f1">>, c)>> : c \in Near }
      \cup { <<Item(<<"f2", "t">>, c), Item(<<"f1">>, <<"x">>)>> : c \in Near }
      \cup { <<Item(<<"f1">>, <<>>), Item(<<"f1">>, <<>>), Item(<<"f2">>, <<>>)>>,
             <<Item(<<"bad">>, <<"x">>)>>, <<>> }
NoneOrOne == {<<>>, <<"x", "r", "n">>}
CrLf == {<<"r", "n">>}

(* Ranges: one or two of any positions, or more than the limit of small ones *)

None == -1
Huge == -2
Junk == -3
Positions == {None, 0, 1, 2, 3}
Specs == (Positions \X (Positions \cup {5})) \cup {<<1, Huge>>, <<Junk, 1>>}
Few == {<<0, 1>>, <<1, 2>>, <<2, 2>>}
SmallHeaders == {<<>>} \cup {<<s>> : s \in Specs} \cup {<<s, t>> : s, t \in Specs}
                \cup [1 .. 4 -> Few] \cup [1 .. 5 -> {<<0, 1>>, <<3, 3>>}]
Answer(c, s) == [content |-> c, status |-> s]
EveryHandler == {Answer("body", s) : s \in {None, 200, 206, 404}}
            \cup {Answer("provider", s) : s \in {None, 206}}
            \cup {Answer(c, None) : c \in {"stream", "none"}}
=============================================================================
