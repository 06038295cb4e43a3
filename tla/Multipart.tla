------------------------------ MODULE Multipart ------------------------------
(***************************************************************************)
(* A multipart/form-data body: made from items by the client's content     *)
(* provider, cut into pieces of any size on its way, and read by           *)
(* FormDataParser into the form of a request.                              *)
(*                                                                         *)
(* A byte is a string.  The boundary is the byte "b", a header line        *)
(* without its line end is one byte; `Kind' says what the line is.         *)
(***************************************************************************)
EXTENDS Naturals, Sequences, SequencesExt

CONSTANTS
    Senders,        \* subset of {"segments", "stream"}
    Forms,          \* the forms sent: sequences of items [lines, content]
    Preambles,      \* what precedes the first boundary
    Epilogues,      \* what follows the last one; the client writes CRLF
    Kind,           \* line -> "field", "file", "other", "nameless", "malformed"
    SendBuffer,     \* CPPHTTPLIB_SEND_BUFSIZ
    MaxParts        \* CPPHTTPLIB_MULTIPART_FORM_DATA_FILE_MAX_COUNT

VARIABLES
    items, epilogue,
    sender,         \* "segments" or "stream": which content provider it is
    segs, buffer,   \* of segments: those left, bytes gathered
    stream,         \* of streamed items: [plain, item, start, offset]
    wire,           \* bytes written and not received
    sending,        \* "yes", "done", "broken"
    state, valid,   \* the parser: where it is, is_valid_
    buf,            \* its buffer
    parsing,        \* is parse() running?
    head,           \* lines of the part, file_
    form,           \* the request's form: [lines, file, content]
    verdict         \* "reading", "ok", "refused"

provider == <<sender, segs, buffer, stream, sending>>
parser == <<state, valid, buf, parsing, head>>
vars == <<items, epilogue, provider, wire, parser, form, verdict>>

CrLf == <<"r", "n">>
Dashes == <<"-", "-">>
DashBoundaryCrLf == Dashes \o <<"b">> \o CrLf
CrLfDashBoundary == CrLf \o Dashes \o <<"b">>

\* The byte of the boundary is in nothing else but perhaps a header line, the
\* line end is in no header line; the client's epilogue is a line end.
MultipartAssumption ==
    /\ Senders \subseteq {"segments", "stream"}
    /\ Forms \subseteq Seq([lines : Seq(STRING), content : Seq(STRING)])
    /\ \A all \in Forms : \A i \in DOMAIN all :
           /\ \A j \in DOMAIN all[i].lines : all[i].lines[j] # "r"
           /\ \A j \in DOMAIN all[i].content : all[i].content[j] # "b"
    /\ Preambles \subseteq Seq(STRING)
    /\ \A preamble \in Preambles : \A j \in DOMAIN preamble : preamble[j] # "b"
    /\ Epilogues \subseteq {CrLf}
    /\ SendBuffer \in Nat \ {0} /\ MaxParts \in Nat

-----------------------------------------------------------------------------
(* The sender                                                               *)

WithLineEnds(lines) == FlattenSeq([i \in DOMAIN lines |-> <<lines[i]>> \o CrLf])

ItemBegin(item) == DashBoundaryCrLf \o WithLineEnds(item.lines) \o CrLf

\* header, content and line end of each item, and the last boundary.
Segments(all, last) ==
    FlattenSeq([i \in DOMAIN all |-> <<ItemBegin(all[i]), all[i].content, CrLf>>])
    \o <<Dashes \o <<"b">> \o Dashes \o last>>

Least(a, b) == IF a <= b THEN a ELSE b

\* Copies what fits of the segment at hand into the buffer; a full buffer is
\* written.
CopySegment ==
    /\ sending = "yes" /\ sender = "segments" /\ segs # <<>>
    /\ LET seg == Head(segs)
           chunk == Least(Len(seg), SendBuffer - Len(buffer))
           full == buffer \o SubSeq(seg, 1, chunk)
       IN /\ segs' = IF chunk = Len(seg) THEN Tail(segs)
                     ELSE <<SubSeq(seg, chunk + 1, Len(seg))>> \o Tail(segs)
          /\ IF Len(full) = SendBuffer
             THEN wire' = wire \o full /\ buffer' = <<>>
             ELSE buffer' = full /\ UNCHANGED wire
    /\ UNCHANGED <<items, epilogue, sender, stream, sending, parser, form, verdict>>

FlushRest ==
    /\ sending = "yes" /\ sender = "segments" /\ segs = <<>>
    /\ sending' = "done" /\ buffer' = <<>>
    /\ wire' = wire \o buffer
    /\ UNCHANGED <<items, epilogue, sender, segs, stream, parser, form, verdict>>

\* get_multipart_content_provider is called again and again with the bytes
\* written so far.  First the plain items, in one.
StreamPlain ==
    /\ sending = "yes" /\ sender = "stream" /\ stream.offset = 0 /\ stream.plain > 0
    /\ LET plain == FlattenSeq(SubSeq(Segments(items, epilogue), 1, 3 * stream.plain))
       IN wire' = wire \o plain /\ stream' = [stream EXCEPT !.offset = Len(plain)]
    /\ UNCHANGED <<items, epilogue, sender, segs, buffer, sending, parser, form, verdict>>

\* Then each item's own provider, that is told how far into the item it is; the
\* header goes before its first bytes, the line end after it is done.
StreamItem ==
    /\ sending = "yes" /\ sender = "stream"
    /\ stream.offset > 0 \/ stream.plain = 0
    /\ stream.item <= Len(items)
    /\ LET item == items[stream.item]
           begin == IF stream.start = 0 THEN ItemBegin(item) ELSE <<>>
           offset == stream.offset + Len(begin)
           start == IF stream.start = 0 THEN offset ELSE stream.start
           at == offset - start
       IN \E n \in 0 .. (Len(item.content) - at) :
              LET ended == at + n = Len(item.content)
                  piece == begin \o SubSeq(item.content, at + 1, at + n)
                           \o (IF ended THEN CrLf ELSE <<>>)
              IN /\ n > 0 \/ ended
                 /\ wire' = wire \o piece
                 /\ stream' = [stream EXCEPT
                        !.offset = @ + Len(piece), !.start = IF ended THEN 0 ELSE start,
                        !.item = IF ended THEN @ + 1 ELSE @]
    /\ UNCHANGED <<items, epilogue, sender, segs, buffer, sending, parser, form, verdict>>

StreamFinish ==
    /\ sending = "yes" /\ sender = "stream"
    /\ stream.offset > 0 \/ stream.plain = 0
    /\ stream.item > Len(items)
    /\ wire' = wire \o Last(Segments(items, epilogue))
    /\ sending' = "done"
    /\ UNCHANGED <<items, epilogue, sender, segs, buffer, stream, parser, form, verdict>>

\* A write fails: the body ends early.
SendFails ==
    /\ sending = "yes"
    /\ sending' = "broken"
    /\ UNCHANGED <<items, epilogue, sender, segs, buffer, stream, wire, parser, form, verdict>>

-----------------------------------------------------------------------------
(* FormDataParser::parse                                                    *)

\* buf_find: the first place where p is, Len(buf) if it is nowhere.
Find(p) ==
    LET at(i) == i + Len(p) <= Len(buf) /\ SubSeq(buf, i + 1, i + Len(p)) = p
    IN IF \E i \in 0 .. Len(buf) : at(i)
       THEN CHOOSE i \in 0 .. Len(buf) : at(i) /\ \A j \in 0 .. (i - 1) : ~at(j)
       ELSE Len(buf)

Found(p) == Find(p) < Len(buf)

\* buf_erase, and the loop's condition.
Erase(n) ==
    /\ buf' = SubSeq(buf, n + 1, Len(buf))
    /\ parsing' = (n < Len(buf))

\* parse returns true: it waits for more.
Waits == parsing' = FALSE /\ UNCHANGED <<state, valid, buf, head, form, verdict>>

\* parse returns false: the reader stops, with status 400.
Fails ==
    /\ parsing' = FALSE /\ valid' = FALSE /\ verdict' = "refused"
    /\ UNCHANGED <<state, buf, head, form>>

InState(s) == parsing /\ state = s

InitialBoundary ==
    /\ InState(0)
    /\ IF Found(DashBoundaryCrLf)
       THEN /\ Erase(Find(DashBoundaryCrLf) + Len(DashBoundaryCrLf))
            /\ state' = 1
            /\ UNCHANGED <<valid, head, form, verdict>>
       ELSE Waits

NewEntry ==
    /\ InState(1)
    /\ head' = <<>> /\ state' = 2
    /\ UNCHANGED <<valid, buf, parsing, form, verdict>>

HeaderLine ==
    /\ InState(2) /\ Found(CrLf) /\ Find(CrLf) > 0
    /\ LET line == SubSeq(buf, 1, Find(CrLf))
       IN IF \A i \in DOMAIN line : Kind[line[i]] \in {"nameless", "malformed"}
          THEN Fails
          ELSE /\ head' = head \o line
               /\ Erase(Len(line) + Len(CrLf))
               /\ UNCHANGED <<state, valid, form, verdict>>

\* The header callback of Server::read_content: a part is a field or a file.
NewPart ==
    form' = Append(form, [lines |-> head, content |-> <<>>,
                          file |-> \E i \in DOMAIN head : Kind[head[i]] = "file"])

EmptyLine ==
    /\ InState(2) /\ Found(CrLf) /\ Find(CrLf) = 0
    /\ IF Len(form) = MaxParts
       THEN Fails
       ELSE /\ NewPart
            /\ Erase(Len(CrLf)) /\ state' = 3
            /\ UNCHANGED <<valid, head, verdict>>

HeaderWaits == InState(2) /\ ~Found(CrLf) /\ Waits

\* The content callback: to the part the last header began.
Receive(n) == form' = [form EXCEPT ![Len(form)].content = @ \o SubSeq(buf, 1, n)]

BodyEnds ==
    /\ InState(3) /\ Found(CrLfDashBoundary)
    /\ Receive(Find(CrLfDashBoundary))
    /\ Erase(Find(CrLfDashBoundary) + Len(CrLfDashBoundary))
    /\ state' = 4
    /\ UNCHANGED <<valid, head, verdict>>

\* A wrong BodyGoesOn, that hands out all it has.
BodyHandsOut ==
    /\ InState(3) /\ ~Found(CrLfDashBoundary)
    /\ Receive(Len(buf))
    /\ buf' = <<>>
    /\ parsing' = FALSE
    /\ UNCHANGED <<state, valid, head, verdict>>

\* No delimiter in sight: all but its length is content.
BodyGoesOn ==
    /\ InState(3) /\ ~Found(CrLfDashBoundary)
    /\ IF Len(buf) > Len(CrLfDashBoundary)
       THEN LET len == Len(buf) - Len(CrLfDashBoundary)
            IN /\ Receive(len)
               /\ buf' = SubSeq(buf, len + 1, Len(buf))
               /\ parsing' = FALSE
               /\ UNCHANGED <<state, valid, head, verdict>>
       ELSE Waits

\* CRLF: another part.  Dashes: the end, and the rest of the buffer is
\* removed; the state stays.  Anything else waits.
AfterBoundary ==
    /\ InState(4)
    /\ IF Find(CrLf) = 0 /\ Found(CrLf)
       THEN Erase(Len(CrLf)) /\ state' = 1 /\ UNCHANGED <<valid, head, form, verdict>>
       ELSE IF Find(Dashes) = 0 /\ Found(Dashes)
       THEN /\ valid' = TRUE /\ Erase(Len(buf))
            /\ UNCHANGED <<state, head, form, verdict>>
       ELSE Waits

Parse ==
    /\ \/ InitialBoundary \/ NewEntry \/ HeaderLine \/ EmptyLine \/ HeaderWaits
       \/ BodyEnds \/ BodyGoesOn \/ AfterBoundary
    /\ UNCHANGED <<items, epilogue, provider, wire>>

-----------------------------------------------------------------------------
(* Server::read_content_core                                                *)

\* A piece of the body is read and parsed.
Arrive ==
    /\ verdict = "reading" /\ ~parsing
    /\ \E n \in 1 .. Len(wire) :
           /\ buf' = buf \o SubSeq(wire, 1, n)
           /\ wire' = SubSeq(wire, n + 1, Len(wire))
    /\ parsing' = TRUE
    /\ UNCHANGED <<items, epilogue, provider, state, valid, head, form, verdict>>

\* All of the body was read, or the reader fails; a form that has not ended
\* is refused with status 400.
BodyRead ==
    /\ verdict = "reading" /\ ~parsing /\ wire = <<>> /\ sending # "yes"
    /\ verdict' = IF sending = "done" /\ valid THEN "ok" ELSE "refused"
    /\ UNCHANGED <<items, epilogue, provider, wire, parser, form>>

Init ==
    /\ items \in Forms /\ epilogue \in Epilogues
    /\ sender \in Senders
    /\ segs = IF sender = "segments" THEN Segments(items, epilogue) ELSE <<>>
    /\ \E plain \in IF sender = "stream" THEN 0 .. Len(items) ELSE {0} :
           stream = [plain |-> plain, item |-> plain + 1, start |-> 0, offset |-> 0]
    /\ buffer = <<>> /\ sending = "yes"
    /\ wire \in Preambles
    /\ state = 0 /\ valid = FALSE /\ buf = <<>> /\ parsing = FALSE /\ head = <<>>
    /\ form = <<>> /\ verdict = "reading"

Next ==
    \/ CopySegment \/ FlushRest \/ StreamPlain \/ StreamItem \/ StreamFinish \/ SendFails
    \/ Arrive \/ Parse \/ BodyRead

Spec == Init /\ [][Next]_vars

-----------------------------------------------------------------------------
(* Properties                                                               *)

Part(item) ==
    [lines |-> item.lines, content |-> item.content,
     file |-> \E i \in DOMAIN item.lines : Kind[item.lines[i]] = "file"]

\* Whatever the pieces the body arrives in, what the handler is given is a
\* beginning of what was sent: whole parts in order, and of the last one a
\* beginning of its content, never a byte of a delimiter.
FormIsAPrefix ==
    /\ Len(form) <= Len(items)
    /\ \A i \in DOMAIN form :
           LET part == Part(items[i]) IN
           /\ form[i].lines = part.lines /\ form[i].file = part.file
           /\ IsPrefix(form[i].content, part.content)
           /\ (i < Len(form) \/ state \notin {0, 3}) => form[i] = part

\* A form that is accepted is all of the form that was sent: a body cut short,
\* by the sender or on the way, is never accepted.
AcceptedIsWhole ==
    verdict = "ok" => form = [i \in DOMAIN items |-> Part(items[i])]

\* A form that was sent whole, of at least one and no more parts than the
\* limit and without a bad header line, is never refused, whatever precedes and
\* follows it.  (A form without parts has no first boundary, and is.)
WholeIsAccepted ==
    /\ verdict = "refused" /\ sending = "done" /\ Len(items) \in 1 .. MaxParts
    => \E i \in DOMAIN items : \E j \in DOMAIN items[i].lines :
           Kind[items[i].lines[j]] \in {"nameless", "malformed"}
=============================================================================
