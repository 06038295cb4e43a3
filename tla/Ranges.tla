------------------------------- MODULE Ranges -------------------------------
(***************************************************************************)
(* A request with a Range header, from the header to the bytes that leave: *)
(* parse_range_header, the handler, range_error, coalesce_ranges,          *)
(* apply_ranges and the writers.  They share the list of ranges, and each  *)
(* relies on what the one before made of it.                               *)
(***************************************************************************)
EXTENDS Integers, Sequences, FiniteSets

CONSTANTS
    RangeHeaders,   \* the headers sent: sequences of pairs <<first, last>>
    Lengths,        \* lengths of the content
    Handlers,       \* what a handler does: [content, status]
    RangeMaxCount   \* CPPHTTPLIB_RANGE_MAX_COUNT

None == -1          \* a position left out; the handler sets no status
Huge == -2          \* digits that do not fit a ssize_t
Junk == -3          \* no digits at all

\* The constants are of their kinds.
RangesAssumption ==
    LET Positions == Nat \cup {None, Huge, Junk}
    IN /\ RangeHeaders \subseteq Seq(Positions \X Positions)
       /\ Lengths \subseteq Nat /\ RangeMaxCount \in Nat
       /\ Handlers \subseteq [content : {"body", "provider", "stream", "none"},
                              status : Nat \cup {None}]

VARIABLES
    header,         \* the Range header, <<>> when there is none
    length,         \* length of the content
    content,        \* "body", "provider" (of known length), "stream", "none"
    ranges,         \* req.ranges
    status,
    step,           \* "parse", "handle", "check", "apply", "write", "done"
    announced,      \* Content-Length, None when there is none
    contentRange,   \* the Content-Range header, <<>> when there is none
    written         \* pieces <<offset, length>> of the content that were written

vars == <<header, length, content, ranges, status, step, announced, contentRange, written>>

-----------------------------------------------------------------------------

\* from_chars: digits that do not fit leave the position out.
Position(p) == IF p = Huge THEN None ELSE p

ValidSpec(spec) ==
    /\ Junk \notin {spec[1], spec[2]}
    /\ LET first == Position(spec[1]) last == Position(spec[2])
       IN /\ first # None \/ last # None
          /\ first # None /\ last # None => first <= last

\* A bad header is answered with 416 before any handler runs.
parse_range_header ==
    /\ step = "parse"
    /\ IF \A i \in DOMAIN header : ValidSpec(header[i])
       THEN /\ ranges' = [i \in DOMAIN header |->
                             <<Position(header[i][1]), Position(header[i][2])>>]
            /\ step' = "handle" /\ UNCHANGED <<status, announced>>
       ELSE /\ status' = 416 /\ announced' = 0 /\ step' = "done"
            /\ UNCHANGED ranges
    /\ UNCHANGED <<header, length, content, contentRange, written>>

\* The handler sets the content, and a status or leaves it to the library.
Handle ==
    /\ step = "handle"
    /\ \E h \in Handlers :
           /\ content' = h.content
           /\ status' = IF h.status # None THEN h.status
                        ELSE IF ranges = <<>> THEN 200 ELSE 206
    /\ step' = "check"
    /\ UNCHANGED <<header, length, ranges, announced, contentRange, written>>

\* The length range_error goes by: a stream has none.
KnownLength == IF content \in {"body", "provider"} THEN length ELSE 0

Clip(last) == IF last = None \/ last >= KnownLength THEN KnownLength - 1 ELSE last

\* A suffix is counted from the end, a last position clipped to the content.
Resolve(r) ==
    IF r[1] = None THEN <<KnownLength - r[2], KnownLength - 1>>
    ELSE <<r[1], Clip(r[2])>>

Resolved == [i \in DOMAIN ranges |-> Resolve(ranges[i])]

Within(r) == 0 <= r[1] /\ r[1] <= r[2] /\ r[2] <= KnownLength - 1

Overlap(r, s) == ~(r[2] < s[1] \/ r[1] > s[2])

\* Ranges that overlap an earlier one; more than two are refused.
Overwrapping ==
    {i \in DOMAIN ranges : \E j \in 1 .. (i - 1) : Overlap(Resolved[i], Resolved[j])}

RangeError ==
    \/ Len(ranges) > RangeMaxCount
    \/ \E i \in DOMAIN ranges : ~Within(Resolved[i])
    \/ Cardinality(Overwrapping) > 2

\* A wrong Join, that forgets how far the earlier range went.
JoinLast(joined, r) ==
    LET prev == joined[Len(joined)]
    IN IF joined # <<>> /\ r[1] <= prev[2] + 1 /\ r # prev
       THEN [joined EXCEPT ![Len(joined)][2] = r[2]]
       ELSE Append(joined, r)

\* A range that overlaps or follows the one before extends it; an identical
\* one is kept apart.
Join(joined, r) ==
    LET prev == joined[Len(joined)]
    IN IF joined # <<>> /\ r[1] <= prev[2] + 1 /\ r # prev
       THEN [joined EXCEPT ![Len(joined)][2] = IF r[2] > @ THEN r[2] ELSE @]
       ELSE Append(joined, r)

\* coalesce_ranges.  std::sort may put ranges with one first position in any
\* order.
Sorted(rs) ==
    {sorted \in {[i \in DOMAIN rs |-> rs[p[i]]] :
                     p \in {f \in [DOMAIN rs -> DOMAIN rs] :
                                \A i, j \in DOMAIN rs : i # j => f[i] # f[j]}} :
         \A i, j \in DOMAIN rs : i < j => sorted[i][1] <= sorted[j][1]}

Joined(sorted) ==
    LET joined[n \in 0 .. Len(sorted)] ==
            IF n = 0 THEN <<>> ELSE Join(joined[n - 1], sorted[n])
    IN joined[Len(sorted)]

coalesce_ranges ==
    IF Len(ranges) <= 1 THEN ranges' = Resolved
    ELSE \E sorted \in Sorted(Resolved) : ranges' = Joined(sorted)

\* range_error looks at 2xx responses only; a refused one loses its content.
Check ==
    /\ step = "check" /\ step' = "apply"
    /\ IF ranges = <<>> \/ status \notin 200 .. 299
       THEN UNCHANGED <<ranges, content, status>>
       ELSE IF RangeError
       THEN status' = 416 /\ content' = "none" /\ UNCHANGED ranges
       ELSE coalesce_ranges /\ UNCHANGED <<content, status>>
    /\ UNCHANGED <<header, length, announced, contentRange, written>>

-----------------------------------------------------------------------------

\* get_range_offset_and_length, and what it asserts.
IsResolved(r) == None \notin {r[1], r[2]} /\ 0 <= r[1] /\ r[1] <= r[2] /\ r[2] < length

Piece(r) == <<r[1], r[2] - r[1] + 1>>

Pieces == [i \in DOMAIN ranges |-> Piece(ranges[i])]

Sum(pieces) ==
    LET upto[n \in 0 .. Len(pieces)] == IF n = 0 THEN 0 ELSE upto[n - 1] + pieces[n][2]
    IN upto[Len(pieces)]

Partial == ranges # <<>> /\ status = 206

\* apply_ranges announces what will be written, and cuts a body at once.  The
\* headers and delimiters of a multipart answer count the same in what is
\* announced and in what is written: both leave them out here.
apply_ranges ==
    /\ step = "apply" /\ step' = "write"
    /\ announced' = IF content = "stream" THEN None
                    ELSE IF content = "none" THEN 0
                    ELSE IF Partial THEN Sum(Pieces) ELSE length
    /\ contentRange' = IF Partial /\ content \in {"body", "provider"} /\ Len(ranges) = 1
                       THEN ranges[1] ELSE <<>>
    /\ UNCHANGED <<header, length, content, ranges, status, written>>

Whole == IF length = 0 THEN <<>> ELSE << <<0, length>> >>

\* write_content_with_provider goes by the ranges alone.
WriteProvider ==
    /\ content = "provider"
    /\ written' = IF ranges = <<>> \/ length = 0 THEN Whole ELSE Pieces

WriteBody ==
    /\ content = "body"
    /\ written' = IF Partial THEN Pieces ELSE Whole

WriteStream == content = "stream" /\ written' = Whole

WriteNothing == content = "none" /\ UNCHANGED written

Write ==
    /\ step = "write" /\ step' = "done"
    /\ WriteProvider \/ WriteBody \/ WriteStream \/ WriteNothing
    /\ UNCHANGED <<header, length, content, ranges, status, announced, contentRange>>

Init ==
    /\ header \in RangeHeaders /\ length \in Lengths
    /\ content = "none" /\ ranges = <<>> /\ status = None /\ step = "parse"
    /\ announced = None /\ contentRange = <<>> /\ written = <<>>

Next == parse_range_header \/ Handle \/ Check \/ apply_ranges \/ Write

Spec == Init /\ [][Next]_vars

-----------------------------------------------------------------------------
(* Properties                                                               *)

\* The bytes of the content that a pair of the header asks for (RFC 9110,
\* 14.1.2, the definition range_error's comment quotes).
Asks(spec) ==
    IF spec[1] = None THEN (length - spec[2]) .. (length - 1)
    ELSE {p \in 0 .. (length - 1) :
             p >= spec[1] /\ (spec[2] \in {None, Huge} \/ p <= spec[2])}

Asked == UNION {Asks(header[i]) : i \in DOMAIN header}

Bytes(piece) == piece[1] .. (piece[1] + piece[2] - 1)

\* A partial answer carries exactly the bytes asked for, however its ranges
\* were written, overlapped and joined; its pieces go forward, and two of them
\* share or touch bytes only when the header asks for some range twice.
PartsAreWhatWasAsked ==
    step = "done" /\ status = 206 /\ header # <<>> =>
        /\ UNION {Bytes(written[i]) : i \in DOMAIN written} = Asked
        /\ \A i, j \in DOMAIN written : i < j =>
               /\ written[i][1] <= written[j][1]
               /\ \/ written[i][1] + written[i][2] < written[j][1]
                  \/ \E a, b \in DOMAIN header : a # b /\ Asks(header[a]) = Asks(header[b])

\* The bytes written are as many as the headers announce, and the Content-Range
\* names them: the next response begins where the client expects it.
AnnouncedIsWritten ==
    step = "done" =>
        /\ announced # None => announced = Sum(written)
        /\ contentRange # <<>> => written = << Piece(contentRange) >>

\* get_range_offset_and_length is given positions inside the content, by
\* apply_ranges and by the writers (the assertions at its head).
RangesAreResolved ==
    \/ step = "apply" /\ content \in {"body", "provider"} /\ Partial
    \/ step = "write" /\ content = "provider" /\ length > 0
    => \A i \in DOMAIN ranges : IsResolved(ranges[i])

\* An answer that is not partial and has content carries all of it.
OtherwiseWhole ==
    step = "done" /\ status # 206 /\ content # "none" => written = Whole
=============================================================================
