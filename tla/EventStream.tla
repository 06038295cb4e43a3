---------------------------- MODULE EventStream -----------------------------
(***************************************************************************)
(* sse::SSEClient: a loop that reads server-sent events from a streaming   *)
(* response, reconnects, and can be stopped by another thread.             *)
(*                                                                         *)
(* The server keeps a feed of events and sends those after Last-Event-ID.  *)
(* A connection can break between any two bytes, and the chunks the client *)
(* reads end anywhere: a chunk completes any number of lines, or none.  A  *)
(* line is its field and its value; data is the sequence of its lines.     *)
(***************************************************************************)
EXTENDS Integers, Sequences, SequencesExt

CONSTANTS
    Feed,            \* the server's events: [event, data, id] records
    Noise,           \* lines the server sends before each of them
    Statuses,        \* what the server may answer instead of 200
    Limits,          \* values of max_reconnect_attempts_ (0: unlimited)
    Interval,        \* reconnect_interval_ms_, in steps of 100 ms
    MaxConnects,     \* bound: requests
    MaxStarts        \* bound: calls of start_async

VARIABLES
    max_reconnect_attempts_, reconnect_interval_ms_,
    running_, connected_, last_event_id_,
    loop,            \* where run_event_loop is
    reconnect_count, waited, current_msg,
    buffer,          \* the position in the feed of the first line it holds
    wire,            \* the position of the first line still under way
    owner, starts,   \* where the thread that starts and stops is
    handed,          \* history: events given to a handler
    connects,        \* history: requests
    failures         \* history: requests since a connection was established

config == <<max_reconnect_attempts_, reconnect_interval_ms_>>
parsing == <<buffer, current_msg, wire, handed, last_event_id_>>
vars == <<config, running_, connected_, loop, reconnect_count, waited, parsing,
          owner, starts, connects, failures>>

\* No text: an empty value, no id.
Empty == ""

Line(field, value) == [field |-> field, value |-> value]
Blank == Line("blank", Empty)
Event(event, data, id) == [event |-> event, data |-> data, id |-> id]
SSEMessage == Event("message", <<>>, Empty)

\* Every event of the feed can be asked for by its id and has data, whose first
\* line is not empty (Joined drops an empty one); what the server sends beside
\* the events is none of theirs.
EventAssumption ==
    /\ Feed \in Seq([event : STRING, data : Seq(STRING) \ {<<>>}, id : STRING \ {Empty}])
    /\ \A k, l \in DOMAIN Feed : Feed[k].id = Feed[l].id => k = l
    /\ \A k \in DOMAIN Feed : Feed[k].data[1] # Empty
    /\ Noise \in Seq({Blank, Line("comment", Empty)} \cup [field : {"retry"}, value : Int])
    /\ Limits \subseteq Nat /\ Interval \in Int

\* An event as lines.
LinesOf(e) ==
    Noise
    \o (IF e.event = "message" THEN <<>> ELSE <<Line("event", e.event)>>)
    \o <<Line("id", e.id)>>
    \o [i \in DOMAIN e.data |-> Line("data", e.data[i])]
    \o <<Blank>>

\* A position in the feed: after so many events, and so many lines of the next.
Position(event, line) == [event |-> event, line |-> line]
LineCount(p) == IF p.event = Len(Feed) THEN 1 ELSE Len(LinesOf(Feed[p.event + 1]))
\* p is q, or comes after it.
After(p, q) == \/ q.event < p.event
               \/ q.event = p.event /\ q.line <= p.line
NextLine(p) ==
    IF p.line + 1 = LineCount(p) THEN Position(p.event + 1, 0)
    ELSE Position(p.event, p.line + 1)

\* Where the server begins for a client that has seen the event with this id.
Resume(id) == Position(SelectLastInSeq(Feed, LAMBDA e : id # Empty /\ e.id = id), 0)

-----------------------------------------------------------------------------
(* Requests                                                                 *)

Goto(l) == loop' = l

Top ==
    /\ loop = "top"
    /\ \/ ~running_ /\ Goto("off") /\ connected_' = FALSE
       \/ running_ /\ connects < MaxConnects /\ Goto("connect") /\ UNCHANGED connected_
    /\ UNCHANGED <<config, running_, reconnect_count, waited, parsing, owner, starts, connects,
                   failures>>

\* 204, 404 and 403 are final; 401 is not, so that a handler can refresh the
\* credentials.
Permanent == {204, 404, 403}

\* stream::Get fails, or brings a status other than 200.
ConnectFails ==
    /\ loop = "connect"
    /\ connected_' = FALSE
    /\ \E status \in Statuses :
          IF status \in Permanent THEN Goto("off") ELSE Goto("again")
    /\ connects' = connects + 1
    /\ failures' = failures + 1
    /\ UNCHANGED <<config, running_, reconnect_count, waited, parsing, owner, starts>>

Connected ==
    /\ loop = "connect"
    /\ connected_' = TRUE
    /\ reconnect_count' = 0
    /\ current_msg' = SSEMessage
    /\ wire' = Resume(last_event_id_) /\ buffer' = wire'
    /\ Goto("next")
    /\ connects' = connects + 1
    /\ failures' = 0
    /\ UNCHANGED <<config, running_, waited, owner, starts, handed, last_event_id_>>

-----------------------------------------------------------------------------
(* Reading                                                                  *)

\* The loop's condition: running_ is read, then next() blocks.
NextTurn ==
    /\ loop = "next"
    /\ Goto(IF running_ THEN "read" ELSE "ended")
    /\ UNCHANGED <<config, running_, connected_, reconnect_count, waited, parsing,
                   owner, starts, connects, failures>>

\* stream::Result::next: a chunk; the lines it completes are in the buffer.
Chunk ==
    /\ loop = "read" /\ wire.event < Len(Feed)
    /\ \E event \in wire.event .. Len(Feed) :
          \E line \in 0 .. LineCount(Position(event, 0)) - 1 :
             After(Position(event, line), wire) /\ wire' = Position(event, line)
    /\ Goto("lines")
    /\ UNCHANGED <<config, running_, connected_, reconnect_count, waited, buffer, current_msg,
                   handed, last_event_id_, owner, starts, connects, failures>>

\* The end of the response, a read error or the read timeout.
StreamEnds ==
    /\ loop = "read"
    /\ Goto("ended")
    /\ UNCHANGED <<config, running_, connected_, reconnect_count, waited, parsing,
                   owner, starts, connects, failures>>

\* Lines of data are joined by a newline unless there is nothing yet.
Joined(data, value) ==
    IF data = <<>> /\ value = Empty THEN <<>> ELSE Append(data, value)

\* parse_sse_line on a line that does not end the event.
parse_sse_line(msg, l) ==
    CASE l.field = "event" -> [msg EXCEPT !.event = l.value]
      [] l.field = "data"  -> [msg EXCEPT !.data = Joined(@, l.value)]
      [] l.field = "id"    -> [msg EXCEPT !.id = l.value]
      [] OTHER -> msg                \* a comment, a line without a colon, retry

\* The next line of the buffer.
HeadLine == LinesOf(Feed[buffer.event + 1])[buffer.line + 1]

Retry(l) == IF l.field = "retry" THEN l.value ELSE reconnect_interval_ms_

\* A wrong ParseLine, that remembers the id before its event is complete.
ParseLineEarly ==
    /\ loop = "lines" /\ buffer # wire /\ HeadLine # Blank
    /\ buffer' = NextLine(buffer)
    /\ current_msg' = parse_sse_line(current_msg, HeadLine)
    /\ last_event_id_' = IF HeadLine.field = "id" THEN HeadLine.value
                         ELSE last_event_id_
    /\ reconnect_interval_ms_' = Retry(HeadLine)
    /\ UNCHANGED <<max_reconnect_attempts_, running_, connected_, loop, reconnect_count,
                   waited, wire, handed, owner, starts, connects, failures>>

\* A line of the buffer.
ParseLine ==
    /\ loop = "lines" /\ buffer # wire /\ HeadLine # Blank
    /\ buffer' = NextLine(buffer)
    /\ current_msg' = parse_sse_line(current_msg, HeadLine)
    /\ reconnect_interval_ms_' = Retry(HeadLine)
    /\ UNCHANGED <<max_reconnect_attempts_, running_, connected_, loop, reconnect_count,
                   waited, wire, handed, last_event_id_, owner, starts, connects, failures>>

\* A blank line: the event is dispatched if it has data, and is kept if not.
EndOfEvent ==
    /\ loop = "lines" /\ buffer # wire /\ HeadLine = Blank
    /\ buffer' = NextLine(buffer)
    /\ \/ /\ current_msg.data # <<>>
          /\ last_event_id_' = IF current_msg.id = Empty THEN last_event_id_
                               ELSE current_msg.id
          /\ handed' = Append(handed, current_msg)
          /\ current_msg' = SSEMessage
       \/ /\ current_msg.data = <<>>
          /\ UNCHANGED <<last_event_id_, handed, current_msg>>
    /\ UNCHANGED <<config, running_, connected_, loop, reconnect_count, waited, wire,
                   owner, starts, connects, failures>>

BufferDone ==
    /\ loop = "lines" /\ buffer = wire
    /\ Goto("next")
    /\ UNCHANGED <<config, running_, connected_, reconnect_count, waited, parsing,
                   owner, starts, connects, failures>>

-----------------------------------------------------------------------------
(* Reconnecting                                                             *)

Ended ==
    /\ loop = "ended"
    /\ connected_' = FALSE
    /\ Goto(IF running_ THEN "again" ELSE "off")
    /\ UNCHANGED <<config, running_, reconnect_count, waited, parsing, owner, starts, connects,
                   failures>>

should_reconnect ==
    /\ running_
    /\ max_reconnect_attempts_ # 0 => reconnect_count < max_reconnect_attempts_

Again ==
    /\ loop = "again"
    /\ Goto(IF should_reconnect THEN "wait" ELSE "off")
    /\ waited' = 0
    /\ UNCHANGED <<config, running_, connected_, reconnect_count, parsing, owner, starts,
                   connects, failures>>

wait_for_reconnect ==
    /\ loop = "wait"
    /\ IF running_ /\ waited < reconnect_interval_ms_
         THEN waited' = waited + 1 /\ UNCHANGED <<loop, reconnect_count>>
         ELSE Goto("top") /\ reconnect_count' = reconnect_count + 1 /\ UNCHANGED waited
    /\ UNCHANGED <<config, running_, connected_, parsing, owner, starts, connects, failures>>

-----------------------------------------------------------------------------
(* start_async and stop: client_.stop() does not reach the connection, which *)
(* belongs to the stream; the loop ends when its read does.                  *)

start_async ==
    /\ owner = "idle" /\ starts < MaxStarts
    /\ owner' = "started" /\ starts' = starts + 1
    /\ running_' = TRUE
    /\ Goto("top") /\ reconnect_count' = 0
    /\ failures' = 0
    /\ UNCHANGED <<config, connected_, waited, parsing, connects>>

\* A wrong stop, that leaves running_.
StopForgets ==
    /\ owner = "started"
    /\ owner' = "join"
    /\ UNCHANGED running_
    /\ UNCHANGED <<config, connected_, loop, reconnect_count, waited, parsing, connects,
                   failures, starts>>

stop ==
    /\ owner = "started"
    /\ owner' = "join"
    /\ running_' = FALSE
    /\ UNCHANGED <<config, connected_, loop, reconnect_count, waited, parsing, connects,
                   failures, starts>>

Join ==
    /\ owner = "join" /\ loop = "off"
    /\ owner' = "idle"
    /\ UNCHANGED <<config, running_, connected_, loop, reconnect_count, waited, parsing,
                   connects, failures, starts>>

-----------------------------------------------------------------------------
Init ==
    /\ max_reconnect_attempts_ \in Limits /\ reconnect_interval_ms_ = Interval
    /\ running_ = FALSE /\ connected_ = FALSE /\ last_event_id_ = Empty
    /\ loop = "off" /\ reconnect_count = 0 /\ waited = 0
    /\ buffer = Position(0, 0) /\ current_msg = SSEMessage /\ wire = Position(0, 0)
    /\ owner = "idle" /\ starts = 0
    /\ handed = <<>> /\ connects = 0 /\ failures = 0

LoopStep ==
    \/ Top \/ ConnectFails \/ Connected \/ NextTurn \/ Chunk \/ StreamEnds
    \/ ParseLine \/ EndOfEvent \/ BufferDone \/ Ended \/ Again \/ wait_for_reconnect

Next == LoopStep \/ start_async \/ stop \/ Join

\* The loop has a step at any time, because requests and reads time out.
Fairness == WF_vars(LoopStep) /\ WF_vars(Join)
FairSpec == Init /\ [][Next]_vars /\ Fairness

-----------------------------------------------------------------------------
TypeOK ==
    /\ running_ \in BOOLEAN /\ (running_ <=> owner = "started")
    /\ connected_ \in BOOLEAN /\ (connected_ <=> loop \in {"next", "read", "lines", "ended"})
    /\ max_reconnect_attempts_ \in Limits /\ reconnect_interval_ms_ \in Int
    /\ buffer # wire => loop = "lines"
    /\ loop \in {"off", "top", "connect", "next", "read", "lines", "ended", "again", "wait"}

\* Over any number of broken connections the handlers get the events of the
\* feed in order, each once and whole: what Last-Event-ID asks for is what
\* follows the last event that was handed over, and no half of one survives
\* the connection it came on.
NoGapNoDuplicate == IsPrefix(handed, Feed)

\* The loop stops asking once max_reconnect_attempts_ reconnections in a row
\* have failed.
FailuresBounded ==
    max_reconnect_attempts_ # 0 => failures <= max_reconnect_attempts_ + 1

\* Once stop() has returned the loop is over: no handler will run.
QuietAfterStop == owner = "idle" => loop = "off"

\* stop() returns, whatever the loop is doing.
StopReturns == owner = "join" ~> owner = "idle"
=============================================================================
