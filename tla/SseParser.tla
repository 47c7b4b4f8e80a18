------------------------------ MODULE SseParser ------------------------------
(***************************************************************************)
(* The SSE frame parser of crates/oxidized-mcp-core/src/proxy.rs: bytes    *)
(* that arrive in chunks cut anywhere become the payloads of events. One   *)
(* step is one turn of a loop of the code: a byte of a chunk, a frame cut  *)
(* off the buffer, a line of that frame.                                   *)
(*                                                                         *)
(* Of the bytes these are told apart: line feed and carriage return, the   *)
(* colon and the space, "d" for the four letters of `data`, and "?" for a  *)
(* byte that is not UTF-8.                                                 *)
(***************************************************************************)
EXTENDS Integers, Sequences

CONSTANTS
    Byte,        \* the bytes there are
    Streams      \* what an upstream may send

ASSUME SseAssumption == Streams \subseteq Seq(Byte)

LF == "n"
CR == "r"

VARIABLES
    stream,      \* what the upstream is going to send, or <<>> when it is over
    at,          \* how many bytes of it have arrived
    text,        \* those of them that are not a CR; only properties read it
    pc,          \* where the pump is: it waits for a chunk, feeds it, asks for
                 \* the next event, splits a frame into lines or sends an event
    buffer,
    frame,       \* event_bytes with the two ends of line it was cut off with
    scan,        \* how many bytes of it have been split into lines
    data_lines,  \* whether there are any, and what they are when joined
    events       \* the payloads that the parser has returned

vars == <<stream, at, text, pc, buffer, frame, scan, data_lines, events>>

PumpPC == {"chunk", "feed", "next_event", "lines", "send"}
NoLines == [any |-> FALSE, joined |-> <<>>]

Init ==
    /\ stream \in Streams
    /\ at = 0 /\ text = <<>>
    /\ pc = "chunk"
    /\ buffer = <<>> /\ frame = <<>> /\ scan = 0 /\ data_lines = NoLines
    /\ events = <<>>

-----------------------------------------------------------------------------
(* SseParser::feed *)

\* Bug: a carriage return is kept.
keep_push(b) == Append(buffer, b)

push(b) == IF b = CR THEN buffer ELSE Append(buffer, b)

\* One byte of the chunk.
feed ==
    /\ pc \in {"chunk", "feed"} /\ at < Len(stream)
    /\ LET b == stream[at + 1]
       IN  /\ buffer' = push(b)
           /\ text' = IF b = CR THEN text ELSE Append(text, b)
    /\ at' = at + 1 /\ pc' = "feed"
    /\ UNCHANGED <<stream, frame, scan, data_lines, events>>

\* The chunk may end behind any byte.
ChunkEnds ==
    /\ pc = "feed" /\ pc' = "next_event"
    /\ UNCHANGED <<stream, at, text, buffer, frame, scan, data_lines, events>>

-----------------------------------------------------------------------------
(* SseParser::next_event and the pump's loop over it *)

\* windows(2).position(..): where the first blank line of the buffer begins.
Terminators == {i \in 1 .. Len(buffer) - 1 : buffer[i] = LF /\ buffer[i + 1] = LF}
FirstTerminator(t) == t \in Terminators /\ \A i \in Terminators : t <= i

\* from_utf8(&event_bytes[..term_pos])
IsUtf8(t) == \A i \in 1 .. t - 1 : buffer[i] # "?"

\* Bug: the second end of line stays.
DrainedByOne(t) == SubSeq(buffer, t + 1, Len(buffer))

\* drain(..term_pos + 2)
Drained(t) == SubSeq(buffer, t + 2, Len(buffer))

NextNone ==
    /\ pc = "next_event" /\ Terminators = {}
    /\ pc' = "chunk"
    /\ UNCHANGED <<stream, at, text, buffer, frame, scan, data_lines, events>>

SkipFrame(t) ==
    /\ pc = "next_event" /\ FirstTerminator(t) /\ ~IsUtf8(t)
    /\ buffer' = Drained(t)
    /\ UNCHANGED <<stream, at, text, pc, frame, scan, data_lines, events>>

TakeFrame(t) ==
    /\ pc = "next_event" /\ FirstTerminator(t) /\ IsUtf8(t)
    /\ pc' = "lines"
    /\ frame' = SubSeq(buffer, 1, t + 1) /\ buffer' = Drained(t)
    /\ UNCHANGED <<stream, at, text, scan, data_lines, events>>

\* strip_prefix("data:"), and strip_prefix(' ').unwrap_or(rest) of what is left
StartsWithData(line) == line # <<>> /\ Head(line) = "d" /\ Tail(line) # <<>> /\ line[2] = ":"
WithoutSpace(rest) == IF rest # <<>> /\ Head(rest) = " " THEN Tail(rest) ELSE rest

\* Bug: the lines are joined with nothing between them.
Glued(v) == [any |-> TRUE, joined |-> data_lines.joined \o v]

\* data_lines.push(v), with the join("\n") that comes later.
Pushed(v) ==
    [any |-> TRUE,
     joined |-> IF data_lines.any THEN data_lines.joined \o <<LF>> \o v ELSE v]

\* One turn of `for line in event_text.split('\n')`: the line ends before `end`.
\* An empty line, a comment and any other field is passed over.
SplitLine(end) ==
    /\ pc = "lines" /\ end \in scan + 1 .. Len(frame) - 1 /\ frame[end] = LF
    /\ \A i \in scan + 1 .. end - 1 : frame[i] # LF
    /\ LET line == SubSeq(frame, scan + 1, end - 1)
       IN  data_lines' = IF StartsWithData(line)
                         THEN Pushed(WithoutSpace(Tail(Tail(line)))) ELSE data_lines
    /\ scan' = end
    /\ UNCHANGED <<stream, at, text, pc, buffer, frame, events>>

\* All lines are read: the frame is returned as an event, or the loop goes on if
\* it holds no data.
ReturnEvent ==
    /\ pc = "lines" /\ scan = Len(frame) - 1
    /\ IF data_lines.any THEN pc' = "send" /\ events' = Append(events, data_lines.joined)
       ELSE pc' = "next_event" /\ UNCHANGED events
    /\ frame' = <<>> /\ scan' = 0 /\ data_lines' = NoLines
    /\ UNCHANGED <<stream, at, text, buffer>>

\* The event is in the channel and the pump asks for the next one.
Sent ==
    /\ pc = "send" /\ pc' = "next_event"
    /\ UNCHANGED <<stream, at, text, buffer, frame, scan, data_lines, events>>

\* The pump ends while it waits for a chunk (the response is over, or it was
\* cancelled) or at an event (the final one, or one without a receiver), and the
\* parser goes with it.
End ==
    /\ stream # <<>> /\ pc \in {"chunk", "send"}
    /\ stream' = <<>> /\ at' = 0 /\ text' = <<>> /\ pc' = "chunk"
    /\ buffer' = <<>> /\ frame' = <<>> /\ scan' = 0 /\ data_lines' = NoLines
    /\ events' = <<>>

Next ==
    \/ feed
    \/ ChunkEnds
    \/ NextNone
    \/ \E t \in 1 .. Len(buffer) : SkipFrame(t) \/ TakeFrame(t)
    \/ \E end \in 1 .. Len(frame) : SplitLine(end)
    \/ ReturnEvent
    \/ Sent
    \/ End

Spec == Init /\ [][Next]_vars

-----------------------------------------------------------------------------
(* Properties *)

\* What has been cut off the buffer for good.
Base == Len(text) - Len(buffer) - Len(frame)

Format == INSTANCE EventStream WITH
    Byte <- Byte \ {CR}, pos <- Base + scan, sent <- events,
    event <- [any |-> data_lines.any, data |-> data_lines.joined]

\* Whatever the cuts, also inside a CRLF or between the two ends of line that end
\* a frame, the parser reads the stream line by line as the format means it: it
\* returns the payloads of the events, in their order, each once, none of its
\* own making (feed and next_event over all chunks).
FindsEvents == Format!Spec

\* A pump that waits for the next chunk has returned every event that has arrived:
\* what stays in the buffer is the unfinished frame at the end and no more. It
\* begins after a blank line, or with the stream, and holds none. So the buffer
\* grows only with a frame that does not end.
BufferIsUnfinished ==
    pc = "chunk" =>
        LET start == Len(text) - Len(buffer)
        IN  /\ Terminators = {}
            /\ start >= 0 /\ buffer = SubSeq(text, start + 1, Len(text))
            /\ start # 0 => start > 1 /\ text[start - 1] = LF /\ text[start] = LF

-----------------------------------------------------------------------------
(* The inductive invariant *)

TypeOK ==
    /\ stream \in Seq(Byte) /\ at \in Nat
    /\ text \in Seq(Byte \ {CR})
    /\ pc \in PumpPC
    /\ buffer \in Seq(Byte) /\ frame \in Seq(Byte) /\ scan \in Nat
    /\ data_lines \in [any : BOOLEAN, joined : Seq(Byte)]
    /\ events \in Seq(Seq(Byte))

\* The frame and the buffer are the end of what has arrived, and what comes
\* before them ends with a blank line.
Tiling ==
    /\ Base >= 0
    /\ \A i \in 1 .. Len(frame) : text[Base + i] = frame[i]
    /\ \A i \in 1 .. Len(buffer) : text[Base + Len(frame) + i] = buffer[i]
    /\ Base # 0 => Base > 1 /\ text[Base - 1] = LF /\ text[Base] = LF

\* A frame is there while it is split into lines: UTF-8 up to the first blank
\* line, which ends it.
WholeFrame ==
    /\ Len(frame) >= 2 /\ frame[Len(frame) - 1] = LF /\ frame[Len(frame)] = LF
    /\ \A i \in 1 .. Len(frame) - 2 : frame[i] # LF \/ frame[i + 1] # LF
    /\ \A i \in 1 .. Len(frame) : frame[i] # "?"
    /\ scan < Len(frame)
    /\ IF scan = 0 THEN data_lines = NoLines ELSE frame[scan] = LF

FrameOK ==
    IF pc = "lines" THEN WholeFrame
    ELSE frame = <<>> /\ scan = 0 /\ data_lines = NoLines

ParserInv ==
    /\ TypeOK /\ Tiling /\ FrameOK
    /\ pc = "chunk" => Terminators = {}
=============================================================================
