----------------------------- MODULE EventStream -----------------------------
(***************************************************************************)
(* What a stream of server-sent events means, line by line: a data field   *)
(* adds its value to the event it is part of, a blank line ends the event, *)
(* and an event that is not UTF-8 is lost as a whole. SseParser, which     *)
(* looks for whole frames in a buffer instead, implements it.              *)
(***************************************************************************)
EXTENDS Integers, Sequences

CONSTANT Byte    \* the bytes that mean something: all but the carriage return

VARIABLES
    text,        \* the bytes that have arrived
    pos,         \* how many of them have been read
    event,       \* what the lines since the last blank one have told
    sent         \* the payloads of the events that are complete

vars == <<text, pos, event, sent>>

NoEvent == [any |-> FALSE, data |-> <<>>]

Init == text = <<>> /\ pos = 0 /\ event = NoEvent /\ sent = <<>>

Arrive ==
    /\ \E b \in Byte : text' = Append(text, b)
    /\ UNCHANGED <<pos, event, sent>>

Utf8(first, last) == \A i \in first .. last : text[i] # "?"

\* The next line that is unread ends at the line feed `end`.
LineEnds(end) ==
    /\ end \in pos + 1 .. Len(text) /\ text[end] = "n"
    /\ \A i \in pos + 1 .. end - 1 : text[i] # "n"

\* A field with its value: one space after the colon is not part of it. Other
\* fields and comments say nothing.
IsData(line) == Len(line) >= 2 /\ line[1] = "d" /\ line[2] = ":"
Value(line) ==
    SubSeq(line, IF Len(line) > 2 /\ line[3] = " " THEN 4 ELSE 3, Len(line))

\* The event with one more data line.
With(line) ==
    [any |-> TRUE,
     data |-> IF event.any THEN event.data \o <<"n">> \o Value(line) ELSE Value(line)]

Field(end) ==
    /\ LineEnds(end) /\ end > pos + 1 /\ Utf8(pos + 1, end - 1)
    /\ LET line == SubSeq(text, pos + 1, end - 1)
       IN  event' = IF IsData(line) THEN With(line) ELSE event
    /\ pos' = end
    /\ UNCHANGED <<text, sent>>

Dispatch ==
    /\ LineEnds(pos + 1)
    /\ sent' = IF event.any THEN Append(sent, event.data) ELSE sent
    /\ pos' = pos + 1 /\ event' = NoEvent
    /\ UNCHANGED text

\* The blank line that ends the event is at `end`; somewhere before it a byte is
\* not UTF-8.
Skip(end) ==
    /\ ~event.any
    /\ end \in pos + 2 .. Len(text) /\ text[end - 1] = "n" /\ text[end] = "n"
    /\ \A i \in pos + 1 .. end - 2 : text[i] # "n" \/ text[i + 1] # "n"
    /\ ~Utf8(pos + 1, end)
    /\ pos' = end
    /\ UNCHANGED <<text, event, sent>>

End == text' = <<>> /\ pos' = 0 /\ event' = NoEvent /\ sent' = <<>>

Next ==
    \/ Arrive
    \/ \E end \in 1 .. Len(text) : Field(end) \/ Skip(end)
    \/ Dispatch
    \/ End

Spec == Init /\ [][Next]_vars
=============================================================================
