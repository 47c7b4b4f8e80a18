-------------------------- MODULE MCRelayAndParser --------------------------
(***************************************************************************)
(* SseParser and StreamRelay for the model checker, in one run: the parser *)
(* gets a stream of bytes first, then the relay begins. They share no      *)
(* variable.                                                               *)
(***************************************************************************)
EXTENDS SseParser

LOCAL INSTANCE SequencesExt

CONSTANTS
    Task, Id, None, CAP, MaxFrames, MaxChunk,
    Content,     \* what a line may hold before its end
    MaxLines     \* the bound on the lines that an upstream sends

VARIABLES reader, in_flight, stdout, task, chan, rx_open, pump

Relay == INSTANCE StreamRelay
relay_vars == <<reader, in_flight, stdout, task, chan, rx_open, pump>>

Answered == Relay!Answered
PumpEnds == Relay!PumpEnds

BothInit == Init /\ Relay!Init

BothNext ==
    \/ Next /\ UNCHANGED relay_vars
    \/ stream = <<>> /\ Relay!Next /\ UNCHANGED vars

BothSpec ==
    /\ BothInit
    /\ [][BothNext]_<<vars, relay_vars>>
    /\ Relay!TaskFairness /\ Relay!TimeoutFairness

MCByte == {LF, CR, ":", " ", "d", "x", "?"}

\* A blank line, data with one space, two or nothing after the colon, a comment,
\* another field, and bytes that are not UTF-8.
MCContent ==
    {<<>>, <<"d", ":", " ", "x">>, <<"d", ":", " ", " ", "x">>, <<"d", ":">>,
     <<":", "x">>, <<"x">>, <<"d", ":", "?">>}

\* Lines that all end alike, the last of which may be unfinished.
MCStreams ==
    UNION {{FlattenSeq([i \in DOMAIN lines |-> lines[i] \o end]) \o rest :
               lines \in BoundedSeq(Content, MaxLines), rest \in {<<>>, <<"d", ":", "x">>}}
           : end \in {<<LF>>, <<CR, LF>>}}
=============================================================================
