----------------------------- MODULE StreamRelay -----------------------------
(***************************************************************************)
(* The relay of tools/call requests between the IDE and streaming skills:  *)
(* the stdin loop, the dispatch tasks and the registry of cancel handles   *)
(* of crates/oxidized-mcp/src/stdio.rs, and the SSE pumps of               *)
(* crates/oxidized-mcp-core/src/proxy.rs.                                  *)
(*                                                                         *)
(* A Task stands for one request: its dispatch task, its SseStream (a      *)
(* bounded channel and a tokio Notify) and its pump. It is used again when *)
(* nobody holds any part of it. The IDE uses an id again once the request  *)
(* that had it is answered.                                                *)
(***************************************************************************)
EXTENDS Naturals, Sequences

CONSTANTS
    Task, Id,
    None,
    CAP,         \* capacity of the channel (64)
    MaxFrames,   \* bound on the SSE frames of one stream
    MaxChunk     \* bound on the frames that arrive in one chunk

ASSUME StreamRelayAssumption ==
    /\ None \notin Task /\ None \notin Id
    /\ CAP \in Nat \ {0} /\ MaxChunk \in Nat \ {0} /\ MaxFrames \in Nat

\* What decode_sse_payload makes of a frame; "lost" is the error the pump adds
\* itself when the response ends. Frames are numbered per stream.
Frame == [kind : {"note", "final", "bad", "lost"}, n : Nat]

TaskPC == {"free", "spawned", "opening", "register", "relay", "write",
           "remove", "respond", "drop"}
Reply == {"none", "plain", "open_failed", "final", "error", "cancelled",
          "write_failed"}
PumpPC == {"none", "loop", "select", "send", "last", "exited"}

VARIABLES
    reader,      \* None, or the handle the stdin loop is about to fire
    in_flight,   \* id -> the task whose cancel handle it names
    stdout,      \* FALSE once the IDE has closed its end
    task,        \* locals of dispatch and stream_tool_call
    chan,        \* the mpsc channel of each stream
    rx_open,     \* its receiver has not been dropped
    pump         \* locals of pump_sse

vars == <<reader, in_flight, stdout, task, chan, rx_open, pump>>

TaskState == [pc : TaskPC, id : Id \cup {None}, reply : Reply,
              written : Nat, n : Nat, fired : BOOLEAN]
PumpState == [pc : PumpPC, frames : Seq(Frame), woken : BOOLEAN,
              emitted : 0 .. MaxFrames]

\* `written` counts the notifications written, `n` numbers the frame the reply
\* came from, `fired` records a cancellation; only properties read them.
FreeTask == [pc |-> "free", id |-> None, reply |-> "none", written |-> 0,
             n |-> 0, fired |-> FALSE]
NoPump == [pc |-> "none", frames |-> <<>>, woken |-> FALSE, emitted |-> 0]

Init ==
    /\ reader = None
    /\ in_flight = [i \in Id |-> None]
    /\ stdout = TRUE
    /\ task = [t \in Task |-> FreeTask]
    /\ chan = [t \in Task |-> <<>>]
    /\ rx_open = [t \in Task |-> FALSE]
    /\ pump = [t \in Task |-> NoPump]

\* notify_waiters wakes a pump parked in select!, and stores nothing for one
\* that is somewhere else.
Notified(t) == [pump[t] EXCEPT !.woken = @ \/ pump[t].pc = "select"]

-----------------------------------------------------------------------------
(* The stdin loop *)

Outstanding(i) == \E t \in Task : task[t].id = i /\ task[t].pc # "drop"

ReadRequest(t, i) ==
    /\ reader = None
    /\ task[t].pc = "free" /\ pump[t].pc \in {"none", "exited"}
    /\ ~Outstanding(i)
    /\ task' = [task EXCEPT ![t] = [FreeTask EXCEPT !.pc = "spawned", !.id = i]]
    /\ pump' = [pump EXCEPT ![t] = NoPump]
    /\ UNCHANGED <<reader, in_flight, stdout, chan, rx_open>>

\* The handle is cloned under the map's mutex; an unknown id is ignored.
ReadCancel(i) ==
    /\ reader = None
    /\ in_flight[i] # None
    /\ reader' = in_flight[i]
    /\ UNCHANGED <<in_flight, stdout, task, chan, rx_open, pump>>

\* It is fired after the mutex is released.
FireCancel ==
    /\ reader # None
    /\ pump' = [pump EXCEPT ![reader] = Notified(reader)]
    /\ task' = [task EXCEPT ![reader].fired = TRUE]
    /\ reader' = None
    /\ UNCHANGED <<in_flight, stdout, chan, rx_open>>

\* The IDE goes away: writes to stdout fail from now on.
StdoutBreaks ==
    /\ stdout
    /\ stdout' = FALSE
    /\ UNCHANGED <<reader, in_flight, task, chan, rx_open, pump>>

-----------------------------------------------------------------------------
(* A dispatch task *)

\* Everything but a streaming tools/call: one reply, no stream.
HandleRequest(t) ==
    /\ task[t].pc = "spawned"
    /\ task' = [task EXCEPT ![t].pc = "respond", ![t].reply = "plain"]
    /\ UNCHANGED <<reader, in_flight, stdout, chan, rx_open, pump>>

OpenStream(t) ==
    /\ task[t].pc = "spawned"
    /\ task' = [task EXCEPT ![t].pc = "opening"]
    /\ UNCHANGED <<reader, in_flight, stdout, chan, rx_open, pump>>

OpenFails(t) ==
    /\ task[t].pc = "opening"
    /\ task' = [task EXCEPT ![t].pc = "respond", ![t].reply = "open_failed"]
    /\ UNCHANGED <<reader, in_flight, stdout, chan, rx_open, pump>>

\* The response headers are in: the channel, the Notify and the pump exist
\* before the cancel handle is registered.
OpenSucceeds(t) ==
    /\ task[t].pc = "opening"
    /\ task' = [task EXCEPT ![t].pc = "register"]
    /\ rx_open' = [rx_open EXCEPT ![t] = TRUE]
    /\ pump' = [pump EXCEPT ![t] = [NoPump EXCEPT !.pc = "loop"]]
    /\ UNCHANGED <<reader, in_flight, stdout, chan>>

Register(t) ==
    /\ task[t].pc = "register"
    /\ in_flight' = [in_flight EXCEPT ![task[t].id] = t]
    /\ task' = [task EXCEPT ![t].pc = "relay"]
    /\ UNCHANGED <<reader, stdout, chan, rx_open, pump>>

ReplyTo(f) == IF f.kind = "final" THEN "final" ELSE "error"

Recv(t) ==
    /\ task[t].pc = "relay" /\ chan[t] # <<>>
    /\ LET f == Head(chan[t])
       IN  task' = [task EXCEPT ![t] =
                      IF f.kind = "note" THEN [@ EXCEPT !.pc = "write"]
                      ELSE [@ EXCEPT !.pc = "remove", !.reply = ReplyTo(f),
                                     !.n = f.n]]
    /\ chan' = [chan EXCEPT ![t] = Tail(@)]
    /\ UNCHANGED <<reader, in_flight, stdout, rx_open, pump>>

\* The pump dropped its sender and the channel is drained.
RecvClosed(t) ==
    /\ task[t].pc = "relay" /\ chan[t] = <<>> /\ pump[t].pc = "exited"
    /\ task' = [task EXCEPT ![t].pc = "remove", ![t].reply = "cancelled"]
    /\ UNCHANGED <<reader, in_flight, stdout, chan, rx_open, pump>>

WriteNotification(t) ==
    /\ task[t].pc = "write" /\ stdout
    /\ task' = [task EXCEPT ![t].pc = "relay", ![t].written = @ + 1]
    /\ UNCHANGED <<reader, in_flight, stdout, chan, rx_open, pump>>

\* Bug: the cancel() on the way out makes the answer a cancelled one.
BlamingWriteFails(t) ==
    /\ task[t].pc = "write" /\ ~stdout
    /\ pump' = [pump EXCEPT ![t] = Notified(t)]
    /\ task' = [task EXCEPT ![t].pc = "remove", ![t].reply = "cancelled"]
    /\ UNCHANGED <<reader, in_flight, stdout, chan, rx_open>>

\* stream.cancel() and an error reply.
WriteFails(t) ==
    /\ task[t].pc = "write" /\ ~stdout
    /\ pump' = [pump EXCEPT ![t] = Notified(t)]
    /\ task' = [task EXCEPT ![t].pc = "remove", ![t].reply = "write_failed"]
    /\ UNCHANGED <<reader, in_flight, stdout, chan, rx_open>>

\* Bug: the handle goes after the reply, when the id may be in use again.
LateRemove(t) ==
    \/ /\ task[t].pc = "remove"
       /\ task' = [task EXCEPT ![t].pc = "respond"]
       /\ UNCHANGED <<reader, in_flight, stdout, chan, rx_open, pump>>
    \/ /\ task[t].pc = "drop" /\ in_flight[task[t].id] # None
       /\ in_flight' = [in_flight EXCEPT ![task[t].id] = None]
       /\ UNCHANGED <<reader, stdout, task, chan, rx_open, pump>>

Remove(t) ==
    /\ task[t].pc = "remove"
    /\ in_flight' = [in_flight EXCEPT ![task[t].id] = None]
    /\ task' = [task EXCEPT ![t].pc = "respond"]
    /\ UNCHANGED <<reader, stdout, chan, rx_open, pump>>

\* Written, or lost with the IDE: the task ends either way.
WriteResponse(t) ==
    /\ task[t].pc = "respond"
    /\ task' = [task EXCEPT ![t].pc = "drop"]
    /\ UNCHANGED <<reader, in_flight, stdout, chan, rx_open, pump>>

\* The SseStream goes out of scope: its receiver closes, its Drop notifies.
DropStream(t) ==
    /\ task[t].pc = "drop"
    /\ task' = [task EXCEPT ![t] = FreeTask]
    /\ rx_open' = [rx_open EXCEPT ![t] = FALSE]
    /\ chan' = [chan EXCEPT ![t] = <<>>]
    /\ pump' = [pump EXCEPT ![t] = Notified(t)]
    /\ UNCHANGED <<reader, in_flight, stdout>>

DispatchStep(t) ==
    \/ HandleRequest(t)
    \/ OpenStream(t)
    \/ OpenFails(t)
    \/ OpenSucceeds(t)
    \/ Register(t)
    \/ Recv(t)
    \/ RecvClosed(t)
    \/ WriteNotification(t)
    \/ WriteFails(t)
    \/ Remove(t)
    \/ WriteResponse(t)
    \/ DropStream(t)

-----------------------------------------------------------------------------
(* The pump of a stream *)

PumpTo(t, l) == pump' = [pump EXCEPT ![t].pc = l]

\* Polling the select! registers the waiter before it looks for a chunk.
PumpSelect(t) ==
    /\ pump[t].pc = "loop"
    /\ PumpTo(t, "select")
    /\ UNCHANGED <<reader, in_flight, stdout, task, chan, rx_open>>

\* Biased: a cancellation that woke the pump wins over a chunk.
PumpCancelled(t) ==
    /\ pump[t].pc = "select" /\ pump[t].woken
    /\ PumpTo(t, "exited")
    /\ UNCHANGED <<reader, in_flight, stdout, task, chan, rx_open>>

\* A chunk of the frames `kinds`; SseParser makes the same of other cuts.
PumpChunk(t, kinds) ==
    /\ pump[t].pc = "select" /\ ~pump[t].woken
    /\ pump[t].emitted + Len(kinds) <= MaxFrames
    /\ pump' = [pump EXCEPT
            ![t].pc = "send",
            ![t].frames = [i \in 1 .. Len(kinds) |->
                             [kind |-> kinds[i], n |-> pump[t].emitted + i]],
            ![t].emitted = @ + Len(kinds)]
    /\ UNCHANGED <<reader, in_flight, stdout, task, chan, rx_open>>

\* Bug: the end of the response is not reported.
SilentUpstreamEnds(t) ==
    /\ pump[t].pc = "select" /\ ~pump[t].woken
    /\ PumpTo(t, "exited")
    /\ UNCHANGED <<reader, in_flight, stdout, task, chan, rx_open>>

\* Bug: an empty read is taken for a heartbeat.
IgnoredUpstreamEnds(t) ==
    /\ pump[t].pc = "select" /\ ~pump[t].woken
    /\ PumpTo(t, "loop")
    /\ UNCHANGED <<reader, in_flight, stdout, task, chan, rx_open>>

\* The response ends, the connection fails, or the client's 60 s are over.
UpstreamEnds(t) ==
    /\ pump[t].pc = "select" /\ ~pump[t].woken
    /\ PumpTo(t, "last")
    /\ UNCHANGED <<reader, in_flight, stdout, task, chan, rx_open>>

PumpNextChunk(t) ==
    /\ pump[t].pc = "send" /\ pump[t].frames = <<>>
    /\ PumpTo(t, "loop")
    /\ UNCHANGED <<reader, in_flight, stdout, task, chan, rx_open>>

\* Bug: a frame that finds the channel full is dropped.
DroppingPumpSend(t) ==
    /\ pump[t].pc = "send" /\ pump[t].frames # <<>> /\ rx_open[t]
    /\ LET f == Head(pump[t].frames)
       IN  /\ chan' = IF Len(chan[t]) < CAP
                      THEN [chan EXCEPT ![t] = Append(@, f)] ELSE chan
           /\ pump' = [pump EXCEPT
                ![t].pc = IF f.kind = "final" THEN "exited" ELSE @,
                ![t].frames = IF f.kind = "final" THEN <<>> ELSE Tail(@)]
    /\ UNCHANGED <<reader, in_flight, stdout, task, rx_open>>

\* One decoded frame into the channel; the final one ends the pump.
PumpSend(t) ==
    /\ pump[t].pc = "send" /\ pump[t].frames # <<>>
    /\ rx_open[t] /\ Len(chan[t]) < CAP
    /\ LET f == Head(pump[t].frames)
       IN  /\ chan' = [chan EXCEPT ![t] = Append(@, f)]
           /\ pump' = [pump EXCEPT
                ![t].pc = IF f.kind = "final" THEN "exited" ELSE @,
                ![t].frames = IF f.kind = "final" THEN <<>> ELSE Tail(@)]
    /\ UNCHANGED <<reader, in_flight, stdout, task, rx_open>>

\* The error that reports the end of the response.
PumpLast(t) ==
    /\ pump[t].pc = "last" /\ rx_open[t] /\ Len(chan[t]) < CAP
    /\ chan' = [chan EXCEPT ![t] =
                  Append(@, [kind |-> "lost", n |-> pump[t].emitted + 1])]
    /\ PumpTo(t, "exited")
    /\ UNCHANGED <<reader, in_flight, stdout, task, rx_open>>

\* Bug: a failed send is not looked at and the loop goes on.
StubbornPumpNoReceiver(t) ==
    /\ pump[t].pc \in {"send", "last"} /\ ~rx_open[t]
    /\ pump' = [pump EXCEPT ![t].pc = "loop", ![t].frames = <<>>]
    /\ UNCHANGED <<reader, in_flight, stdout, task, chan, rx_open>>

\* A send on a channel without a receiver fails.
PumpNoReceiver(t) ==
    /\ pump[t].pc \in {"send", "last"} /\ ~rx_open[t]
    /\ pump[t].pc = "send" => pump[t].frames # <<>>
    /\ pump' = [pump EXCEPT ![t].pc = "exited", ![t].frames = <<>>]
    /\ UNCHANGED <<reader, in_flight, stdout, task, chan, rx_open>>

Kinds == UNION {[1 .. k -> {"note", "final", "bad"}] : k \in 1 .. MaxChunk}

PumpRuns(t) ==
    \/ PumpSelect(t)
    \/ PumpCancelled(t)
    \/ PumpNextChunk(t)
    \/ PumpSend(t)
    \/ PumpLast(t)
    \/ PumpNoReceiver(t)

UpstreamStep(t) ==
    \/ \E kinds \in Kinds : PumpChunk(t, kinds)
    \/ UpstreamEnds(t)

IdeStep ==
    \/ \E t \in Task, i \in Id : ReadRequest(t, i)
    \/ \E i \in Id : ReadCancel(i)
    \/ FireCancel
    \/ StdoutBreaks

Next ==
    \/ IdeStep
    \/ \E t \in Task : DispatchStep(t) \/ PumpRuns(t) \/ UpstreamStep(t)

Spec == Init /\ [][Next]_vars

\* The runtime polls every pump, and every task past the opening of its stream;
\* a write to stdout ends, for the IDE reads it or has closed it. Nothing else
\* is asked of the IDE.
TaskFairness ==
    \A t \in Task :
        /\ WF_vars(task[t].pc \notin {"spawned", "opening"} /\ DispatchStep(t))
        /\ WF_vars(PumpRuns(t))

\* What a request without a stream, and the opening of one, need beside it: to
\* end. The client's 60 s end their HTTP; nothing in the code ends a gcloud
\* (auth.rs:119-122) or a podman run (local_runner.rs:97-132) that hangs.
CallFairness ==
    \A t \in Task :
        WF_vars(task[t].pc \in {"spawned", "opening"} /\ DispatchStep(t))

\* The same 60 s end a response whose upstream has gone quiet.
TimeoutFairness == \A t \in Task : SF_vars(UpstreamEnds(t))

LiveSpec == Spec /\ TaskFairness /\ TimeoutFairness

-----------------------------------------------------------------------------
(* Properties *)

\* Every variable keeps its shape, and a channel its capacity.
TypeOK ==
    /\ reader \in Task \cup {None}
    /\ in_flight \in [Id -> Task \cup {None}]
    /\ stdout \in BOOLEAN
    /\ task \in [Task -> TaskState]
    /\ chan \in [Task -> Seq(Frame)]
    /\ \A t \in Task : Len(chan[t]) <= CAP
    /\ rx_open \in [Task -> BOOLEAN]
    /\ pump \in [Task -> PumpState]

\* The registry names exactly the streams being relayed, each under the id of
\* its request: a cancellation finds the stream it is meant for while there is
\* one, and an id used again never finds the handle of the call before
\* (stream_tool_call's insert and remove around the relay loop).
InFlightExact ==
    \A i \in Id, t \in Task :
        in_flight[i] = t <=> /\ task[t].pc \in {"relay", "write", "remove"}
                             /\ task[t].id = i

\* A final response is written after every notification the skill sent before
\* it, none lost and none still in the channel (the doc of open_streaming_call:
\* "notifications first, a final response last").
FinalAfterNotes ==
    \A t \in Task : task[t].reply = "final" => task[t].n = task[t].written + 1

\* "An empty close is the cancellation signature": the IDE reads "cancelled"
\* only for a call it cancelled; every other end of a stream is reported as
\* what it was.
CancelledOnlyIfAsked ==
    \A t \in Task : task[t].reply = "cancelled" => task[t].fired

\* What the IDE has seen of each request. An answer written after the IDE has
\* gone counts as given.
ide_view ==
    [t \in Task |->
        IF task[t].pc = "free"
        THEN [status |-> "free", id |-> None, seen |-> 0, asked |-> FALSE,
              answer |-> "none", n |-> 0]
        ELSE IF task[t].pc = "drop"
        THEN [status |-> "answered", id |-> task[t].id, seen |-> task[t].written,
              asked |-> task[t].fired, answer |-> task[t].reply, n |-> task[t].n]
        ELSE [status |-> "open", id |-> task[t].id, seen |-> task[t].written,
              asked |-> task[t].fired, answer |-> "none", n |-> 0]]

IDE == INSTANCE ToolStream WITH view <- ide_view

\* The relay keeps the promises of ToolStream to the IDE: one answer to each
\* request, after its notifications, a final one after all of them, and
\* "cancelled" only if asked (dispatch and stream_tool_call over pump_sse).
RelaysToolStream == IDE!Spec

\* A call with an open stream is answered and its task ends, whatever the
\* upstream sends, stops sending or is cancelled at; and so is every request, if
\* what comes before its stream, or instead of one, does not hang.
Answered ==
    /\ \A t \in Task :
         task[t].pc \notin {"free", "spawned", "opening"} ~> task[t].pc = "free"
    /\ CallFairness =>
         \A t \in Task : task[t].pc # "free" ~> task[t].pc = "free"

\* No pump outlives its call for good: it ends with the response, the final
\* frame, the receiver, the cancellation or the timeout.
PumpEnds ==
    \A t \in Task : pump[t].pc \notin {"none", "exited"}
                        ~> pump[t].pc \in {"none", "exited"}

\* The parts of the inductive invariant. A task has an id from its request to
\* its end, and no two unanswered requests have one id.
IdsDiffer ==
    /\ \A t \in Task : task[t].id = None <=> task[t].pc = "free"
    /\ \A t, u \in Task :
         t # u /\ task[t].pc \notin {"free", "drop"}
               /\ task[u].pc \notin {"free", "drop"} => task[t].id # task[u].id

Relaying(t) == task[t].pc \in {"register", "relay", "write"}

\* Before its stream is open a task has no receiver and no pump, and until it
\* has a reply it has nothing to say.
StreamOpens(t) ==
    /\ task[t].pc \in {"free", "spawned", "opening"} =>
         ~rx_open[t] /\ chan[t] = <<>>
    /\ task[t].pc \in {"spawned", "opening"} =>
         pump[t] = NoPump /\ task[t].written = 0
    /\ Relaying(t) => rx_open[t] /\ pump[t].pc # "none"
    /\ task[t].pc \in {"free", "spawned", "opening"} \/ Relaying(t) =>
         task[t].reply = "none"
    /\ pump[t].pc \in {"loop", "select", "last"} => pump[t].frames = <<>>

\* A pump is woken for a reason, and one that is over while its call is being
\* relayed has left the end of the stream in the channel or was cancelled.
EndReported(t) ==
    /\ Relaying(t) /\ pump[t].woken => task[t].fired
    /\ Relaying(t) /\ pump[t].pc = "exited" /\ ~task[t].fired =>
         /\ chan[t] # <<>>
         /\ chan[t][Len(chan[t])].kind \in {"final", "lost"}

\* The notifications a task has taken off its channel.
Received(t) == task[t].written + (IF task[t].pc = "write" THEN 1 ELSE 0)

\* The frames in the channel and those of the chunk after them are numbered on
\* from what the task has received: none is lost and none overtakes another.
Numbered(t) ==
    Relaying(t) =>
        /\ \A k \in 1 .. Len(chan[t]) : chan[t][k].n = Received(t) + k
        /\ \A k \in 1 .. Len(pump[t].frames) :
             pump[t].frames[k].n = Received(t) + Len(chan[t]) + k
        /\ pump[t].pc # "exited" =>
             pump[t].emitted = Received(t) + Len(chan[t]) + Len(pump[t].frames)

\* The inductive invariant behind the properties of the relay.
IInv ==
    /\ TypeOK /\ IdsDiffer /\ InFlightExact
    /\ FinalAfterNotes /\ CancelledOnlyIfAsked
    /\ \A t \in Task : StreamOpens(t) /\ EndReported(t) /\ Numbered(t)

\* Where a task or a pump is not held up by the other, or by a channel.
TaskGoes(t) == task[t].pc = "relay" => chan[t] # <<>> \/ pump[t].pc = "exited"
PumpGoes(t) ==
    \/ pump[t].pc \in {"loop", "select"}
    \/ pump[t].pc = "send" /\ pump[t].frames = <<>>
    \/ pump[t].pc \in {"send", "last"} /\ (~rx_open[t] \/ Len(chan[t]) < CAP)

\* A relay waits only for a pump that goes on, and a pump waits only for the task of
\* its own stream, which goes on: a slow IDE holds a skill back, and a receiver that
\* is gone holds nobody (pump_sse's sends against stream_tool_call's loop).
StreamMoves ==
    \A t \in Task :
        /\ ~TaskGoes(t) => PumpGoes(t)
        /\ pump[t].pc \notin {"none", "exited"} /\ ~PumpGoes(t) =>
             task[t].pc \notin {"free", "spawned", "opening"} /\ TaskGoes(t)

-----------------------------------------------------------------------------
(* What docs and comments say and the code does not do *)

\* "fires it -- the SSE pump then drops the upstream response" (the doc of
\* InFlight): a cancellation that comes while the pump is not parked in its
\* select! is stored nowhere, and the pump goes on reading.
CancelStopsPump ==
    [][\A t \in Task :
         task[t].fired /\ task'[t].fired
           => pump'[t].emitted = pump[t].emitted]_vars
=============================================================================
