-------------------------- MODULE StreamRelay_proofs --------------------------
(***************************************************************************)
(* Proofs about StreamRelay for every number of tasks, ids and frames and  *)
(* every capacity of the channel: its type, the inductive invariant, what  *)
(* it says of the cancel registry, of the order of answers and of the      *)
(* answer "cancelled", and that the relay implements ToolStream.           *)
(***************************************************************************)
EXTENDS StreamRelay, SequenceTheorems, TLAPS

-----------------------------------------------------------------------------
(* Typing *)

\* The initial records have their types.
LEMMA InitParts == FreeTask \in TaskState /\ NoPump \in PumpState
<1>1. 0 \in 0 .. MaxFrames /\ 0 \in Nat
  BY StreamRelayAssumption
<1>2. <<>> \in Seq(Frame)
  OBVIOUS
<1> QED BY <1>1, <1>2 DEF FreeTask, NoPump, TaskState, PumpState, TaskPC,
           Reply, PumpPC

\* The relay starts without requests.
LEMMA InitTyped == Init => TypeOK
<1> SUFFICES ASSUME Init PROVE TypeOK
  OBVIOUS
<1>1. task \in [Task -> TaskState] /\ pump \in [Task -> PumpState]
  BY InitParts DEF Init
<1>2. chan \in [Task -> Seq(Frame)] /\ \A t \in Task : Len(chan[t]) <= CAP
  BY StreamRelayAssumption DEF Init
<1> QED BY <1>1, <1>2 DEF Init, TypeOK

\* A step of a dispatch task keeps every variable its type.
LEMMA DispatchTyped ==
    ASSUME TypeOK, NEW t \in Task, DispatchStep(t)
    PROVE  TypeOK'
<1> DEFINE q == task[t]
           p == pump[t]
<1>1. q \in TaskState /\ p \in PumpState /\ chan[t] \in Seq(Frame)
  BY DEF TypeOK
<1>2. Notified(t) \in PumpState
  BY <1>1 DEF Notified, PumpState
<1>3. [NoPump EXCEPT !.pc = "loop"] \in PumpState
  BY InitParts DEF PumpState, PumpPC
<1>4. \A l \in TaskPC, r \in Reply :
         /\ [q EXCEPT !.pc = l] \in TaskState
         /\ [q EXCEPT !.pc = l, !.reply = r] \in TaskState
  BY <1>1 DEF TaskState
<1>m. \A l \in TaskPC, r \in Reply, n \in Nat :
         /\ [q EXCEPT !.pc = l, !.reply = r, !.n = n] \in TaskState
         /\ [q EXCEPT !.pc = l, !.written = n] \in TaskState
  BY <1>1 DEF TaskState
<1>5. chan[t] # <<>> => /\ Head(chan[t]) \in Frame
                        /\ Tail(chan[t]) \in Seq(Frame)
                        /\ Len(Tail(chan[t])) <= Len(chan[t])
  <2> DEFINE c == chan[t]
  <2>1. c \in Seq(Frame)
    BY <1>1
  <2> HIDE DEF c
  <2>2. c # <<>> => /\ Head(c) \in Frame /\ Tail(c) \in Seq(Frame)
                    /\ Len(Tail(c)) <= Len(c)
    BY <2>1
  <2> QED BY <2>2 DEF c
<1>n. /\ \A f \in Frame : f.n \in Nat
      /\ q.written + 1 \in Nat
  BY <1>1 DEF Frame, TaskState
<1>6. {"free", "spawned", "opening", "register", "relay", "write", "remove",
       "respond", "drop"} \subseteq TaskPC /\ \A f : ReplyTo(f) \in Reply
      /\ {"plain", "open_failed", "cancelled", "write_failed"} \subseteq Reply
  BY DEF TaskPC, Reply, ReplyTo
<1> USE DEF TypeOK
<1>a. CASE HandleRequest(t) BY <1>a, <1>4, <1>6 DEF HandleRequest
<1>b. CASE OpenStream(t) BY <1>b, <1>4, <1>6 DEF OpenStream
<1>c. CASE OpenFails(t) BY <1>c, <1>4, <1>6 DEF OpenFails
<1>d. CASE OpenSucceeds(t) BY <1>d, <1>3, <1>4, <1>6 DEF OpenSucceeds
<1>e. CASE Register(t) BY <1>e, <1>4, <1>6 DEF Register
<1>f. CASE Recv(t)
  <2> DEFINE f == Head(chan[t])
             r == IF f.kind = "note" THEN [q EXCEPT !.pc = "write"]
                  ELSE [q EXCEPT !.pc = "remove", !.reply = ReplyTo(f), !.n = f.n]
  <2>1. chan[t] # <<>>
    BY <1>f DEF Recv
  <2>2. r \in TaskState
    BY <2>1, <1>4, <1>5, <1>6, <1>m, <1>n
  <2>3. task' = [task EXCEPT ![t] = r] /\ chan' = [chan EXCEPT ![t] = Tail(@)]
        /\ UNCHANGED <<reader, in_flight, stdout, rx_open, pump>>
    BY <1>f DEF Recv
  <2> HIDE DEF r, f
  <2> QED BY <2>1, <2>2, <2>3, <1>5, StreamRelayAssumption
<1>g. CASE RecvClosed(t) BY <1>g, <1>4, <1>6 DEF RecvClosed
<1>h. CASE WriteNotification(t) BY <1>h, <1>m, <1>n, <1>6 DEF WriteNotification
<1>i. CASE WriteFails(t) BY <1>i, <1>2, <1>4, <1>6 DEF WriteFails
<1>j. CASE Remove(t) BY <1>j, <1>4, <1>6 DEF Remove
<1>k. CASE WriteResponse(t) BY <1>k, <1>4, <1>6 DEF WriteResponse
<1>l. CASE DropStream(t)
  BY <1>l, <1>2, InitParts, StreamRelayAssumption DEF DropStream
<1> QED BY <1>a, <1>b, <1>c, <1>d, <1>e, <1>f, <1>g, <1>h, <1>i, <1>j, <1>k,
           <1>l DEF DispatchStep

\* A step of a pump, or of its upstream, keeps every variable its type.
LEMMA PumpTyped ==
    ASSUME TypeOK, NEW t \in Task, PumpRuns(t) \/ UpstreamStep(t)
    PROVE  TypeOK'
<1> DEFINE p == pump[t]
<1>1. p \in PumpState /\ chan[t] \in Seq(Frame)
  BY DEF TypeOK
<1>2. \A l \in PumpPC : [p EXCEPT !.pc = l] \in PumpState
  BY <1>1 DEF PumpState
<1>3. \A l \in PumpPC, s \in Seq(Frame) :
         /\ [p EXCEPT !.pc = l, !.frames = s] \in PumpState
         /\ [p EXCEPT !.frames = s] \in PumpState
  BY <1>1 DEF PumpState
<1>4. {"none", "loop", "select", "send", "last", "exited"} \subseteq PumpPC
  BY DEF PumpPC
<1>5. <<>> \in Seq(Frame)
  OBVIOUS
<1>6. \A f \in Frame : Len(chan[t]) < CAP =>
         /\ Append(chan[t], f) \in Seq(Frame)
         /\ Len(Append(chan[t], f)) <= CAP
  BY <1>1, StreamRelayAssumption
<1> USE DEF TypeOK
<1>a. CASE PumpSelect(t) BY <1>a, <1>2, <1>4 DEF PumpSelect, PumpTo
<1>b. CASE PumpCancelled(t) BY <1>b, <1>2, <1>4 DEF PumpCancelled, PumpTo
<1>c. CASE PumpNextChunk(t) BY <1>c, <1>2, <1>4 DEF PumpNextChunk, PumpTo
<1>d. CASE PumpSend(t)
  <2> DEFINE f == Head(p.frames)
             l == IF f.kind = "final" THEN "exited" ELSE p.pc
             s == IF f.kind = "final" THEN <<>> ELSE Tail(p.frames)
             r == [p EXCEPT !.pc = l, !.frames = s]
  <2>1. p.frames \in Seq(Frame) /\ p.frames # <<>> /\ Len(chan[t]) < CAP
    BY <1>d, <1>1 DEF PumpSend, PumpState
  <2>2. f \in Frame /\ Tail(p.frames) \in Seq(Frame)
    BY <2>1
  <2>3. r \in PumpState
    <3>1. l \in PumpPC /\ s \in Seq(Frame)
      BY <2>2, <1>1, <1>4, <1>5 DEF PumpState
    <3> HIDE DEF l, s
    <3> QED BY <3>1, <1>3
  <2>4. /\ chan' = [chan EXCEPT ![t] = Append(@, f)]
        /\ pump' = [pump EXCEPT ![t] = r]
        /\ UNCHANGED <<reader, in_flight, stdout, task, rx_open>>
    BY <1>d DEF PumpSend
  <2> HIDE DEF r, f
  <2> QED BY <2>1, <2>2, <2>3, <2>4, <1>6
<1>e. CASE PumpLast(t)
  <2> USE <1>1 DEF PumpState
  <2> DEFINE f == [kind |-> "lost", n |-> p.emitted + 1]
  <2>1. f \in Frame
    BY <1>1 DEF Frame, PumpState
  <2>2. /\ chan' = [chan EXCEPT ![t] = Append(@, f)]
        /\ Len(chan[t]) < CAP
        /\ pump' = [pump EXCEPT ![t].pc = "exited"]
        /\ UNCHANGED <<reader, in_flight, stdout, task, rx_open>>
    BY <1>e DEF PumpLast, PumpTo
  <2> HIDE DEF f
  <2> QED BY <2>1, <2>2, <1>2, <1>4, <1>6
<1>f. CASE PumpNoReceiver(t) BY <1>f, <1>3, <1>4, <1>5 DEF PumpNoReceiver
<1>g. CASE \E kinds \in Kinds : PumpChunk(t, kinds)
  <2> PICK kinds \in Kinds : PumpChunk(t, kinds)
    BY <1>g
  <2> DEFINE s == [i \in 1 .. Len(kinds) |->
                     [kind |-> kinds[i], n |-> p.emitted + i]]
             e == p.emitted + Len(kinds)
  <2>1. kinds \in Seq({"note", "final", "bad"}) /\ Len(kinds) \in Nat
    <3> PICK k \in 1 .. MaxChunk : kinds \in [1 .. k -> {"note", "final", "bad"}]
      BY DEF Kinds
    <3> QED BY StreamRelayAssumption
  <2>2. s \in Seq(Frame)
    <3>1. \A i \in 1 .. Len(kinds) : s[i] \in Frame
      BY <2>1, <1>1 DEF Frame, PumpState
    <3> QED BY <3>1, <2>1
  <2>3. e \in 0 .. MaxFrames
    <3>1. e <= MaxFrames
      BY DEF PumpChunk
    <3>2. p.emitted \in Nat
      BY <1>1 DEF PumpState
    <3> HIDE DEF p
    <3> QED BY <2>1, <3>1, <3>2, StreamRelayAssumption
  <2>4. [p EXCEPT !.pc = "send", !.frames = s, !.emitted = e] \in PumpState
    <3> HIDE DEF s, e
    <3> QED BY <2>2, <2>3, <1>1, <1>4 DEF PumpState
  <2>5. /\ pump' = [pump EXCEPT ![t] = [p EXCEPT !.pc = "send", !.frames = s,
                                                 !.emitted = e]]
        /\ UNCHANGED <<reader, in_flight, stdout, task, chan, rx_open>>
    BY DEF PumpChunk
  <2> HIDE DEF s, e
  <2> QED BY <2>4, <2>5
<1>h. CASE UpstreamEnds(t) BY <1>h, <1>2, <1>4 DEF UpstreamEnds, PumpTo
<1> QED BY <1>a, <1>b, <1>c, <1>d, <1>e, <1>f, <1>g, <1>h
        DEF PumpRuns, UpstreamStep

\* A step of the stdin loop, or of the IDE, keeps every variable its type.
LEMMA IdeTyped == TypeOK /\ IdeStep => TypeOK'
<1> SUFFICES ASSUME TypeOK, IdeStep PROVE TypeOK'
  OBVIOUS
<1>1. \A i \in Id : [FreeTask EXCEPT !.pc = "spawned", !.id = i] \in TaskState
  BY InitParts DEF TaskState, TaskPC
<1>2. \A t \in Task : task[t] \in TaskState /\ pump[t] \in PumpState
  BY DEF TypeOK
<1>3. \A t \in Task : /\ [task[t] EXCEPT !.fired = TRUE] \in TaskState
                      /\ Notified(t) \in PumpState
  BY <1>2 DEF Notified, TaskState, PumpState
<1> USE DEF TypeOK
<1>a. CASE \E t \in Task, i \in Id : ReadRequest(t, i)
  BY <1>a, <1>1, InitParts DEF ReadRequest
<1>b. CASE \E i \in Id : ReadCancel(i)
  BY <1>b DEF ReadCancel
<1>c. CASE FireCancel
  <2>1. reader \in Task
    BY <1>c DEF FireCancel
  <2> QED BY <1>c, <2>1, <1>3 DEF FireCancel
<1>d. CASE StdoutBreaks
  BY <1>d DEF StdoutBreaks
<1> QED BY <1>a, <1>b, <1>c, <1>d DEF IdeStep

\* Every step keeps every variable its type.
LEMMA StepTyped == TypeOK /\ [Next]_vars => TypeOK'
<1>1. TypeOK /\ UNCHANGED vars => TypeOK'
  BY DEF TypeOK, vars
<1> QED BY <1>1, DispatchTyped, PumpTyped, IdeTyped DEF Next

\* Every variable keeps its shape, and a channel its capacity.
THEOREM TypeCorrect == Spec => []TypeOK
BY InitTyped, StepTyped, PTL DEF Spec

-----------------------------------------------------------------------------
(* One call at a time *)

\* What the invariant says of one task, its channel and its pump.
Local(t) ==
    /\ StreamOpens(t) /\ EndReported(t) /\ Numbered(t)
    /\ task[t].reply = "final" => task[t].n = task[t].written + 1
    /\ task[t].reply = "cancelled" => task[t].fired

\* A step of one call leaves the others alone.
OthersKeep(t) ==
    \A u \in Task \ {t} :
        /\ task'[u] = task[u] /\ chan'[u] = chan[u]
        /\ rx_open'[u] = rx_open[u] /\ pump'[u] = pump[u]

\* The invariant is the types, the registry and what it says of each task.
LEMMA IInvParts ==
    IInv <=> TypeOK /\ IdsDiffer /\ InFlightExact /\ \A t \in Task : Local(t)
BY DEF IInv, Local, FinalAfterNotes, CancelledOnlyIfAsked

\* So it is enough to look at the call that moved.
LEMMA Spread ==
    ASSUME \A u \in Task : Local(u), NEW t \in Task, OthersKeep(t), Local(t)'
    PROVE  \A u \in Task : Local(u)'
<1> SUFFICES ASSUME NEW u \in Task, u # t PROVE Local(u)'
  OBVIOUS
<1>1. /\ task'[u] = task[u] /\ chan'[u] = chan[u]
      /\ rx_open'[u] = rx_open[u] /\ pump'[u] = pump[u]
  BY DEF OthersKeep
<1>2. Local(u)
  OBVIOUS
<1> QED BY <1>1, <1>2 DEF Local, StreamOpens, EndReported, Numbered, Relaying,
           Received

\* A step of a dispatch task, of a pump or of an upstream is one of that call.
LEMMA StepsKeepOthers ==
    ASSUME TypeOK, NEW t \in Task,
           DispatchStep(t) \/ PumpRuns(t) \/ UpstreamStep(t)
    PROVE  OthersKeep(t)
<1>1. /\ DOMAIN task = Task /\ DOMAIN chan = Task
      /\ DOMAIN rx_open = Task /\ DOMAIN pump = Task
  BY DEF TypeOK
<1>2. DispatchStep(t) => OthersKeep(t)
  BY <1>1, Z3 DEF OthersKeep, DispatchStep, HandleRequest, OpenStream, OpenFails,
     OpenSucceeds, Register, Recv, RecvClosed, WriteNotification, WriteFails,
     Remove, WriteResponse, DropStream
<1>3. PumpRuns(t) \/ UpstreamStep(t) => OthersKeep(t)
  BY <1>1 DEF OthersKeep, PumpRuns, UpstreamStep, PumpSelect, PumpCancelled,
     PumpNextChunk, PumpSend, PumpLast, PumpNoReceiver, PumpChunk, UpstreamEnds,
     PumpTo
<1> QED BY <1>2, <1>3

\* Tail and Append, position by position.
LEMMA TailAt ==
    ASSUME NEW S, NEW s \in Seq(S), s # <<>>
    PROVE  /\ Tail(s) \in Seq(S) /\ Len(Tail(s)) = Len(s) - 1
           /\ Head(s) = s[1] /\ Len(s) \in Nat \ {0}
           /\ \A k \in 1 .. Len(Tail(s)) : Tail(s)[k] = s[k + 1]
OBVIOUS

LEMMA AppendAt ==
    ASSUME NEW S, NEW s \in Seq(S), NEW e \in S
    PROVE  /\ Append(s, e) \in Seq(S) /\ Len(Append(s, e)) = Len(s) + 1
           /\ Append(s, e) # <<>> /\ Append(s, e)[Len(s) + 1] = e
           /\ \A k \in 1 .. Len(s) : Append(s, e)[k] = s[k]
OBVIOUS

\* Sending on and receiving from numbered frames.
LEMMA AppendNumbered ==
    ASSUME NEW r \in Nat, NEW c \in Seq(Frame), NEW f \in Frame,
           \A k \in 1 .. Len(c) : c[k].n = r + k, f.n = r + Len(c) + 1
    PROVE  /\ Append(c, f) # <<>> /\ Len(Append(c, f)) = Len(c) + 1
           /\ Append(c, f)[Len(Append(c, f))] = f
           /\ \A k \in 1 .. Len(Append(c, f)) : Append(c, f)[k].n = r + k
<1> DEFINE d == Append(c, f)
<1>1. /\ Len(d) = Len(c) + 1 /\ d # <<>> /\ d[Len(c) + 1] = f
      /\ \A k \in 1 .. Len(c) : d[k] = c[k]
  BY AppendAt
<1>2. Len(c) \in Nat
  OBVIOUS
<1> HIDE DEF d
<1>3. ASSUME NEW k \in 1 .. Len(d) PROVE d[k].n = r + k
  <2>1. CASE k = Len(c) + 1
    BY <1>1, <2>1
  <2>2. CASE k # Len(c) + 1
    <3>1. k \in 1 .. Len(c)
      BY <1>1, <1>2, <2>2
    <3> QED BY <1>1, <3>1
  <2> QED BY <2>1, <2>2
<1> QED BY <1>1, <1>3 DEF d

LEMMA TailNumbered ==
    ASSUME NEW r \in Nat, NEW z \in Seq(Frame), z # <<>>,
           \A k \in 1 .. Len(z) : z[k].n = r + k
    PROVE  /\ Head(z) \in Frame /\ Tail(z) \in Seq(Frame)
           /\ Len(Tail(z)) = Len(z) - 1 /\ Len(z) \in Nat \ {0}
           /\ Head(z).n = r + 1
           /\ \A k \in 1 .. Len(Tail(z)) : Tail(z)[k].n = r + 1 + k
<1> DEFINE s == Tail(z)
           f == Head(z)
<1>1. /\ Len(s) = Len(z) - 1 /\ f = z[1] /\ Len(z) \in Nat \ {0}
      /\ \A k \in 1 .. Len(s) : s[k] = z[k + 1]
  BY TailAt
<1>2. f \in Frame /\ s \in Seq(Frame)
  OBVIOUS
<1> HIDE DEF s, f
<1>3. f.n = r + 1 /\ \A k \in 1 .. Len(s) : s[k].n = r + 1 + k
  BY <1>1
<1> QED BY <1>1, <1>2, <1>3 DEF s, f

\* A step of a dispatch task keeps what the invariant says of its call.
LEMMA DispatchLocal ==
    ASSUME TypeOK, NEW t \in Task, Local(t), DispatchStep(t)
    PROVE  Local(t)'
<1>1. /\ task \in [Task -> TaskState] /\ pump \in [Task -> PumpState]
      /\ chan \in [Task -> Seq(Frame)] /\ rx_open \in [Task -> BOOLEAN]
  BY DEF TypeOK
<1>2. /\ StreamOpens(t) /\ EndReported(t) /\ Numbered(t)
      /\ task[t].reply = "final" => task[t].n = task[t].written + 1
      /\ task[t].reply = "cancelled" => task[t].fired
  BY DEF Local
<1>3. task[t].written \in Nat /\ task[t].n \in Nat /\ pump[t].frames \in Seq(Frame)
      /\ pump[t].emitted \in Nat
  BY <1>1 DEF TaskState, PumpState
<1> USE DEF Local, StreamOpens, EndReported, Numbered, Relaying, Received,
        TaskState, PumpState
<1>a. CASE HandleRequest(t) BY <1>a, <1>1, <1>2 DEF HandleRequest
<1>b. CASE OpenStream(t) BY <1>b, <1>1, <1>2 DEF OpenStream
<1>c. CASE OpenFails(t) BY <1>c, <1>1, <1>2 DEF OpenFails
<1>d. CASE OpenSucceeds(t) BY <1>d, <1>1, <1>2, <1>3 DEF OpenSucceeds, NoPump
<1>e. CASE Register(t) BY <1>e, <1>1, <1>2, <1>3 DEF Register
<1>g. CASE RecvClosed(t) BY <1>g, <1>1, <1>2 DEF RecvClosed
<1>h. CASE WriteNotification(t) BY <1>h, <1>1, <1>2, <1>3 DEF WriteNotification
<1>i. CASE WriteFails(t) BY <1>i, <1>1, <1>2 DEF WriteFails, Notified
<1>j. CASE Remove(t) BY <1>j, <1>1, <1>2 DEF Remove
<1>k. CASE WriteResponse(t) BY <1>k, <1>1, <1>2 DEF WriteResponse
<1>l. CASE DropStream(t) BY <1>l, <1>1, <1>2 DEF DropStream, Notified, FreeTask
<1>f. CASE Recv(t)
  <2> DEFINE c == chan[t]
             f == Head(c)
             q == task[t]
  <2>1. c \in Seq(Frame) /\ c # <<>>
    BY <1>1, <1>f DEF Recv
  <2>2. /\ Tail(c) \in Seq(Frame) /\ Len(Tail(c)) = Len(c) - 1
        /\ f = c[1] /\ Len(c) \in Nat \ {0}
        /\ \A k \in 1 .. Len(Tail(c)) : Tail(c)[k] = c[k + 1]
    <3> HIDE DEF c
    <3> QED BY <2>1, TailAt
  <2>3. f.n = q.written + 1
    <3>1. Relaying(t) /\ Received(t) = q.written
      BY <1>f, <1>3 DEF Recv
    <3>2. \A k \in 1 .. Len(c) : c[k].n = q.written + k
      BY <1>2, <3>1 DEF Numbered
    <3>3. 1 \in 1 .. Len(c)
      BY <2>2
    <3> HIDE DEF c, f, q
    <3> QED BY <2>2, <3>2, <3>3
  <2>4. /\ chan'[t] = Tail(c) /\ q.pc = "relay"
        /\ UNCHANGED <<rx_open, pump>>
    BY <1>f, <1>1 DEF Recv
  <2>5. CASE f.kind = "note"
    <3>1. task'[t] = [q EXCEPT !.pc = "write"]
      BY <1>f, <1>1, <2>5 DEF Recv
    <3>2. \A k \in 1 .. Len(Tail(c)) : Tail(c)[k].n = q.written + 1 + k
      BY <1>2, <1>3, <2>2, <2>4
    <3>3. Numbered(t)'
      BY <1>1, <1>2, <1>3, <2>2, <2>4, <3>1, <3>2
    <3>4. EndReported(t)'
      <4>1. pump[t].pc = "exited" /\ ~q.fired => Tail(c) # <<>>
        <5> SUFFICES ASSUME pump[t].pc = "exited", ~q.fired, Tail(c) = <<>>
                     PROVE FALSE
          OBVIOUS
        <5>1. Len(c) = 1
          <6> DEFINE d == Tail(c)
          <6>1. d = <<>> /\ Len(d) = Len(c) - 1 /\ Len(c) \in Nat
            BY <2>2
          <6> HIDE DEF d, c
          <6> QED BY <6>1
        <5>2. c[1].kind \in {"final", "lost"}
          BY <1>2, <2>4, <5>1
        <5> QED BY <2>2, <2>5, <5>2
      <4>2. Tail(c) # <<>> => Tail(c)[Len(Tail(c))] = c[Len(c)]
        BY <2>2
      <4> QED BY <1>1, <1>2, <2>4, <3>1, <4>1, <4>2
    <3> QED BY <1>1, <1>2, <2>4, <3>1, <3>3, <3>4
  <2>6. CASE f.kind # "note"
    <3> DEFINE r == ReplyTo(f)
    <3>1. task'[t] = [q EXCEPT !.pc = "remove", !.reply = r, !.n = f.n]
      BY <1>f, <1>1, <2>6 DEF Recv
    <3>2. r # "cancelled"
      BY DEF ReplyTo
    <3> HIDE DEF r
    <3> QED BY <1>1, <1>2, <2>3, <2>4, <3>1, <3>2
  <2> QED BY <2>5, <2>6
<1> QED BY <1>a, <1>b, <1>c, <1>d, <1>e, <1>f, <1>g, <1>h, <1>i, <1>j, <1>k,
           <1>l DEF DispatchStep

\* So does a step of its pump or its upstream.
LEMMA PumpLocal ==
    ASSUME TypeOK, NEW t \in Task, Local(t), PumpRuns(t) \/ UpstreamStep(t)
    PROVE  Local(t)'
<1> DEFINE c == chan[t]
           p == pump[t]
           r == Received(t)
<1>1. /\ task \in [Task -> TaskState] /\ pump \in [Task -> PumpState]
      /\ chan \in [Task -> Seq(Frame)] /\ rx_open \in [Task -> BOOLEAN]
  BY DEF TypeOK
<1>2. /\ StreamOpens(t) /\ EndReported(t) /\ Numbered(t)
      /\ task[t].reply = "final" => task[t].n = task[t].written + 1
      /\ task[t].reply = "cancelled" => task[t].fired
  BY DEF Local
<1>3. /\ task[t].written \in Nat /\ p.frames \in Seq(Frame)
      /\ p.emitted \in Nat /\ c \in Seq(Frame) /\ Len(c) \in Nat
  BY <1>1 DEF TaskState, PumpState
<1>5. task' = task /\ rx_open' = rx_open
  BY DEF PumpRuns, UpstreamStep, PumpSelect, PumpCancelled, PumpNextChunk,
         PumpSend, PumpLast, PumpNoReceiver, PumpChunk, UpstreamEnds
<1>6. \A l \in PumpPC : PumpTo(t, l) =>
         /\ pump'[t].pc = l /\ pump'[t].frames = p.frames
         /\ pump'[t].woken = p.woken /\ pump'[t].emitted = p.emitted
  BY <1>1 DEF PumpTo, PumpState
<1> USE <1>2, <1>3, <1>5
    DEF Local, StreamOpens, EndReported, Numbered, Relaying, Received, NoPump
<1>a. CASE PumpSelect(t) BY <1>a, <1>6 DEF PumpSelect, PumpPC
<1>b. CASE PumpCancelled(t) BY <1>b, <1>6 DEF PumpCancelled, PumpPC
<1>c. CASE PumpNextChunk(t) BY <1>c, <1>6 DEF PumpNextChunk, PumpPC
<1>d. CASE PumpSend(t)
  <2> USE <1>1 DEF PumpState
  <2> DEFINE f == Head(p.frames)
             s == Tail(p.frames)
             d == Append(c, f)
  <2>1. p.frames # <<>> /\ p.pc = "send" /\ rx_open[t]
    BY <1>d DEF PumpSend
  <2>2. /\ f \in Frame /\ s \in Seq(Frame)
        /\ Len(s) = Len(p.frames) - 1 /\ Len(p.frames) \in Nat \ {0}
    <3> DEFINE z == p.frames
    <3>1. z \in Seq(Frame) /\ z # <<>>
      BY <2>1
    <3> HIDE DEF z
    <3>2. Head(z) \in Frame
      BY <3>1
    <3> QED BY <3>1, <3>2, TailAt DEF z
  <2>3. chan'[t] = d
    BY <1>d DEF PumpSend
  <2>4. f.kind = "final" =>
          pump'[t] = [p EXCEPT !.pc = "exited", !.frames = <<>>]
    BY <1>d DEF PumpSend
  <2>5. f.kind # "final" => pump'[t] = [p EXCEPT !.frames = s]
    BY <1>d DEF PumpSend
  <2>6. ASSUME Relaying(t)
        PROVE  /\ d # <<>> /\ Len(d) = Len(c) + 1 /\ d[Len(d)] = f
               /\ \A k \in 1 .. Len(d) : d[k].n = r + k
               /\ \A k \in 1 .. Len(s) : s[k].n = r + Len(d) + k
    <3> DEFINE z == p.frames
               m == r + Len(c)
    <3>1. /\ z \in Seq(Frame) /\ z # <<>> /\ c \in Seq(Frame)
          /\ r \in Nat /\ m \in Nat /\ m = r + Len(c)
          /\ \A k \in 1 .. Len(c) : c[k].n = r + k
          /\ \A k \in 1 .. Len(z) : z[k].n = m + k
      BY <2>1, <2>6
    <3> HIDE <1>1, <1>2, <1>3, <1>5 DEF z, c, r, m
    <3>2. /\ f \in Frame /\ f.n = m + 1
          /\ \A k \in 1 .. Len(s) : s[k].n = m + 1 + k
      <4> SUFFICES /\ Head(z) \in Frame /\ Head(z).n = m + 1
                   /\ \A k \in 1 .. Len(Tail(z)) : Tail(z)[k].n = m + 1 + k
        BY DEF z
      <4> QED BY <3>1, TailNumbered
    <3>5. f.n = r + Len(c) + 1
      BY <3>1, <3>2
    <3> HIDE DEF f, s
    <3>3. /\ d # <<>> /\ Len(d) = Len(c) + 1 /\ d[Len(d)] = f
          /\ \A k \in 1 .. Len(d) : d[k].n = r + k
      <4>1. /\ c \in Seq(Frame) /\ r \in Nat
            /\ \A k \in 1 .. Len(c) : c[k].n = r + k
        BY <3>1
      <4>2. f \in Frame
        BY <3>2
      <4> QED BY <4>1, <4>2, <3>5, AppendNumbered
    <3>4. Len(d) = Len(c) + 1 /\ Len(c) \in Nat /\ m + 1 = r + Len(d)
      BY <3>1, <3>3
    <3> HIDE DEF d
    <3> QED BY <3>2, <3>3, <3>4
  <2> HIDE DEF f, s, d
  <2>7. CASE f.kind = "final"
    <3>1. /\ pump'[t].pc = "exited" /\ pump'[t].frames = <<>>
          /\ pump'[t].woken = p.woken
      BY <2>4, <2>7
    <3>2. StreamOpens(t)'
      BY <2>1, <3>1
    <3>3. EndReported(t)'
      BY <2>1, <2>3, <2>6, <2>7, <3>1
    <3>4. Numbered(t)'
      BY <2>3, <2>6, <3>1
    <3> QED BY <3>2, <3>3, <3>4
  <2>8. CASE f.kind # "final"
    <3>1. /\ pump'[t].pc = "send" /\ pump'[t].frames = s
          /\ pump'[t].woken = p.woken /\ pump'[t].emitted = p.emitted
      BY <2>1, <2>5, <2>8
    <3>2. StreamOpens(t)'
      BY <2>1, <3>1
    <3>3. EndReported(t)'
      BY <2>1, <3>1
    <3>4. Relaying(t) => p.emitted = r + Len(d) + Len(s)
      <4> SUFFICES ASSUME Relaying(t) PROVE p.emitted = r + Len(d) + Len(s)
        OBVIOUS
      <4> DEFINE x == Len(c)
                 y == Len(p.frames)
                 e == p.emitted
      <4>1. /\ e = r + x + y /\ Len(d) = x + 1 /\ Len(s) = y - 1
            /\ r \in Nat /\ x \in Nat /\ y \in Nat
        BY <2>1, <2>2, <2>6
      <4> HIDE <1>1, <1>2, <1>3, <1>5 DEF x, y, r
      <4> QED BY <4>1
    <3>5. Numbered(t)'
      BY <2>1, <2>3, <2>6, <3>1, <3>4
    <3> QED BY <3>2, <3>3, <3>5
  <2> QED BY <2>7, <2>8
<1>e. CASE PumpLast(t)
  <2> USE <1>1 DEF PumpState
  <2> DEFINE f == [kind |-> "lost", n |-> p.emitted + 1]
             d == Append(c, f)
  <2>1. f \in Frame /\ f.n = p.emitted + 1 /\ f.kind = "lost"
    BY DEF Frame
  <2>2. p.pc = "last" /\ rx_open[t] /\ chan'[t] = d /\ pump'[t] = [p EXCEPT !.pc = "exited"]
    BY <1>e DEF PumpLast, PumpTo
  <2>3. p.frames = <<>> /\ Len(p.frames) = 0
    BY <2>2
  <2> HIDE DEF f
  <2>4. ASSUME Relaying(t)
        PROVE  /\ d # <<>> /\ Len(d) = Len(c) + 1 /\ d[Len(d)] = f
               /\ \A k \in 1 .. Len(d) : d[k].n = r + k
    <3>1. /\ c \in Seq(Frame) /\ r \in Nat /\ f.n = r + Len(c) + 1
          /\ \A k \in 1 .. Len(c) : c[k].n = r + k
      BY <2>1, <2>2, <2>3, <2>4
    <3> HIDE <1>1, <1>2, <1>3, <1>5 DEF c, r
    <3> QED BY <2>1, <3>1, AppendNumbered
  <2> HIDE DEF d
  <2>5. /\ pump'[t].pc = "exited" /\ pump'[t].frames = <<>>
        /\ pump'[t].woken = p.woken
    BY <2>2, <2>3
  <2>6. StreamOpens(t)'
    BY <2>2, <2>5
  <2>7. EndReported(t)'
    BY <2>1, <2>2, <2>4, <2>5
  <2>8. Numbered(t)'
    BY <2>2, <2>4, <2>5
  <2> QED BY <2>6, <2>7, <2>8
<1>f. CASE PumpNoReceiver(t) BY <1>f, <1>1 DEF PumpNoReceiver, PumpState
<1>g. CASE \E kinds \in Kinds : PumpChunk(t, kinds)
  <2> PICK kinds \in Kinds : PumpChunk(t, kinds)
    BY <1>g
  <2> USE <1>1 DEF PumpState
  <2> DEFINE s == [i \in 1 .. Len(kinds) |->
                     [kind |-> kinds[i], n |-> p.emitted + i]]
             m == Len(kinds)
             e == p.emitted + m
  <2>1. m \in Nat
    <3> PICK k \in 1 .. MaxChunk : kinds \in [1 .. k -> {"note", "final", "bad"}]
      BY DEF Kinds
    <3> QED BY StreamRelayAssumption
  <2>2. /\ pump'[t] = [p EXCEPT !.pc = "send", !.frames = s, !.emitted = e]
        /\ p.pc = "select" /\ ~p.woken /\ chan' = chan
    BY DEF PumpChunk
  <2>3. Len(s) = m /\ \A k \in 1 .. Len(s) : s[k].n = p.emitted + k
    BY <2>1
  <2> HIDE DEF s, m
  <2>4. p.frames = <<>> /\ Len(p.frames) = 0
    BY <2>2
  <2> QED BY <2>1, <2>2, <2>3, <2>4
<1>h. CASE UpstreamEnds(t) BY <1>h, <1>6 DEF UpstreamEnds, PumpPC
<1> QED BY <1>a, <1>b, <1>c, <1>d, <1>e, <1>f, <1>g, <1>h
        DEF PumpRuns, UpstreamStep

\* Reading a request or a cancellation, and firing one, keeps what the
\* invariant says of every call.
LEMMA IdeLocal ==
    ASSUME TypeOK, \A u \in Task : Local(u), IdeStep
    PROVE  \A u \in Task : Local(u)'
<1>1. /\ task \in [Task -> TaskState] /\ pump \in [Task -> PumpState]
      /\ chan \in [Task -> Seq(Frame)] /\ rx_open \in [Task -> BOOLEAN]
  BY DEF TypeOK
<1>2. ASSUME NEW t \in Task, NEW i \in Id, ReadRequest(t, i)
      PROVE  \A u \in Task : Local(u)'
  <2>1. OthersKeep(t)
    BY <1>1, <1>2 DEF ReadRequest, OthersKeep
  <2>2. /\ task'[t] = [FreeTask EXCEPT !.pc = "spawned", !.id = i]
        /\ pump'[t] = NoPump /\ UNCHANGED <<chan, rx_open>>
    BY <1>1, <1>2 DEF ReadRequest
  <2>3. ~rx_open[t] /\ chan[t] = <<>>
    BY <1>2 DEF ReadRequest, Local, StreamOpens
  <2>4. Local(t)'
    BY <2>2, <2>3 DEF Local, StreamOpens, EndReported, Numbered, Relaying,
       Received, FreeTask, NoPump
  <2> QED BY <2>1, <2>4, Spread
<1>3. ASSUME NEW i \in Id, ReadCancel(i) PROVE \A u \in Task : Local(u)'
  BY <1>3 DEF ReadCancel, Local, StreamOpens, EndReported, Numbered, Relaying,
     Received
<1>4. ASSUME NEW t \in Task, t = reader, FireCancel
      PROVE  \A u \in Task : Local(u)'
  <2> DEFINE p == pump[t]
             w == p.woken \/ p.pc = "select"
  <2>1. OthersKeep(t)
    BY <1>1, <1>4 DEF FireCancel, OthersKeep
  <2>2. /\ task'[t] = [task[t] EXCEPT !.fired = TRUE]
        /\ pump'[t] = [p EXCEPT !.woken = w]
        /\ UNCHANGED <<chan, rx_open>>
    BY <1>1, <1>4 DEF FireCancel, Notified
  <2>3. p \in PumpState /\ task[t] \in TaskState /\ Local(t)
    BY <1>1
  <2>4. p = NoPump => pump'[t] = NoPump
    <3>1. SUFFICES ASSUME p = NoPump PROVE pump'[t] = NoPump
      OBVIOUS
    <3>2. p.woken = FALSE /\ p.pc # "select"
      BY <3>1 DEF NoPump
    <3>3. w = FALSE
      BY <3>2
    <3> HIDE DEF w, p
    <3> QED BY <2>2, <2>3, <3>1, <3>2, <3>3 DEF PumpState
  <2>5. /\ task'[t].pc = task[t].pc /\ task'[t].reply = task[t].reply
        /\ task'[t].written = task[t].written /\ task'[t].n = task[t].n
        /\ task'[t].fired
    BY <2>2, <2>3 DEF TaskState
  <2>6. /\ pump'[t].pc = p.pc /\ pump'[t].frames = p.frames
        /\ pump'[t].emitted = p.emitted
    BY <2>2, <2>3 DEF PumpState
  <2>7. Local(t)'
    <3> HIDE DEF p
    <3> USE <2>2, <2>3, <2>4, <2>5, <2>6
    <3>1. StreamOpens(t)'
      BY DEF Local, StreamOpens, Relaying, p
    <3>2. EndReported(t)'
      BY DEF EndReported, Relaying
    <3>3. Numbered(t)'
      BY DEF Local, Numbered, Relaying, Received, p
    <3> QED BY <3>1, <3>2, <3>3 DEF Local
  <2> QED BY <2>1, <2>7, Spread
<1>5. CASE StdoutBreaks
  BY <1>5 DEF StdoutBreaks, Local, StreamOpens, EndReported, Numbered, Relaying,
     Received
<1>6. FireCancel => reader \in Task
  BY DEF FireCancel, TypeOK
<1> QED BY <1>2, <1>3, <1>4, <1>5, <1>6 DEF IdeStep

-----------------------------------------------------------------------------
(* The registry of cancel handles *)

Filed == {"relay", "write", "remove"}

\* A step that moves a call without changing what the registry has to say of it
\* leaves the registry exact.
LEMMA SameClass ==
    ASSUME IdsDiffer, InFlightExact, NEW t \in Task, OthersKeep(t),
           in_flight' = in_flight, task'[t].id = task[t].id,
           task'[t].pc = "free" <=> task[t].pc = "free",
           task[t].pc = "drop" => task'[t].pc = "drop",
           task'[t].pc \in Filed <=> task[t].pc \in Filed
    PROVE  IdsDiffer' /\ InFlightExact'
<1>1. \A u \in Task : u # t => task'[u] = task[u]
  BY DEF OthersKeep
<1>2. IdsDiffer'
  BY <1>1 DEF IdsDiffer
<1>3. InFlightExact'
  BY <1>1 DEF InFlightExact, Filed
<1> QED BY <1>2, <1>3

\* Every step of a dispatch task leaves the registry exact.
LEMMA DispatchFiles ==
    ASSUME TypeOK, IdsDiffer, InFlightExact, NEW t \in Task, DispatchStep(t)
    PROVE  IdsDiffer' /\ InFlightExact'
<1>1. /\ task \in [Task -> TaskState] /\ in_flight \in [Id -> Task \cup {None}]
  BY DEF TypeOK
<1>2. OthersKeep(t)
  BY StepsKeepOthers
<1>3. \A u \in Task : u # t => task'[u] = task[u]
  BY <1>2 DEF OthersKeep
<1>4. task[t].id \in Id \/ task[t].pc = "free"
  BY <1>1 DEF IdsDiffer, TaskState
<1>a. CASE \/ HandleRequest(t) \/ OpenStream(t) \/ OpenFails(t) \/ OpenSucceeds(t)
           \/ RecvClosed(t) \/ WriteNotification(t) \/ WriteFails(t)
           \/ WriteResponse(t)
  <2>1. /\ in_flight' = in_flight /\ task'[t].id = task[t].id
        /\ task'[t].pc # "free" /\ task[t].pc # "free" /\ task[t].pc # "drop"
        /\ task'[t].pc \in Filed <=> task[t].pc \in Filed
    BY <1>1, <1>a DEF HandleRequest, OpenStream, OpenFails, OpenSucceeds,
       RecvClosed, WriteNotification, WriteFails, WriteResponse, Filed, TaskState
  <2> QED BY <1>2, <2>1, SameClass
<1>b. CASE Recv(t)
  <2>1. /\ in_flight' = in_flight /\ task'[t].id = task[t].id
        /\ task'[t].pc \in {"write", "remove"} /\ task[t].pc = "relay"
    BY <1>1, <1>b DEF Recv, TaskState
  <2> QED BY <1>2, <2>1, SameClass DEF Filed
<1>c. CASE Register(t)
  <2> DEFINE j == task[t].id
  <2>1. /\ task[t].pc = "register" /\ task'[t].pc = "relay" /\ task'[t].id = j
        /\ in_flight' = [in_flight EXCEPT ![j] = t] /\ j \in Id
    BY <1>1, <1>4, <1>c DEF Register, TaskState
  <2>2. IdsDiffer'
    BY <1>3, <2>1 DEF IdsDiffer
  <2>3. ASSUME NEW i \in Id, NEW u \in Task
        PROVE  in_flight'[i] = u <=> task'[u].pc \in Filed /\ task'[u].id = i
    <3>1. CASE u = t
      <4>1. i = j => in_flight'[i] = t
        BY <1>1, <2>1
      <4>2. i # j => in_flight'[i] # t
        BY <1>1, <2>1 DEF InFlightExact
      <4> QED BY <2>1, <3>1, <4>1, <4>2 DEF Filed
    <3>2. CASE u # t
      <4>1. i = j => in_flight'[i] # u /\ ~(task[u].pc \in Filed /\ task[u].id = i)
        BY <1>1, <2>1, <3>2 DEF IdsDiffer, Filed
      <4>2. i # j => in_flight'[i] = in_flight[i]
        BY <1>1, <2>1
      <4> QED BY <1>3, <3>2, <4>1, <4>2 DEF InFlightExact, Filed
    <3> QED BY <3>1, <3>2
  <2> QED BY <2>2, <2>3 DEF InFlightExact, Filed
<1>d. CASE Remove(t)
  <2> DEFINE j == task[t].id
  <2>1. /\ task[t].pc = "remove" /\ task'[t].pc = "respond" /\ task'[t].id = j
        /\ in_flight' = [in_flight EXCEPT ![j] = None] /\ j \in Id
    BY <1>1, <1>4, <1>d DEF Remove, TaskState
  <2>2. IdsDiffer'
    BY <1>3, <2>1 DEF IdsDiffer
  <2>3. ASSUME NEW i \in Id, NEW u \in Task
        PROVE  in_flight'[i] = u <=> task'[u].pc \in Filed /\ task'[u].id = i
    <3>1. CASE i = j
      <4>1. in_flight'[i] # u
        BY <1>1, <2>1, <3>1, StreamRelayAssumption
      <4>2. in_flight[i] = t
        BY <2>1, <3>1 DEF InFlightExact
      <4>3. u # t => ~(task[u].pc \in Filed /\ task[u].id = i)
        BY <4>2 DEF InFlightExact, Filed
      <4> QED BY <1>3, <2>1, <4>1, <4>3 DEF Filed
    <3>2. CASE i # j
      <4>1. in_flight'[i] = in_flight[i]
        BY <1>1, <2>1, <3>2
      <4> QED BY <1>3, <2>1, <3>2, <4>1 DEF InFlightExact, Filed
    <3> QED BY <3>1, <3>2
  <2> QED BY <2>2, <2>3 DEF InFlightExact, Filed
<1>e. CASE DropStream(t)
  <2>1. /\ task[t].pc = "drop" /\ task'[t].pc = "free" /\ task'[t].id = None
        /\ in_flight' = in_flight
    BY <1>1, <1>e DEF DropStream, FreeTask
  <2>2. IdsDiffer'
    BY <1>3, <2>1 DEF IdsDiffer
  <2>3. InFlightExact'
    BY <1>3, <2>1 DEF InFlightExact
  <2> QED BY <2>2, <2>3
<1> QED BY <1>a, <1>b, <1>c, <1>d, <1>e DEF DispatchStep

\* So does every step of the stdin loop: an id is read again only when no
\* unanswered request has it.
LEMMA IdeFiles ==
    ASSUME TypeOK, IdsDiffer, InFlightExact, IdeStep
    PROVE  IdsDiffer' /\ InFlightExact'
<1>1. task \in [Task -> TaskState] /\ in_flight \in [Id -> Task \cup {None}]
  BY DEF TypeOK
<1>2. ASSUME NEW t \in Task, NEW i \in Id, ReadRequest(t, i)
      PROVE  IdsDiffer' /\ InFlightExact'
  <2>1. /\ task[t].pc = "free" /\ task'[t].pc = "spawned" /\ task'[t].id = i
        /\ \A u \in Task : u # t => task'[u] = task[u]
        /\ in_flight' = in_flight /\ i # None
    BY <1>1, <1>2, StreamRelayAssumption DEF ReadRequest, FreeTask
  <2>2. \A u \in Task : ~(task[u].id = i /\ task[u].pc # "drop")
    BY <1>2 DEF ReadRequest, Outstanding
  <2>3. IdsDiffer'
    BY <2>1, <2>2 DEF IdsDiffer
  <2>4. InFlightExact'
    BY <2>1 DEF InFlightExact
  <2> QED BY <2>3, <2>4
<1>3. ASSUME NEW i \in Id, ReadCancel(i) PROVE IdsDiffer' /\ InFlightExact'
  BY <1>3 DEF ReadCancel, IdsDiffer, InFlightExact
<1>4. CASE FireCancel
  <2>1. in_flight' = in_flight /\ \A u \in Task : /\ task'[u].pc = task[u].pc
                                                /\ task'[u].id = task[u].id
    BY <1>1, <1>4 DEF FireCancel, TaskState
  <2> QED BY <2>1 DEF IdsDiffer, InFlightExact
<1>5. CASE StdoutBreaks
  BY <1>5 DEF StdoutBreaks, IdsDiffer, InFlightExact
<1> QED BY <1>2, <1>3, <1>4, <1>5 DEF IdeStep

\* A pump knows nothing of the registry.
LEMMA PumpFiles ==
    ASSUME IdsDiffer, InFlightExact, NEW t \in Task,
           PumpRuns(t) \/ UpstreamStep(t)
    PROVE  IdsDiffer' /\ InFlightExact'
<1>1. task' = task /\ in_flight' = in_flight
  BY DEF PumpRuns, UpstreamStep, PumpSelect, PumpCancelled, PumpNextChunk,
         PumpSend, PumpLast, PumpNoReceiver, PumpChunk, UpstreamEnds
<1> QED BY <1>1 DEF IdsDiffer, InFlightExact

-----------------------------------------------------------------------------
(* The theorems *)

\* The relay starts in the invariant.
LEMMA InvariantInit == Init => IInv
<1> SUFFICES ASSUME Init PROVE IInv
  OBVIOUS
<1>1. \A t \in Task : Local(t)
  BY DEF Init, Local, StreamOpens, EndReported, Numbered, Relaying, FreeTask, NoPump
<1>2. IdsDiffer
  BY DEF Init, IdsDiffer, FreeTask
<1>3. InFlightExact
  BY StreamRelayAssumption DEF Init, InFlightExact, FreeTask
<1> QED BY <1>1, <1>2, <1>3, InitTyped, IInvParts

\* Every step keeps the invariant.
LEMMA InvariantStep == IInv /\ [Next]_vars => IInv'
<1> SUFFICES ASSUME IInv, [Next]_vars PROVE IInv'
  OBVIOUS
<1>1. TypeOK /\ IdsDiffer /\ InFlightExact /\ \A t \in Task : Local(t)
  BY IInvParts
<1>2. TypeOK'
  BY <1>1, StepTyped
<1>3. IdsDiffer' /\ InFlightExact' /\ \A t \in Task : Local(t)'
  <2>1. CASE IdeStep
    BY <1>1, <2>1, IdeFiles, IdeLocal
  <2>2. ASSUME NEW t \in Task, DispatchStep(t)
        PROVE  IdsDiffer' /\ InFlightExact' /\ \A u \in Task : Local(u)'
    <3>1. OthersKeep(t) /\ Local(t)'
      BY <1>1, <2>2, StepsKeepOthers, DispatchLocal
    <3> QED BY <1>1, <2>2, <3>1, DispatchFiles, Spread
  <2>3. ASSUME NEW t \in Task, PumpRuns(t) \/ UpstreamStep(t)
        PROVE  IdsDiffer' /\ InFlightExact' /\ \A u \in Task : Local(u)'
    <3>1. OthersKeep(t) /\ Local(t)'
      BY <1>1, <2>3, StepsKeepOthers, PumpLocal
    <3> QED BY <1>1, <2>3, <3>1, PumpFiles, Spread
  <2>4. CASE UNCHANGED vars
    BY <1>1, <2>4 DEF vars, IdsDiffer, InFlightExact, Local, StreamOpens,
       EndReported, Numbered, Relaying, Received
  <2> QED BY <2>1, <2>2, <2>3, <2>4 DEF Next
<1> QED BY <1>2, <1>3 DEF IInv, Local, FinalAfterNotes, CancelledOnlyIfAsked

\* The inductive invariant: the frames on their way are numbered on from what
\* the task has received, and a pump that is over has left the end of the
\* stream in the channel or was cancelled.
THEOREM Invariant == Spec => []IInv
BY InvariantInit, InvariantStep, PTL DEF Spec

\* The registry names exactly the streams being relayed, each under the id of
\* its request.
THEOREM RegistryExact == Spec => []InFlightExact
<1>1. IInv => InFlightExact
  BY DEF IInv
<1> QED BY <1>1, Invariant, PTL

\* A final response is written after every notification sent before it.
THEOREM FinalComesLast == Spec => []FinalAfterNotes
<1>1. IInv => FinalAfterNotes
  BY DEF IInv
<1> QED BY <1>1, Invariant, PTL

\* "Cancelled" is the answer only to a call that was cancelled.
THEOREM CancelledIsAsked == Spec => []CancelledOnlyIfAsked
<1>1. IInv => CancelledOnlyIfAsked
  BY DEF IInv
<1> QED BY <1>1, Invariant, PTL

\* The two halves of a stream never wait on each other. With the fairness of the
\* runtime and the timeout of the client this is why an open stream is answered
\* and every pump ends.
THEOREM StreamsMove == Spec => []StreamMoves
<1>1. IInv => StreamMoves
  <2> SUFFICES ASSUME IInv, NEW t \in Task
               PROVE  /\ ~TaskGoes(t) => PumpGoes(t)
                      /\ pump[t].pc \notin {"none", "exited"} /\ ~PumpGoes(t) =>
                           /\ task[t].pc \notin {"free", "spawned", "opening"}
                           /\ TaskGoes(t)
    BY DEF StreamMoves
  <2>1. /\ pump[t].pc \in PumpPC /\ chan[t] \in Seq(Frame) /\ rx_open[t] \in BOOLEAN
        /\ CAP \in Nat \ {0} /\ StreamOpens(t)
    BY StreamRelayAssumption DEF IInv, TypeOK, PumpState
  <2>2. chan[t] = <<>> => Len(chan[t]) < CAP
    BY <2>1
  <2>3. ASSUME ~TaskGoes(t) PROVE PumpGoes(t)
    <3>1. task[t].pc = "relay" /\ chan[t] = <<>> /\ pump[t].pc # "exited"
      BY <2>3 DEF TaskGoes
    <3>2. pump[t].pc # "none"
      BY <2>1, <3>1 DEF StreamOpens, Relaying
    <3> QED BY <2>1, <2>2, <3>1, <3>2 DEF PumpGoes, PumpPC
  <2>4. ASSUME pump[t].pc \notin {"none", "exited"}, ~PumpGoes(t)
        PROVE  task[t].pc \notin {"free", "spawned", "opening"} /\ TaskGoes(t)
    <3>1. rx_open[t] /\ ~(Len(chan[t]) < CAP)
      BY <2>1, <2>4 DEF PumpGoes, PumpPC
    <3>2. chan[t] # <<>>
      BY <2>2, <3>1
    <3> QED BY <2>1, <3>1, <3>2 DEF StreamOpens, TaskGoes
  <2> QED BY <2>3, <2>4
<1> QED BY <1>1, Invariant, PTL

-----------------------------------------------------------------------------
(* The relay implements ToolStream *)

\* What the IDE has seen of a request in the record r.
Seen(r) ==
    IF r.pc = "free"
    THEN [status |-> "free", id |-> None, seen |-> 0, asked |-> FALSE,
          answer |-> "none", n |-> 0]
    ELSE IF r.pc = "drop"
    THEN [status |-> "answered", id |-> r.id, seen |-> r.written,
          asked |-> r.fired, answer |-> r.reply, n |-> r.n]
    ELSE [status |-> "open", id |-> r.id, seen |-> r.written,
          asked |-> r.fired, answer |-> "none", n |-> 0]

\* The view is made call by call.
LEMMA ViewAt ==
    /\ ide_view = [t \in Task |-> Seen(task[t])]
    /\ ide_view' = [t \in Task |-> Seen(task'[t])]
BY DEF ide_view, Seen

\* A step of one call changes its part of the view only.
LEMMA ViewStep ==
    ASSUME NEW t \in Task, \A u \in Task \ {t} : task'[u] = task[u]
    PROVE  ide_view' = [ide_view EXCEPT ![t] = Seen(task'[t])]
<1> DEFINE v == Seen(task'[t])
<1>1. \A u \in Task : Seen(task'[u]) = IF u = t THEN v ELSE Seen(task[u])
  BY Zenon
<1> HIDE DEF v
<1> QED BY <1>1, ViewAt

\* A step that changes nothing the IDE can see is a stutter.
LEMMA ViewStutter ==
    ASSUME NEW t \in Task, \A u \in Task \ {t} : task'[u] = task[u],
           Seen(task'[t]) = Seen(task[t])
    PROVE  ide_view' = ide_view
<1>1. \A u \in Task : Seen(task'[u]) = Seen(task[u])
  BY Zenon
<1> QED BY <1>1, ViewAt

\* What the updates of ToolStream make of the view of one request.
View(s, i, m, a, x, n) ==
    [status |-> s, id |-> i, seen |-> m, asked |-> a, answer |-> x, n |-> n]

LEMMA ViewStatus ==
    ASSUME NEW w, NEW s, NEW i, NEW m, NEW a, NEW x, NEW n, w = View(s, i, m, a, x, n)
    PROVE  \A b : [w EXCEPT !.status = b] = View(b, i, m, a, x, n)
BY DEF View

LEMMA ViewId ==
    ASSUME NEW w, NEW s, NEW i, NEW m, NEW a, NEW x, NEW n, w = View(s, i, m, a, x, n)
    PROVE  \A b : [w EXCEPT !.id = b] = View(s, b, m, a, x, n)
BY DEF View

LEMMA ViewAsked ==
    ASSUME NEW w, NEW s, NEW i, NEW m, NEW a, NEW x, NEW n, w = View(s, i, m, a, x, n)
    PROVE  \A b : [w EXCEPT !.asked = b] = View(s, i, m, b, x, n)
BY DEF View

LEMMA ViewAnswer ==
    ASSUME NEW w, NEW s, NEW i, NEW m, NEW a, NEW x, NEW n, w = View(s, i, m, a, x, n)
    PROVE  \A b : [w EXCEPT !.answer = b] = View(s, i, m, a, b, n)
BY DEF View

LEMMA ViewN ==
    ASSUME NEW w, NEW s, NEW i, NEW m, NEW a, NEW x, NEW n, w = View(s, i, m, a, x, n)
    PROVE  \A b : [w EXCEPT !.n = b] = View(s, i, m, a, x, b)
BY DEF View

\* Every step of the relay is one of ToolStream, or a stutter.
LEMMA RefinementStep == IInv /\ [Next]_vars => [IDE!Next]_ide_view
<1> SUFFICES ASSUME IInv, [Next]_vars PROVE [IDE!Next]_ide_view
  OBVIOUS
<1>1. TypeOK /\ IdsDiffer /\ FinalAfterNotes /\ CancelledOnlyIfAsked
  BY DEF IInv
<1>2. task \in [Task -> TaskState]
  BY <1>1 DEF TypeOK
<1>3. ASSUME NEW t \in Task, NEW i \in Id, ReadRequest(t, i)
      PROVE  IDE!Next
  <2>1. /\ task[t].pc = "free" /\ \A u \in Task \ {t} : task'[u] = task[u]
        /\ task'[t] = [FreeTask EXCEPT !.pc = "spawned", !.id = i]
    BY <1>2, <1>3 DEF ReadRequest
  <2>2. ide_view[t].status = "free"
    BY <2>1, ViewAt DEF Seen
  <2>3. ASSUME NEW u \in Task, ide_view[u].status = "open"
        PROVE  ide_view[u].id # i
    <3>1. task[u].pc # "free" /\ task[u].pc # "drop" /\ ide_view[u].id = task[u].id
      BY <2>3, ViewAt DEF Seen
    <3> QED BY <1>3, <3>1 DEF ReadRequest, Outstanding
  <2>4. Seen(task'[t]) = [IDE!NoCall EXCEPT !.status = "open", !.id = i]
    <3>1. /\ task'[t].pc = "spawned" /\ task'[t].id = i
          /\ task'[t].written = 0 /\ task'[t].fired = FALSE
      BY <2>1 DEF FreeTask
    <3>2. Seen(task'[t]) = [status |-> "open", id |-> i, seen |-> 0,
                            asked |-> FALSE, answer |-> "none", n |-> 0]
      BY <3>1 DEF Seen
    <3> DEFINE w == IDE!NoCall
    <3>3. w = View("free", None, 0, FALSE, "none", 0)
      BY DEF IDE!NoCall, View
    <3> HIDE DEF w
    <3>4. [w EXCEPT !.status = "open", !.id = i] = View("open", i, 0, FALSE, "none", 0)
      <4> DEFINE u == [w EXCEPT !.status = "open"]
                 no == FALSE
      <4>1. w = View("free", None, 0, no, "none", 0)
        BY <3>3
      <4> HIDE DEF no
      <4>2. u = View("open", None, 0, no, "none", 0)
        BY <4>1, ViewStatus
      <4> HIDE DEF u
      <4>3. [u EXCEPT !.id = i] = View("open", i, 0, no, "none", 0)
        BY <4>2, ViewId
      <4> QED BY <4>3 DEF u, no
    <3> QED BY <3>2, <3>4 DEF View, w
  <2>5. IDE!Begin(t, i)
    BY <2>1, <2>2, <2>3, <2>4, ViewStep DEF IDE!Begin
  <2> QED BY <2>5 DEF IDE!Next
<1>4. ASSUME NEW t \in Task, t = reader, FireCancel
      PROVE  IDE!Next \/ ide_view' = ide_view
  <2>1. /\ task'[t] = [task[t] EXCEPT !.fired = TRUE]
        /\ \A u \in Task \ {t} : task'[u] = task[u]
    BY <1>2, <1>4 DEF FireCancel
  <2>2. CASE task[t].pc = "free"
    <3>1. task'[t].pc = "free"
      BY <1>2, <2>1, <2>2 DEF TaskState
    <3>2. Seen(task'[t]) = Seen(task[t])
      BY <2>2, <3>1 DEF Seen
    <3> QED BY <2>1, <3>2, ViewStutter
  <2>3. CASE task[t].pc # "free"
    <3>1. ide_view[t].status # "free"
      BY <2>3, ViewAt DEF Seen
    <3>2. Seen(task'[t]) = [ide_view[t] EXCEPT !.asked = TRUE]
      <4>1. /\ task'[t].pc = task[t].pc /\ task'[t].id = task[t].id
            /\ task'[t].written = task[t].written /\ task'[t].n = task[t].n
            /\ task'[t].reply = task[t].reply /\ task'[t].fired = TRUE
        BY <1>2, <2>1 DEF TaskState
      <4>2. ASSUME NEW s, NEW x, NEW n,
                   ide_view[t] = View(s, task[t].id, task[t].written, task[t].fired, x, n),
                   Seen(task'[t]) = View(s, task[t].id, task[t].written, TRUE, x, n)
            PROVE  Seen(task'[t]) = [ide_view[t] EXCEPT !.asked = TRUE]
        <5>1. \A b : [ide_view[t] EXCEPT !.asked = b]
                      = View(s, task[t].id, task[t].written, b, x, n)
          BY <4>2, ViewAsked
        <5>2. [ide_view[t] EXCEPT !.asked = TRUE]
                = View(s, task[t].id, task[t].written, TRUE, x, n)
          BY <5>1, Zenon
        <5> QED BY <4>2, <5>2, Zenon
      <4>3. CASE task[t].pc = "drop"
        <5>1. /\ ide_view[t] = View("answered", task[t].id, task[t].written,
                                    task[t].fired, task[t].reply, task[t].n)
              /\ Seen(task'[t]) = View("answered", task[t].id, task[t].written,
                                      TRUE, task[t].reply, task[t].n)
          BY <4>1, <4>3, ViewAt DEF Seen, View
        <5> QED BY <4>2, <5>1
      <4>4. CASE task[t].pc # "drop"
        <5>1. /\ ide_view[t] = View("open", task[t].id, task[t].written,
                                    task[t].fired, "none", 0)
              /\ Seen(task'[t]) = View("open", task[t].id, task[t].written,
                                      TRUE, "none", 0)
          BY <2>3, <4>1, <4>4, ViewAt DEF Seen, View
        <5> QED BY <4>2, <5>1
      <4> QED BY <4>3, <4>4
    <3>3. ide_view' = [ide_view EXCEPT ![t].asked = TRUE]
      BY <2>1, <3>2, ViewStep
    <3>4. IDE!Ask(t)
      BY <3>1, <3>3 DEF IDE!Ask
    <3> QED BY <3>4 DEF IDE!Next
  <2> QED BY <2>2, <2>3
<1>5. ASSUME NEW t \in Task, DispatchStep(t)
      PROVE  IDE!Next \/ ide_view' = ide_view
  <2>1. \A u \in Task \ {t} : task'[u] = task[u]
    BY <1>1, <1>5, StepsKeepOthers DEF OthersKeep
  <2>2. CASE \/ HandleRequest(t) \/ OpenStream(t) \/ OpenFails(t) \/ OpenSucceeds(t)
             \/ Register(t) \/ Recv(t) \/ RecvClosed(t) \/ WriteFails(t)
             \/ Remove(t)
    <3>1. /\ task[t].pc # "free" /\ task[t].pc # "drop"
          /\ task'[t].pc # "free" /\ task'[t].pc # "drop"
          /\ task'[t].id = task[t].id /\ task'[t].written = task[t].written
          /\ task'[t].fired = task[t].fired
      <4>1. CASE Recv(t)
        BY <1>2, <4>1 DEF Recv, TaskState
      <4>2. CASE ~Recv(t)
        BY <1>2, <2>2, <4>2 DEF HandleRequest, OpenStream, OpenFails, OpenSucceeds,
           Register, RecvClosed, WriteFails, Remove, TaskState
      <4> QED BY <4>1, <4>2
    <3>2. Seen(task'[t]) = Seen(task[t])
      BY <3>1 DEF Seen
    <3> QED BY <2>1, <3>2, ViewStutter
  <2>3. CASE WriteNotification(t)
    <3>1. /\ task[t].pc = "write"
          /\ task'[t] = [task[t] EXCEPT !.pc = "relay", !.written = @ + 1]
      BY <1>2, <2>3 DEF WriteNotification
    <3>2. ide_view[t].status = "open"
      BY <3>1, ViewAt DEF Seen
    <3>3. Seen(task'[t]) = [ide_view[t] EXCEPT !.seen = @ + 1]
      <4>1. /\ task'[t].pc = "relay" /\ task'[t].id = task[t].id
            /\ task'[t].written = task[t].written + 1
            /\ task'[t].fired = task[t].fired
        BY <1>2, <3>1 DEF TaskState
      <4> QED BY <3>1, <4>1, ViewAt DEF Seen
    <3>4. ide_view' = [ide_view EXCEPT ![t].seen = @ + 1]
      BY <2>1, <3>3, ViewStep
    <3>5. IDE!Notify(t)
      BY <3>2, <3>4 DEF IDE!Notify
    <3> QED BY <3>5 DEF IDE!Next
  <2>4. CASE WriteResponse(t)
    <3> DEFINE v == Seen(task'[t])
    <3>1. task[t].pc = "respond" /\ task'[t] = [task[t] EXCEPT !.pc = "drop"]
      BY <1>2, <2>4 DEF WriteResponse
    <3>2. /\ task'[t].pc = "drop" /\ task'[t].id = task[t].id
          /\ task'[t].written = task[t].written /\ task'[t].n = task[t].n
          /\ task'[t].reply = task[t].reply /\ task'[t].fired = task[t].fired
      BY <1>2, <3>1 DEF TaskState
    <3>3. ide_view[t] = [status |-> "open", id |-> task[t].id,
                         seen |-> task[t].written, asked |-> task[t].fired,
                         answer |-> "none", n |-> 0]
      BY <3>1, ViewAt DEF Seen
    <3>4. v = [status |-> "answered", id |-> task[t].id,
               seen |-> task[t].written, asked |-> task[t].fired,
               answer |-> task[t].reply, n |-> task[t].n]
      BY <3>2 DEF Seen
    <3>5. /\ task[t].reply = "cancelled" => task[t].fired
          /\ task[t].reply = "final" => task[t].n = task[t].written + 1
      BY <1>1 DEF CancelledOnlyIfAsked, FinalAfterNotes
    <3> HIDE DEF v
    <3>6. ide_view' = [ide_view EXCEPT ![t] = v]
      BY <2>1, ViewStep DEF v
    <3>7. ide_view'[t] = v
      BY <3>6, ViewAt
    <3>8. v = [ide_view[t] EXCEPT !.status = "answered",
                                  !.answer = ide_view'[t].answer,
                                  !.n = ide_view'[t].n]
      <4> DEFINE w == ide_view[t]
                 a == ide_view'[t].answer
                 m == ide_view'[t].n
      <4>1. a = task[t].reply /\ m = task[t].n
        BY <3>4, <3>7
      <4>2. w = View("open", task[t].id, task[t].written, task[t].fired, "none", 0)
        BY <3>3 DEF View
      <4> HIDE DEF a, m, w
      <4>3. [w EXCEPT !.status = "answered", !.answer = a, !.n = m]
              = View("answered", task[t].id, task[t].written, task[t].fired, a, m)
        <5> DEFINE j == task[t].id
                   k == task[t].written
                   b == task[t].fired
                   u == [w EXCEPT !.status = "answered"]
                   z == [u EXCEPT !.answer = a]
        <5> HIDE DEF j, k, b
        <5>1. u = View("answered", j, k, b, "none", 0)
          BY <4>2, ViewStatus DEF j, k, b
        <5> HIDE DEF u
        <5>2. z = View("answered", j, k, b, a, 0)
          BY <5>1, ViewAnswer
        <5> HIDE DEF z
        <5>3. [z EXCEPT !.n = m] = View("answered", j, k, b, a, m)
          BY <5>2, ViewN
        <5> QED BY <5>3 DEF u, z, j, k, b
      <4>4. v = [w EXCEPT !.status = "answered", !.answer = a, !.n = m]
        BY <3>4, <4>1, <4>3 DEF View
      <4> QED BY <4>4 DEF w, a, m
    <3>9. IDE!Answer(t)
      <4>1. /\ ide_view[t].status = "open" /\ ide_view[t].asked = task[t].fired
            /\ ide_view[t].seen = task[t].written
            /\ ide_view'[t].answer = task[t].reply /\ ide_view'[t].n = task[t].n
        BY <3>3, <3>4, <3>7
      <4>2. ide_view' = [ide_view EXCEPT
                ![t] = [ide_view[t] EXCEPT !.status = "answered",
                                           !.answer = ide_view'[t].answer,
                                           !.n = ide_view'[t].n]]
        BY <3>6, <3>8
      <4> QED BY <3>5, <4>1, <4>2 DEF IDE!Answer
    <3> QED BY <3>9 DEF IDE!Next
  <2>5. CASE DropStream(t)
    <3>1. task[t].pc = "drop" /\ task'[t] = FreeTask
      BY <1>2, <2>5 DEF DropStream
    <3>2. ide_view[t].status = "answered"
      BY <3>1, ViewAt DEF Seen
    <3>3. Seen(task'[t]) = IDE!NoCall
      BY <3>1 DEF Seen, FreeTask, IDE!NoCall
    <3>4. IDE!Close(t)
      BY <2>1, <3>2, <3>3, ViewStep DEF IDE!Close
    <3> QED BY <3>4 DEF IDE!Next
  <2> QED BY <1>5, <2>2, <2>3, <2>4, <2>5 DEF DispatchStep
<1>6. ASSUME task' = task PROVE ide_view' = ide_view
  BY <1>6 DEF ide_view
<1>7. ASSUME NEW t \in Task, PumpRuns(t) \/ UpstreamStep(t) PROVE task' = task
  BY <1>7 DEF PumpRuns, UpstreamStep, PumpSelect, PumpCancelled, PumpNextChunk,
     PumpSend, PumpLast, PumpNoReceiver, PumpChunk, UpstreamEnds
<1>8. (\E i \in Id : ReadCancel(i)) \/ StdoutBreaks \/ UNCHANGED vars => task' = task
  BY DEF ReadCancel, StdoutBreaks, vars
<1>9. FireCancel => reader \in Task
  BY <1>1 DEF FireCancel, TypeOK
<1> QED BY <1>3, <1>4, <1>5, <1>6, <1>7, <1>8, <1>9 DEF Next, IdeStep

\* The relay keeps the promises of ToolStream to the IDE.
THEOREM Refinement == Spec => RelaysToolStream
<1>1. Init => IDE!Init
  BY DEF Init, IDE!Init, IDE!NoCall, ide_view, FreeTask
<1> QED BY <1>1, Invariant, RefinementStep, PTL DEF Spec, RelaysToolStream, IDE!Spec
=============================================================================
