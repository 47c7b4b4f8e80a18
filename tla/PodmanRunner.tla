---------------------------- MODULE PodmanRunner ----------------------------
(***************************************************************************)
(* One local run of a skill: try_local (router.rs) over PodmanRunner       *)
(* (crates/oxidized-mcp-core/src/local_runner.rs). The parent writes a     *)
(* request to the container's stdin, closes it, reads one line of its      *)
(* stdout and waits for its exit. Nobody reads its stderr, which is a pipe *)
(* too. All three pipes are bounded.                                       *)
(*                                                                         *)
(* What goes through a pipe is counted in pieces. A line of stdout is one  *)
(* piece or two, the last of which ends it.                                *)
(***************************************************************************)
EXTENDS Naturals, Sequences

CONSTANTS
    None,
    RequestSize,                         \* pieces of the request line
    StdinCap, StdoutCap, StderrCap,      \* pieces a pipe holds
    MaxOut, MaxErr                       \* bounds on what a container writes

\* What from_str and try_local make of a line: a result, a response without a
\* usable one, no response at all, no text at all.
Line == {"result", "error", "junk", "binary"}
Piece == [line : Line, last : BOOLEAN]

ASSUME PodmanRunnerAssumption ==
    /\ None \notin Line
    /\ {RequestSize, StdinCap, StdoutCap, StderrCap} \subseteq Nat \ {0}
    /\ MaxOut \in Nat \ {0, 1} /\ MaxErr \in Nat

ParentPC == {"exists", "spawn", "write", "read", "wait", "done"}
Outcome == {"none", "Ok", "ImageNotPresent", "Spawn", "StdinWrite", "StdoutRead",
            "EmptyResponse", "InvalidJson", "SkillError"}
Op == {"none", "in", "out", "err"}

VARIABLES
    parent,     \* place, outcome, pieces still to write, pieces read
    pipe,       \* what is in the pipes; whether the parent holds its ends
    container   \* the child: its state, the operation it is in, and what it
                \* has read and written

vars == <<parent, pipe, container>>

\* `behaved` is a container as invoke_stdio expects it: "one line in, one line
\* out, then exit on EOF", and no more on stderr than the pipe holds.
NoContainer == [state |-> "none", op |-> "none", behaved |-> FALSE, read |-> 0,
                eof |-> FALSE, open |-> None, first |-> None, out |-> 0, err |-> 0]

Init ==
    /\ parent = [pc |-> "exists", outcome |-> "none", unsent |-> RequestSize,
                 got |-> <<>>]
    /\ pipe = [stdin |-> 0, stdin_open |-> FALSE, stdout |-> <<>>, stderr |-> 0,
               held |-> FALSE]
    /\ \E b \in BOOLEAN : container = [NoContainer EXCEPT !.behaved = b]

Running == container.state = "running"

(* The parent *)

\* Bug: the ends live on in somebody else.
LeakingReturn(outcome) ==
    /\ parent' = [parent EXCEPT !.pc = "done", !.outcome = outcome]
    /\ UNCHANGED pipe

\* Whatever the function returns, its ends of the pipes are dropped; the child
\* is not killed by that.
Return(outcome) ==
    /\ parent' = [parent EXCEPT !.pc = "done", !.outcome = outcome]
    /\ pipe' = [pipe EXCEPT !.stdin_open = FALSE, !.held = FALSE]

image_exists ==
    /\ parent.pc = "exists"
    /\ \/ parent' = [parent EXCEPT !.pc = "spawn"] /\ UNCHANGED pipe
       \/ \E o \in {"ImageNotPresent", "Spawn"} : Return(o)
    /\ UNCHANGED container

SpawnContainer ==
    /\ parent.pc = "spawn"
    /\ \/ /\ parent' = [parent EXCEPT !.pc = "write"]
          /\ pipe' = [pipe EXCEPT !.stdin_open = TRUE, !.held = TRUE]
          /\ container' = [container EXCEPT !.state = "running"]
       \/ Return("Spawn") /\ UNCHANGED container

WritePiece ==
    /\ parent.pc = "write" /\ parent.unsent > 0
    /\ Running /\ pipe.stdin < StdinCap
    /\ parent' = [parent EXCEPT !.unsent = @ - 1]
    /\ pipe' = [pipe EXCEPT !.stdin = @ + 1]
    /\ UNCHANGED container

\* EPIPE: the container went away without reading its request.
WriteBroken ==
    /\ parent.pc = "write" /\ parent.unsent > 0 /\ ~Running
    /\ Return("StdinWrite")
    /\ UNCHANGED container

\* Bug: write() for write_all(), so that a full pipe cuts the request.
ShortCloseStdin ==
    /\ parent.pc = "write"
    /\ parent' = [parent EXCEPT !.pc = "read"]
    /\ pipe' = [pipe EXCEPT !.stdin_open = FALSE]
    /\ UNCHANGED container

\* Bug: stdin stays open while the answer is awaited.
OpenCloseStdin ==
    /\ parent.pc = "write" /\ parent.unsent = 0
    /\ parent' = [parent EXCEPT !.pc = "read"]
    /\ UNCHANGED <<pipe, container>>

\* The end of the scope of stdin.
CloseStdin ==
    /\ parent.pc = "write" /\ parent.unsent = 0
    /\ parent' = [parent EXCEPT !.pc = "read"]
    /\ pipe' = [pipe EXCEPT !.stdin_open = FALSE]
    /\ UNCHANGED container

LineRead == \E i \in DOMAIN parent.got : parent.got[i].last

\* The buffered reader takes some of what is there, until it has a line.
ReadPieces ==
    /\ parent.pc = "read" /\ ~LineRead
    /\ \E n \in 1 .. Len(pipe.stdout) :
         /\ parent' = [parent EXCEPT !.got = @ \o SubSeq(pipe.stdout, 1, n)]
         /\ pipe' = [pipe EXCEPT !.stdout = SubSeq(@, n + 1, Len(@))]
    /\ UNCHANGED container

Wait == parent' = [parent EXCEPT !.pc = "wait"] /\ UNCHANGED pipe

\* Bug: whatever the first read returned is taken for the line.
FirstReadLine ==
    /\ parent.pc = "read" /\ parent.got # <<>>
    /\ IF parent.got[1].last
       THEN Wait
       ELSE Return("InvalidJson")
    /\ UNCHANGED container

\* The first line is there.
ReadLine ==
    /\ parent.pc = "read" /\ LineRead
    /\ IF parent.got[1].line = "binary" THEN Return("StdoutRead") ELSE Wait
    /\ UNCHANGED container

\* stdout ends: without a byte there is no answer, and a line that was never
\* ended is the line.
ReadEnd ==
    /\ parent.pc = "read" /\ ~LineRead
    /\ ~Running /\ pipe.stdout = <<>>
    /\ IF parent.got = <<>> THEN Return("EmptyResponse")
       ELSE IF parent.got[1].line = "binary" THEN Return("StdoutRead")
       ELSE Wait
    /\ UNCHANGED container

\* Bug: the answer is returned with the container still running.
HastyReap ==
    /\ parent.pc = "wait"
    /\ Return(IF parent.got[1].line = "result" THEN "Ok"
              ELSE IF parent.got[1].line = "error" THEN "SkillError"
              ELSE "InvalidJson")
    /\ UNCHANGED container

\* child.wait(), then the line is parsed. A line that was never ended may be
\* the half of an answer.
Reap ==
    /\ parent.pc = "wait" /\ ~Running
    /\ \/ parent.got[1].line = "result" /\ Return("Ok")
       \/ parent.got[1].line = "error" /\ Return("SkillError")
       \/ (parent.got[1].line = "junk" \/ ~LineRead) /\ Return("InvalidJson")
    /\ UNCHANGED container

ParentStep ==
    \/ image_exists
    \/ SpawnContainer
    \/ WritePiece
    \/ WriteBroken
    \/ CloseStdin
    \/ ReadPieces
    \/ ReadLine
    \/ ReadEnd
    \/ Reap

(* The container, in any order of operations. A read or a write it is in ends *)
(* when the pipe lets it.                                                     *)

Exited == [container EXCEPT !.state = "exited", !.op = "none"]

Chooses(op) ==
    /\ Running /\ container.op = "none"
    /\ container' = [container EXCEPT !.op = op]
    /\ UNCHANGED <<parent, pipe>>

ChooseRead == ~container.eof /\ Chooses("in")

ChooseOut ==
    /\ container.out < MaxOut
    /\ container.behaved => container.read = RequestSize /\ container.first = None
    /\ Chooses("out")

ChooseErr ==
    /\ container.err < IF container.behaved THEN StderrCap ELSE MaxErr
    /\ Chooses("err")

ReadsPiece ==
    /\ Running /\ container.op = "in" /\ pipe.stdin > 0
    /\ pipe' = [pipe EXCEPT !.stdin = @ - 1]
    /\ container' = [container EXCEPT !.op = "none", !.read = @ + 1]
    /\ UNCHANGED parent

ReadsEof ==
    /\ Running /\ container.op = "in" /\ pipe.stdin = 0 /\ ~pipe.stdin_open
    /\ container' = [container EXCEPT !.op = "none", !.eof = TRUE]
    /\ UNCHANGED <<parent, pipe>>

\* The next piece of the line it is in, or the first of a new one.
WritesOut ==
    /\ Running /\ container.op = "out" /\ pipe.held /\ Len(pipe.stdout) < StdoutCap
    /\ \E line \in Line, last \in BOOLEAN :
         /\ container.open # None => line = container.open /\ last
         /\ container.behaved => line = "result"
         /\ pipe' = [pipe EXCEPT !.stdout = Append(@, [line |-> line, last |-> last])]
         /\ container' = [container EXCEPT
              !.op = "none", !.out = @ + 1,
              !.open = IF last THEN None ELSE line,
              !.first = IF @ = None /\ last THEN line ELSE @]
    /\ UNCHANGED parent

WritesErr ==
    /\ Running /\ container.op = "err" /\ pipe.held /\ pipe.stderr < StderrCap
    /\ pipe' = [pipe EXCEPT !.stderr = @ + 1]
    /\ container' = [container EXCEPT !.op = "none", !.err = @ + 1]
    /\ UNCHANGED parent

\* SIGPIPE: nobody holds the other end any more.
WriteKills ==
    /\ Running /\ container.op \in {"out", "err"} /\ ~pipe.held
    /\ container' = Exited
    /\ UNCHANGED <<parent, pipe>>

Exits ==
    /\ Running /\ container.op = "none"
    /\ container.behaved => container.eof /\ container.first # None
    /\ container' = Exited
    /\ UNCHANGED <<parent, pipe>>

ContainerStep ==
    \/ ChooseRead
    \/ ChooseOut
    \/ ChooseErr
    \/ ReadsPiece
    \/ ReadsEof
    \/ WritesOut
    \/ WritesErr
    \/ WriteKills
    \/ Exits

Next == ParentStep \/ ContainerStep

Spec == Init /\ [][Next]_vars

\* The runtime polls the parent. That a container goes on until a pipe stops it,
\* and does not run for ever, is assumed: the code has no timeout.
Fairness == WF_vars(ParentStep) /\ WF_vars(ContainerStep)

LiveSpec == Spec /\ Fairness

-----------------------------------------------------------------------------
(* Properties *)

\* Every variable keeps its shape, and no pipe holds more than it can.
TypeOK ==
    /\ parent \in [pc : ParentPC, outcome : Outcome, unsent : 0 .. RequestSize,
                   got : Seq(Piece)]
    /\ pipe \in [stdin : 0 .. StdinCap, stdin_open : BOOLEAN, stdout : Seq(Piece),
                 stderr : 0 .. StderrCap, held : BOOLEAN]
    /\ Len(pipe.stdout) <= StdoutCap
    /\ container \in [state : {"none", "running", "exited"}, op : Op,
                      behaved : BOOLEAN, read : 0 .. RequestSize, eof : BOOLEAN,
                      open : Line \cup {None}, first : Line \cup {None},
                      out : 0 .. MaxOut, err : Nat]

\* The end of stdin tells a container that it has the whole request.
EofEndsRequest == container.eof => container.read = RequestSize

\* What of the request was not read is in the pipe or still to write; stdin
\* closes under a container that runs only when all was written.
RequestKept ==
    /\ container.read + pipe.stdin + parent.unsent = RequestSize
    /\ parent.pc \in {"read", "wait"} => parent.unsent = 0
    /\ Running /\ ~pipe.stdin_open => parent.unsent = 0

\* The first piece that the container wrote and nobody has dropped, which begins
\* its first line.
FirstPiece == IF parent.got # <<>> THEN parent.got[1] ELSE pipe.stdout[1]
FirstLine == IF container.first # None THEN container.first ELSE container.open

LinesKept ==
    /\ FirstLine # None <=> parent.got # <<>> \/ pipe.stdout # <<>>
    /\ FirstLine # None => FirstPiece.line = FirstLine
    /\ parent.pc = "wait" => parent.got # <<>>

\* An answer is the first line of a container that is over ("Reap the child so
\* we don't leave a zombie", the comment on wait).
AnswerIsFirstLine ==
    parent.outcome \in {"Ok", "SkillError"} =>
        /\ parent.pc = "done" /\ container.state = "exited"
        /\ parent.got # <<>>
        /\ container.first # None => parent.got[1].line = container.first

\* A container starts once, an outcome comes with the end, and a write under way
\* is within the bound.
Stages ==
    /\ container.state = "none" <=> parent.pc \in {"exists", "spawn"}
                                      \/ parent.outcome \in {"ImageNotPresent", "Spawn"}
    /\ parent.outcome # "none" <=> parent.pc = "done"
    /\ container.op = "out" => container.out < MaxOut

\* The inductive invariant.
RunInv ==
    /\ TypeOK /\ EofEndsRequest /\ RequestKept /\ LinesKept /\ Stages
    /\ AnswerIsFirstLine

\* A container that behaves as the doc of invoke_stdio expects is answered, with
\* its lines cut anyhow and its writes in any order with the parent's.
BehavedIsAnswered ==
    container.behaved /\ parent.pc = "done" =>
        parent.outcome \in {"Ok", "ImageNotPresent", "Spawn"}

\* A line with its end is among what was read or is in the pipe.
LineInSight == LineRead \/ \E i \in DOMAIN pipe.stdout : pipe.stdout[i].last

\* Why: such a container ends only after its line, which nobody drops, and all it
\* writes is the result. Inductive with RunInv.
BehavedInv ==
    container.behaved =>
        /\ container.open \in {None, "result"} /\ container.first \in {None, "result"}
        /\ parent.pc \in {"write", "read", "wait"} => pipe.held
        /\ container.state = "exited" => container.eof /\ container.first # None
        /\ container.first # None => LineInSight
        /\ parent.pc = "wait" => LineRead
        /\ BehavedIsAnswered

\* All that the container has tried to write so far fits the pipes.
Fits ==
    /\ container.err + (IF container.op = "err" THEN 1 ELSE 0) <= StderrCap
    /\ container.out + (IF container.op = "out" THEN 1 ELSE 0) <= StdoutCap

\* The parent has something to do: each of its waits is over.
ParentCanGo ==
    \/ parent.pc \in {"exists", "spawn"}
    \/ parent.pc = "write" /\ (parent.unsent = 0 \/ ~Running \/ pipe.stdin < StdinCap)
    \/ parent.pc = "read" /\ (LineRead \/ pipe.stdout # <<>> \/ ~Running)
    \/ parent.pc = "wait" /\ ~Running /\ (parent.got[1].line # "binary" \/ ~LineRead)

\* The container has: it may choose what to do, end, or go on with what it chose.
\* A behaved one that has read all has a line to write or to end with.
ContainerCanGo ==
    /\ Running
    /\ \/ container.op = "none" /\ (~container.behaved \/ ~container.eof)
       \/ container.op = "none" /\ (container.first # None \/ container.out < MaxOut)
       \/ container.op = "in" /\ (pipe.stdin > 0 \/ ~pipe.stdin_open)
       \/ container.op = "out" /\ (~pipe.held \/ Len(pipe.stdout) < StdoutCap)
       \/ container.op = "err" /\ (~pipe.held \/ pipe.stderr < StderrCap)

\* Parent and container never wait on each other, over three full or empty pipes, if
\* the container behaves or what it writes fits the pipes: stdin is written whole
\* before stdout is read, and nobody reads stderr (invoke_stdio's order of steps).
NobodyStuck ==
    parent.pc # "done" /\ (container.behaved \/ Fits) => ParentCanGo \/ ContainerCanGo

\* Why. While the run goes on the parent holds its ends, stdin exactly while it writes;
\* a pipe has no more in it than was written; a line that ended was the container's
\* first or came after it; and a behaved container writes its one line after it has
\* read all. Inductive with RunInv and BehavedInv.
FlowInv ==
    /\ parent.pc \in {"write", "read", "wait"} => pipe.held
    /\ pipe.stdin_open <=> parent.pc = "write"
    /\ parent.pc = "wait" => parent.got[1].line # "binary"
    /\ pipe.stderr <= container.err /\ Len(pipe.stdout) <= container.out
    /\ LineInSight => container.first # None
    /\ container.behaved =>
         /\ container.op = "out" => container.read = RequestSize /\ container.first = None
         /\ container.err + (IF container.op = "err" THEN 1 ELSE 0) <= StderrCap
         /\ container.first = None =>
              container.out = IF container.open = None THEN 0 ELSE 1

\* The run ends if the container behaves or what it writes fits the pipes.
\* Otherwise it may not: nobody reads stderr, nor stdout beyond the first line
\* or before the request is written.
LocalRunReturns == container.behaved \/ []Fits => <>(parent.pc = "done")

\* No container outlives a run for good: one that the run has left behind runs
\* into the closed pipes or to its end.
ContainerEnds == parent.pc = "done" ~> ~Running
=============================================================================
