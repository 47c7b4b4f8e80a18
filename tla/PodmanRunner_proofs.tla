------------------------- MODULE PodmanRunner_proofs -------------------------
(***************************************************************************)
(* Proofs about PodmanRunner, for pipes, requests and outputs of any size. *)
(***************************************************************************)
EXTENDS PodmanRunner, SequenceTheorems, TLAPS

Parents == [pc : ParentPC, outcome : Outcome, unsent : 0 .. RequestSize,
            got : Seq(Piece)]
Pipes == [stdin : 0 .. StdinCap, stdin_open : BOOLEAN, stdout : Seq(Piece),
          stderr : 0 .. StderrCap, held : BOOLEAN]
Containers == [state : {"none", "running", "exited"}, op : Op,
               behaved : BOOLEAN, read : 0 .. RequestSize, eof : BOOLEAN,
               open : Line \cup {None}, first : Line \cup {None},
               out : 0 .. MaxOut, err : Nat]

LEMMA Numbers ==
  /\ RequestSize \in Nat \ {0} /\ StdinCap \in Nat \ {0}
  /\ StdoutCap \in Nat \ {0} /\ StderrCap \in Nat \ {0}
  /\ MaxOut \in Nat /\ None \notin Line
  BY PodmanRunnerAssumption

LEMMA Types ==
  ASSUME RunInv
  PROVE  /\ parent \in Parents /\ pipe \in Pipes /\ container \in Containers
         /\ Len(pipe.stdout) <= StdoutCap
  BY DEF RunInv, TypeOK, Parents, Pipes, Containers

\* What Return writes, field by field.
LEMMA ReturnWrites ==
  ASSUME parent \in Parents, pipe \in Pipes, NEW o \in Outcome, Return(o)
  PROVE  /\ parent' \in Parents
         /\ parent'.pc = "done" /\ parent'.outcome = o
         /\ parent'.unsent = parent.unsent /\ parent'.got = parent.got
         /\ pipe' \in Pipes /\ ~pipe'.stdin_open
         /\ pipe'.stdin = pipe.stdin /\ pipe'.stdout = pipe.stdout
  <1>1. /\ parent' \in Parents
        /\ parent'.pc = "done" /\ parent'.outcome = o
        /\ parent'.unsent = parent.unsent /\ parent'.got = parent.got
    BY DEF Return, Parents, ParentPC
  <1>2. /\ pipe' \in Pipes /\ ~pipe'.stdin_open
        /\ pipe'.stdin = pipe.stdin /\ pipe'.stdout = pipe.stdout
    BY DEF Return, Pipes
  <1> QED BY <1>1, <1>2

LEMMA ExitWrites ==
  ASSUME container \in Containers, container' = Exited
  PROVE  /\ container' \in Containers
         /\ container'.state = "exited" /\ container'.op = "none"
         /\ container'.read = container.read /\ container'.eof = container.eof
         /\ container'.open = container.open /\ container'.first = container.first
  BY DEF Exited, Containers, Op

LEMMA ReturnKeeps ==
  ASSUME RunInv, NEW o \in Outcome \ {"none"}, Return(o), UNCHANGED container,
         parent.pc # "done", Running => parent.unsent = 0,
         o \in {"ImageNotPresent", "Spawn"} <=> container.state = "none",
         o \in {"Ok", "SkillError"} =>
           container.state = "exited" /\ parent.got # <<>>
  PROVE  RunInv'
  <1>1. /\ parent \in Parents /\ pipe \in Pipes /\ container \in Containers
        /\ Len(pipe.stdout) <= StdoutCap
    BY Types
  <1>2. /\ parent' \in Parents
        /\ parent'.pc = "done" /\ parent'.outcome = o
        /\ parent'.unsent = parent.unsent /\ parent'.got = parent.got
        /\ pipe' \in Pipes /\ ~pipe'.stdin_open
        /\ pipe'.stdin = pipe.stdin /\ pipe'.stdout = pipe.stdout
    BY <1>1, ReturnWrites
  <1>3. TypeOK'
    BY <1>1, <1>2 DEF TypeOK, Parents, Pipes, Containers
  <1>4. EofEndsRequest' /\ RequestKept'
    BY <1>2 DEF RunInv, EofEndsRequest, RequestKept, Running
  <1>5. LinesKept'
    BY <1>2 DEF RunInv, LinesKept, FirstLine, FirstPiece
  <1>6. Stages'
    BY <1>2 DEF RunInv, Stages
  <1>7. AnswerIsFirstLine'
    BY <1>2 DEF RunInv, LinesKept, FirstLine, FirstPiece, AnswerIsFirstLine
  <1> QED BY <1>3, <1>4, <1>5, <1>6, <1>7 DEF RunInv

\* An action of the parent that goes to another place and writes nothing more.
LEMMA GotoWrites ==
  ASSUME parent \in Parents, NEW l \in ParentPC, parent' = [parent EXCEPT !.pc = l]
  PROVE  /\ parent' \in Parents
         /\ parent'.pc = l /\ parent'.outcome = parent.outcome
         /\ parent'.unsent = parent.unsent /\ parent'.got = parent.got
  BY DEF Parents

LEMMA ImageExistsKeeps == ASSUME RunInv, image_exists PROVE RunInv'
  <1>1. parent \in Parents /\ pipe \in Pipes /\ container \in Containers
    BY Types
  <1>2. parent.pc = "exists" /\ parent.outcome = "none" /\ container.state = "none"
    BY DEF RunInv, Stages, image_exists
  <1>3. CASE parent' = [parent EXCEPT !.pc = "spawn"] /\ UNCHANGED pipe
    <2>1. /\ parent' \in Parents
          /\ parent'.pc = "spawn" /\ parent'.outcome = parent.outcome
          /\ parent'.unsent = parent.unsent /\ parent'.got = parent.got
      BY <1>1, <1>3, GotoWrites DEF ParentPC
    <2>2. UNCHANGED <<pipe, container>>
      BY <1>3 DEF image_exists
    <2>3. TypeOK'
      BY <2>1, <2>2 DEF RunInv, TypeOK, Parents
    <2>4. EofEndsRequest' /\ RequestKept'
      BY <1>2, <2>1, <2>2 DEF RunInv, EofEndsRequest, RequestKept, Running
    <2>5. LinesKept'
      BY <2>1, <2>2 DEF RunInv, LinesKept, FirstLine, FirstPiece
    <2>6. Stages' /\ AnswerIsFirstLine'
      BY <1>2, <2>1, <2>2 DEF RunInv, Stages, AnswerIsFirstLine
    <2> QED BY <2>3, <2>4, <2>5, <2>6 DEF RunInv
  <1>4. ASSUME NEW o \in {"ImageNotPresent", "Spawn"}, Return(o) PROVE RunInv'
    <2>1. UNCHANGED container
      BY DEF image_exists
    <2> QED BY <1>2, <1>4, <2>1, ReturnKeeps DEF Outcome, Running
  <1> QED BY <1>3, <1>4 DEF image_exists

LEMMA SpawnContainerKeeps == ASSUME RunInv, SpawnContainer PROVE RunInv'
  <1>1. /\ parent \in Parents /\ pipe \in Pipes /\ container \in Containers
        /\ Len(pipe.stdout) <= StdoutCap
    BY Types
  <1>2. parent.pc = "spawn" /\ parent.outcome = "none" /\ container.state = "none"
    BY DEF RunInv, Stages, SpawnContainer
  <1>3. CASE Return("Spawn") /\ UNCHANGED container
    BY <1>2, <1>3, ReturnKeeps DEF Outcome, Running
  <1>4. CASE /\ parent' = [parent EXCEPT !.pc = "write"]
             /\ pipe' = [pipe EXCEPT !.stdin_open = TRUE, !.held = TRUE]
             /\ container' = [container EXCEPT !.state = "running"]
    <2>1. /\ parent' \in Parents
          /\ parent'.pc = "write" /\ parent'.outcome = parent.outcome
          /\ parent'.unsent = parent.unsent /\ parent'.got = parent.got
      BY <1>1, <1>4, GotoWrites DEF ParentPC
    <2>2. /\ pipe' \in Pipes /\ pipe'.stdin_open
          /\ pipe'.stdin = pipe.stdin /\ pipe'.stdout = pipe.stdout
      BY <1>1, <1>4 DEF Pipes
    <2>3. /\ container' \in Containers
          /\ container'.state = "running" /\ container'.op = container.op
          /\ container'.read = container.read /\ container'.eof = container.eof
          /\ container'.open = container.open /\ container'.first = container.first
          /\ container'.out = container.out
      BY <1>1, <1>4 DEF Containers
    <2>4. TypeOK'
      BY <1>1, <2>1, <2>2, <2>3 DEF TypeOK, Parents, Pipes, Containers
    <2>5. EofEndsRequest' /\ RequestKept'
      BY <1>2, <2>1, <2>2, <2>3 DEF RunInv, EofEndsRequest, RequestKept
    <2>6. LinesKept'
      BY <2>1, <2>2, <2>3 DEF RunInv, LinesKept, FirstLine, FirstPiece
    <2>7. Stages' /\ AnswerIsFirstLine'
      BY <1>2, <2>1, <2>2, <2>3 DEF RunInv, Stages, AnswerIsFirstLine
    <2> QED BY <2>4, <2>5, <2>6, <2>7 DEF RunInv
  <1> QED BY <1>3, <1>4 DEF SpawnContainer

LEMMA WritePieceKeeps == ASSUME RunInv, WritePiece PROVE RunInv'
  <1> USE PodmanRunnerAssumption
  <1>1. /\ parent \in Parents /\ pipe \in Pipes /\ container \in Containers
        /\ Len(pipe.stdout) <= StdoutCap
    BY Types
  <1>2. /\ parent' \in Parents
        /\ parent'.pc = parent.pc /\ parent'.outcome = parent.outcome
        /\ parent'.unsent = parent.unsent - 1 /\ parent'.got = parent.got
    BY <1>1 DEF WritePiece, Parents
  <1>3. /\ pipe' \in Pipes /\ pipe'.stdin_open = pipe.stdin_open
        /\ pipe'.stdin = pipe.stdin + 1 /\ pipe'.stdout = pipe.stdout
    BY <1>1 DEF WritePiece, Pipes
  <1>4. parent.pc = "write" /\ parent.unsent > 0 /\ UNCHANGED container
    BY DEF WritePiece
  <1>5. TypeOK'
    BY <1>1, <1>2, <1>3, <1>4 DEF TypeOK, Parents, Pipes, Containers
  <1>6. EofEndsRequest' /\ RequestKept'
    <2>1. /\ parent.unsent \in Nat /\ pipe.stdin \in Nat /\ container.read \in Nat
          /\ RequestSize \in Nat
      BY <1>1, Numbers DEF Parents, Pipes, Containers
    <2>2. container.read + pipe.stdin + parent.unsent = RequestSize
      BY DEF RunInv, RequestKept
    <2>3. container'.read + pipe'.stdin + parent'.unsent = RequestSize
      BY <1>2, <1>3, <1>4, <2>1, <2>2
    <2>4. Running /\ ~pipe.stdin_open => parent.unsent = 0
      BY DEF RunInv, RequestKept
    <2> QED BY <1>2, <1>3, <1>4, <2>3, <2>4
         DEF RunInv, EofEndsRequest, RequestKept, Running
  <1>7. LinesKept'
    BY <1>2, <1>3, <1>4 DEF RunInv, LinesKept, FirstLine, FirstPiece
  <1>8. Stages' /\ AnswerIsFirstLine'
    BY <1>2, <1>3, <1>4 DEF RunInv, Stages, AnswerIsFirstLine
  <1> QED BY <1>5, <1>6, <1>7, <1>8 DEF RunInv

LEMMA WriteBrokenKeeps == ASSUME RunInv, WriteBroken PROVE RunInv'
  <1>1. /\ parent.pc = "write" /\ ~Running /\ Return("StdinWrite")
        /\ UNCHANGED container
    BY DEF WriteBroken
  <1>2. container.state # "none"
    BY <1>1 DEF RunInv, Stages
  <1> QED BY <1>1, <1>2, ReturnKeeps DEF Outcome

LEMMA CloseStdinKeeps == ASSUME RunInv, CloseStdin PROVE RunInv'
  <1>1. /\ parent \in Parents /\ pipe \in Pipes /\ container \in Containers
        /\ Len(pipe.stdout) <= StdoutCap
    BY Types
  <1>2. /\ parent' \in Parents
        /\ parent'.pc = "read" /\ parent'.outcome = parent.outcome
        /\ parent'.unsent = parent.unsent /\ parent'.got = parent.got
    BY <1>1, GotoWrites DEF CloseStdin, ParentPC
  <1>3. /\ pipe' \in Pipes
        /\ pipe'.stdin = pipe.stdin /\ pipe'.stdout = pipe.stdout
    BY <1>1 DEF CloseStdin, Pipes
  <1>4. parent.pc = "write" /\ parent.unsent = 0 /\ UNCHANGED container
    BY DEF CloseStdin
  <1>5. TypeOK'
    BY <1>1, <1>2, <1>3, <1>4 DEF TypeOK, Parents, Pipes, Containers
  <1>6. EofEndsRequest' /\ RequestKept'
    BY <1>2, <1>3, <1>4 DEF RunInv, EofEndsRequest, RequestKept
  <1>7. LinesKept'
    BY <1>2, <1>3, <1>4 DEF RunInv, LinesKept, FirstLine, FirstPiece
  <1>8. Stages' /\ AnswerIsFirstLine'
    BY <1>2, <1>3, <1>4 DEF RunInv, Stages, AnswerIsFirstLine
  <1> QED BY <1>5, <1>6, <1>7, <1>8 DEF RunInv

LEMMA ReadPiecesKeeps == ASSUME RunInv, ReadPieces PROVE RunInv'
  <1>1. /\ parent \in Parents /\ pipe \in Pipes /\ container \in Containers
        /\ Len(pipe.stdout) <= StdoutCap
    BY Types
  <1>2. PICK n \in 1 .. Len(pipe.stdout) :
          /\ parent' = [parent EXCEPT !.got = @ \o SubSeq(pipe.stdout, 1, n)]
          /\ pipe' = [pipe EXCEPT !.stdout = SubSeq(@, n + 1, Len(@))]
    BY DEF ReadPieces
  <1>3. parent.got \in Seq(Piece) /\ pipe.stdout \in Seq(Piece)
    BY <1>1 DEF Parents, Pipes
  <1> DEFINE taken == SubSeq(pipe.stdout, 1, n)
             left == SubSeq(pipe.stdout, n + 1, Len(pipe.stdout))
             got == parent.got \o taken
  <1>4. /\ taken \in Seq(Piece) /\ Len(taken) = n /\ taken[1] = pipe.stdout[1]
        /\ left \in Seq(Piece) /\ Len(left) <= Len(pipe.stdout)
    <2>1. \A i \in 1 .. Len(pipe.stdout) : pipe.stdout[i] \in Piece
      BY <1>3, ElementOfSeq
    <2>2. Len(pipe.stdout) \in Nat /\ n \in Nat /\ 1 <= n /\ n <= Len(pipe.stdout)
      BY <1>3
    <2>3. /\ taken \in Seq(Piece) /\ Len(taken) = IF 1 <= n THEN n - 1 + 1 ELSE 0
          /\ \A i \in 1 .. n - 1 + 1 : taken[i] = pipe.stdout[1 + i - 1]
      BY <2>1, <2>2, SubSeqProperties
    <2>4. /\ left \in Seq(Piece)
          /\ Len(left) = IF n + 1 <= Len(pipe.stdout)
                         THEN Len(pipe.stdout) - (n + 1) + 1 ELSE 0
      BY <2>1, <2>2, SubSeqProperties
    <2> QED BY <2>2, <2>3, <2>4
  <1> HIDE DEF taken, left
  <1>5. /\ got \in Seq(Piece) /\ got # <<>>
        /\ got[1] = IF parent.got # <<>> THEN parent.got[1] ELSE pipe.stdout[1]
    <2>1. Len(parent.got) \in Nat /\ (parent.got = <<>> <=> Len(parent.got) = 0)
      BY <1>3
    <2>2. /\ got \in Seq(Piece) /\ Len(got) = Len(parent.got) + Len(taken)
          /\ \A i \in 1 .. Len(parent.got) + Len(taken) : got[i] =
               IF i <= Len(parent.got) THEN parent.got[i]
               ELSE taken[i - Len(parent.got)]
      BY <1>3, <1>4, ConcatProperties
    <2> HIDE DEF got
    <2>3. n \in Nat /\ 1 <= n
      OBVIOUS
    <2> QED BY <1>4, <2>1, <2>2, <2>3
  <1> HIDE DEF got
  <1>6. /\ parent' \in Parents
        /\ parent'.pc = parent.pc /\ parent'.outcome = parent.outcome
        /\ parent'.unsent = parent.unsent /\ parent'.got = got
    BY <1>1, <1>2, <1>5 DEF Parents, got, taken
  <1>7. /\ pipe' \in Pipes /\ pipe'.stdin_open = pipe.stdin_open
        /\ pipe'.stdin = pipe.stdin /\ pipe'.stdout = left
    BY <1>1, <1>2, <1>4 DEF Pipes, left
  <1>8. parent.pc = "read" /\ UNCHANGED container /\ pipe.stdout # <<>>
    BY <1>3 DEF ReadPieces
  <1>9. TypeOK'
    <2>1. Len(left) <= StdoutCap
      BY <1>1, <1>3, <1>4, Numbers
    <2> QED BY <1>1, <1>6, <1>7, <1>8, <2>1 DEF TypeOK, Parents, Pipes, Containers
  <1>10. EofEndsRequest' /\ RequestKept'
    BY <1>6, <1>7, <1>8 DEF RunInv, EofEndsRequest, RequestKept, Running
  <1>11. LinesKept'
    BY <1>5, <1>6, <1>7, <1>8 DEF RunInv, LinesKept, FirstLine, FirstPiece
  <1>12. Stages' /\ AnswerIsFirstLine'
    BY <1>6, <1>7, <1>8 DEF RunInv, Stages, AnswerIsFirstLine
  <1> QED BY <1>9, <1>10, <1>11, <1>12 DEF RunInv

LEMMA WaitKeeps ==
  ASSUME RunInv, parent.pc = "read", parent.got # <<>>, Wait, UNCHANGED container
  PROVE  RunInv'
  <1>1. /\ parent \in Parents /\ pipe \in Pipes /\ container \in Containers
        /\ Len(pipe.stdout) <= StdoutCap
    BY Types
  <1>2. /\ parent' \in Parents
        /\ parent'.pc = "wait" /\ parent'.outcome = parent.outcome
        /\ parent'.unsent = parent.unsent /\ parent'.got = parent.got
    BY <1>1, GotoWrites DEF Wait, ParentPC
  <1>3. UNCHANGED <<pipe, container>>
    BY DEF Wait
  <1>4. TypeOK'
    BY <1>1, <1>2, <1>3 DEF TypeOK, Parents, Pipes, Containers
  <1>5. EofEndsRequest' /\ RequestKept'
    BY <1>2, <1>3 DEF RunInv, EofEndsRequest, RequestKept, Running
  <1>6. LinesKept'
    BY <1>2, <1>3 DEF RunInv, LinesKept, FirstLine, FirstPiece
  <1>7. Stages' /\ AnswerIsFirstLine'
    BY <1>2, <1>3 DEF RunInv, Stages, AnswerIsFirstLine
  <1> QED BY <1>4, <1>5, <1>6, <1>7 DEF RunInv

LEMMA ReadLineKeeps == ASSUME RunInv, ReadLine PROVE RunInv'
  <1>1. /\ parent.pc = "read" /\ UNCHANGED container
        /\ Return("StdoutRead") \/ Wait
    BY DEF ReadLine
  <1>2. parent.got # <<>>
    <2>1. DOMAIN parent.got # {}
      BY DEF ReadLine, LineRead
    <2> QED BY <2>1
  <1>3. /\ container.state # "none"
        /\ parent.unsent = 0
    BY <1>1 DEF RunInv, Stages, RequestKept
  <1> QED BY <1>1, <1>2, <1>3, WaitKeeps, ReturnKeeps DEF Outcome

LEMMA ReadEndKeeps == ASSUME RunInv, ReadEnd PROVE RunInv'
  <1>1. /\ parent.pc = "read" /\ UNCHANGED container
        /\ \/ \E o \in {"EmptyResponse", "StdoutRead"} : Return(o)
           \/ parent.got # <<>> /\ Wait
    BY DEF ReadEnd
  <1>2. /\ container.state # "none"
        /\ parent.unsent = 0
    BY <1>1 DEF RunInv, Stages, RequestKept
  <1>3. CASE \E o \in {"EmptyResponse", "StdoutRead"} : Return(o)
    BY <1>1, <1>2, <1>3, ReturnKeeps DEF Outcome
  <1> QED BY <1>1, <1>3, WaitKeeps

LEMMA ReapKeeps == ASSUME RunInv, Reap PROVE RunInv'
  <1>1. /\ parent.pc = "wait" /\ ~Running /\ UNCHANGED container
        /\ \E o \in {"Ok", "SkillError", "InvalidJson"} : Return(o)
    BY DEF Reap
  <1>2. container \in Containers /\ container.state # "none"
    BY <1>1, Types DEF RunInv, Stages
  <1>3. container.state = "exited"
    BY <1>1, <1>2 DEF Running, Containers
  <1>4. parent.got # <<>>
    BY <1>1 DEF RunInv, LinesKept
  <1> QED BY <1>1, <1>3, <1>4, ReturnKeeps DEF Outcome

\* A step of the container that leaves the pipes alone and what it wrote.
LEMMA StillKeeps ==
  ASSUME RunInv, Running, container' \in Containers, UNCHANGED <<parent, pipe>>,
         container'.state \in {"running", "exited"},
         container'.read = container.read,
         container'.eof => container.eof \/ container.read = RequestSize,
         container'.open = container.open, container'.first = container.first,
         container'.op = "out" => container'.out < MaxOut
  PROVE  RunInv'
  <1>1. /\ parent \in Parents /\ pipe \in Pipes
        /\ Len(pipe.stdout) <= StdoutCap
    BY Types
  <1>2. TypeOK'
    BY <1>1 DEF TypeOK, Parents, Pipes, Containers
  <1>3. EofEndsRequest' /\ RequestKept'
    BY DEF RunInv, EofEndsRequest, RequestKept, Running
  <1>4. LinesKept'
    BY DEF RunInv, LinesKept, FirstLine, FirstPiece
  <1>5. Stages'
    BY DEF RunInv, Stages, Running
  <1>6. AnswerIsFirstLine'
    BY DEF RunInv, AnswerIsFirstLine, Running
  <1> QED BY <1>2, <1>3, <1>4, <1>5, <1>6 DEF RunInv

LEMMA ChoosesKeeps ==
  ASSUME RunInv, NEW op \in Op, Chooses(op), op = "out" => container.out < MaxOut
  PROVE  RunInv'
  <1>1. container \in Containers
    BY Types
  <1>2. /\ container' \in Containers
        /\ container'.state = "running" /\ container'.op = op
        /\ container'.read = container.read /\ container'.eof = container.eof
        /\ container'.open = container.open /\ container'.first = container.first
        /\ container'.out = container.out
    BY <1>1 DEF Chooses, Containers, Running
  <1> QED BY <1>2, StillKeeps DEF Chooses

LEMMA ReadsEofKeeps == ASSUME RunInv, ReadsEof PROVE RunInv'
  <1>1. parent \in Parents /\ container \in Containers
    BY Types
  <1>2. /\ container' \in Containers
        /\ container'.state = "running" /\ container'.op = "none"
        /\ container'.read = container.read
        /\ container'.open = container.open /\ container'.first = container.first
    BY <1>1 DEF ReadsEof, Containers, Running, Op
  <1>3. Running /\ pipe.stdin = 0 /\ ~pipe.stdin_open /\ UNCHANGED <<parent, pipe>>
    BY DEF ReadsEof
  <1>4. container.read = RequestSize
    <2>1. parent.unsent = 0 /\ container.read + pipe.stdin + parent.unsent = RequestSize
      BY <1>3 DEF RunInv, RequestKept
    <2> QED BY <1>1, <1>3, <2>1, Numbers DEF Containers
  <1> QED BY <1>2, <1>3, <1>4, StillKeeps

LEMMA ExitKeeps ==
  ASSUME RunInv, Running, container' = Exited, UNCHANGED <<parent, pipe>>
  PROVE  RunInv'
  <1>1. container \in Containers
    BY Types
  <1> QED BY <1>1, ExitWrites, StillKeeps

LEMMA ReadsPieceKeeps == ASSUME RunInv, ReadsPiece PROVE RunInv'
  <1>1. /\ parent \in Parents /\ pipe \in Pipes /\ container \in Containers
        /\ Len(pipe.stdout) <= StdoutCap
    BY Types
  <1>2. /\ parent.unsent \in Nat /\ pipe.stdin \in Nat /\ container.read \in Nat
        /\ RequestSize \in Nat
    BY <1>1, Numbers DEF Parents, Pipes, Containers
  <1>3. Running /\ pipe.stdin > 0 /\ UNCHANGED parent
    BY DEF ReadsPiece
  <1>4. container.read + pipe.stdin + parent.unsent = RequestSize
    BY DEF RunInv, RequestKept
  <1>5. /\ container.read + 1 \in 0 .. RequestSize /\ ~container.eof
        /\ pipe.stdin - 1 \in 0 .. StdinCap
    <2>1. container.read + 1 \in 0 .. RequestSize
      BY <1>2, <1>3, <1>4
    <2>2. container.read # RequestSize
      BY <1>2, <1>3, <1>4
    <2>3. ~container.eof
      BY <2>2 DEF RunInv, EofEndsRequest
    <2>4. pipe.stdin \in 0 .. StdinCap
      BY <1>1 DEF Pipes
    <2> QED BY <1>3, <2>1, <2>3, <2>4, Numbers
  <1>6. /\ pipe' \in Pipes /\ pipe'.stdin_open = pipe.stdin_open
        /\ pipe'.stdin = pipe.stdin - 1 /\ pipe'.stdout = pipe.stdout
    BY <1>1, <1>5 DEF ReadsPiece, Pipes
  <1>7. /\ container' \in Containers
        /\ container'.state = container.state /\ container'.op = "none"
        /\ container'.read = container.read + 1 /\ container'.eof = container.eof
        /\ container'.open = container.open /\ container'.first = container.first
    BY <1>1, <1>5 DEF ReadsPiece, Containers, Op
  <1>8. TypeOK'
    BY <1>1, <1>3, <1>6, <1>7 DEF TypeOK, Parents, Pipes, Containers
  <1>9. EofEndsRequest' /\ RequestKept'
    <2>1. container'.read + pipe'.stdin + parent'.unsent = RequestSize
      BY <1>2, <1>3, <1>4, <1>6, <1>7
    <2> QED BY <1>3, <1>5, <1>6, <1>7, <2>1
         DEF RunInv, EofEndsRequest, RequestKept, Running
  <1>10. LinesKept'
    BY <1>3, <1>6, <1>7 DEF RunInv, LinesKept, FirstLine, FirstPiece
  <1>11. Stages' /\ AnswerIsFirstLine'
    BY <1>3, <1>6, <1>7 DEF RunInv, Stages, AnswerIsFirstLine, Running
  <1> QED BY <1>8, <1>9, <1>10, <1>11 DEF RunInv

LEMMA WritesErrKeeps == ASSUME RunInv, WritesErr PROVE RunInv'
  <1>1. /\ parent \in Parents /\ pipe \in Pipes /\ container \in Containers
        /\ Len(pipe.stdout) <= StdoutCap
    BY Types
  <1>2. Running /\ UNCHANGED parent
    BY DEF WritesErr
  <1>3. /\ pipe' \in Pipes /\ pipe'.stdin_open = pipe.stdin_open
        /\ pipe'.stdin = pipe.stdin /\ pipe'.stdout = pipe.stdout
    BY <1>1, Numbers DEF WritesErr, Pipes
  <1>4. /\ container' \in Containers
        /\ container'.state = container.state /\ container'.op = "none"
        /\ container'.read = container.read /\ container'.eof = container.eof
        /\ container'.open = container.open /\ container'.first = container.first
    <2> DEFINE err == container.err + 1
    <2>1. err \in Nat
      BY <1>1 DEF Containers
    <2>2. container' = [container EXCEPT !.op = "none", !.err = err]
      BY DEF WritesErr
    <2> HIDE DEF err
    <2> QED BY <1>1, <2>1, <2>2 DEF Containers, Op
  <1>5. TypeOK'
    BY <1>1, <1>2, <1>3, <1>4 DEF TypeOK, Parents, Pipes, Containers
  <1>6. EofEndsRequest' /\ RequestKept'
    BY <1>2, <1>3, <1>4 DEF RunInv, EofEndsRequest, RequestKept, Running
  <1>7. LinesKept'
    BY <1>2, <1>3, <1>4 DEF RunInv, LinesKept, FirstLine, FirstPiece
  <1>8. Stages' /\ AnswerIsFirstLine'
    BY <1>2, <1>3, <1>4 DEF RunInv, Stages, AnswerIsFirstLine, Running
  <1> QED BY <1>5, <1>6, <1>7, <1>8 DEF RunInv

\* What WritesOut writes of the container, field by field.
LEMMA PieceWritten ==
  ASSUME container \in Containers, NEW line \in Line, NEW last \in BOOLEAN,
         container.out < MaxOut,
         container' = [container EXCEPT
              !.op = "none", !.out = @ + 1,
              !.open = IF last THEN None ELSE line,
              !.first = IF @ = None /\ last THEN line ELSE @]
  PROVE  /\ container' \in Containers
         /\ container'.state = container.state /\ container'.op = "none"
         /\ container'.read = container.read /\ container'.eof = container.eof
         /\ container'.open = IF last THEN None ELSE line
         /\ container'.first = IF container.first = None /\ last THEN line
                               ELSE container.first
  <1> DEFINE out == container.out + 1
             open == IF last THEN None ELSE line
             first == IF container.first = None /\ last THEN line ELSE container.first
  <1>1. /\ out \in 0 .. MaxOut
        /\ open \in Line \cup {None} /\ first \in Line \cup {None}
    BY Numbers DEF Containers
  <1>2. container' = [container EXCEPT !.op = "none", !.out = out,
                                       !.open = open, !.first = first]
    BY DEF Containers
  <1> HIDE DEF out, open, first
  <1>3. /\ container' \in Containers
        /\ container'.state = container.state /\ container'.op = "none"
        /\ container'.read = container.read /\ container'.eof = container.eof
    BY <1>1, <1>2 DEF Containers, Op
  <1>4. container'.open = open /\ container'.first = first
    BY <1>2 DEF Containers
  <1> QED BY <1>3, <1>4 DEF open, first

LEMMA WritesOutKeeps == ASSUME RunInv, WritesOut PROVE RunInv'
  <1>1. /\ parent \in Parents /\ pipe \in Pipes /\ container \in Containers
        /\ Len(pipe.stdout) <= StdoutCap
    BY Types
  <1>2. PICK line \in Line, last \in BOOLEAN :
          /\ container.open # None => line = container.open /\ last
          /\ pipe' = [pipe EXCEPT !.stdout = Append(@, [line |-> line, last |-> last])]
          /\ container' = [container EXCEPT
               !.op = "none", !.out = @ + 1,
               !.open = IF last THEN None ELSE line,
               !.first = IF @ = None /\ last THEN line ELSE @]
    BY DEF WritesOut
  <1>3. Running /\ Len(pipe.stdout) < StdoutCap /\ UNCHANGED parent
    BY DEF WritesOut
  <1>4. container.out < MaxOut
    BY DEF RunInv, Stages, WritesOut
  <1>5. /\ container' \in Containers
        /\ container'.state = container.state /\ container'.op = "none"
        /\ container'.read = container.read /\ container'.eof = container.eof
        /\ container'.open = IF last THEN None ELSE line
        /\ container'.first = IF container.first = None /\ last THEN line
                              ELSE container.first
    BY <1>1, <1>2, <1>4, PieceWritten
  <1> DEFINE piece == [line |-> line, last |-> last]
             stdout == Append(pipe.stdout, piece)
  <1>6. piece \in Piece /\ piece.line = line
    BY DEF Piece
  <1> HIDE DEF piece
  <1>7. /\ stdout \in Seq(Piece) /\ stdout # <<>> /\ Len(stdout) <= StdoutCap
        /\ stdout[1] = IF pipe.stdout # <<>> THEN pipe.stdout[1] ELSE piece
    <2>1. pipe.stdout \in Seq(Piece)
      BY <1>1 DEF Pipes
    <2>2. /\ stdout \in Seq(Piece) /\ stdout # <<>>
          /\ Len(stdout) = Len(pipe.stdout) + 1
          /\ \A i \in 1 .. Len(pipe.stdout) : stdout[i] = pipe.stdout[i]
          /\ stdout[Len(pipe.stdout) + 1] = piece
      BY <1>6, <2>1, AppendProperties
    <2> HIDE DEF stdout
    <2>3. /\ Len(pipe.stdout) \in Nat
          /\ pipe.stdout = <<>> <=> Len(pipe.stdout) = 0
      BY <2>1
    <2>4. Len(stdout) <= StdoutCap
      BY <1>3, <2>2, <2>3, Numbers
    <2>5. CASE pipe.stdout = <<>>
      BY <2>2, <2>3, <2>4, <2>5
    <2>6. CASE pipe.stdout # <<>>
      BY <2>2, <2>3, <2>4, <2>6
    <2> QED BY <2>5, <2>6
  <1>8. /\ pipe' \in Pipes /\ pipe'.stdin_open = pipe.stdin_open
        /\ pipe'.stdin = pipe.stdin /\ pipe'.stdout = stdout
    BY <1>1, <1>2, <1>7 DEF Pipes, piece
  <1> HIDE DEF stdout
  <1>9. TypeOK'
    BY <1>1, <1>3, <1>5, <1>7, <1>8 DEF TypeOK, Parents, Pipes, Containers
  <1>10. EofEndsRequest' /\ RequestKept'
    BY <1>3, <1>5, <1>8 DEF RunInv, EofEndsRequest, RequestKept, Running
  <1>11. LinesKept'
    <2>1. LinesKept /\ line # None
      BY Numbers DEF RunInv
    <2>2. CASE parent.got = <<>> /\ pipe.stdout = <<>>
      BY <1>3, <1>5, <1>6, <1>7, <1>8, <2>1, <2>2 DEF LinesKept, FirstLine, FirstPiece
    <2>3. CASE ~(parent.got = <<>> /\ pipe.stdout = <<>>)
      <3>1. FirstLine # None /\ FirstLine' = FirstLine
        BY <1>2, <1>5, <2>1, <2>3 DEF LinesKept, FirstLine
      <3>2. FirstPiece' = FirstPiece
        BY <1>3, <1>7, <1>8, <2>3 DEF FirstPiece
      <3> QED BY <1>3, <1>7, <1>8, <2>1, <3>1, <3>2 DEF LinesKept
    <2> QED BY <2>2, <2>3
  <1>12. Stages' /\ AnswerIsFirstLine'
    BY <1>3, <1>5, <1>8 DEF RunInv, Stages, AnswerIsFirstLine, Running
  <1> QED BY <1>9, <1>10, <1>11, <1>12 DEF RunInv

LEMMA InitEstablishes == ASSUME Init PROVE RunInv
  <1> USE DEF Init, NoContainer
  <1>1. /\ parent.pc = "exists" /\ parent.outcome = "none"
        /\ parent.unsent = RequestSize /\ parent.got = <<>>
        /\ pipe.stdin = 0 /\ pipe.stdout = <<>>
    OBVIOUS
  <1>2. /\ container.state = "none" /\ container.op = "none"
        /\ container.read = 0 /\ ~container.eof
        /\ container.open = None /\ container.first = None
    OBVIOUS
  <1>3. TypeOK
    <2>1. parent \in Parents
      BY Numbers DEF Parents, ParentPC, Outcome
    <2>2. pipe \in Pipes
      BY Numbers DEF Pipes
    <2>3. PICK b \in BOOLEAN : container = [NoContainer EXCEPT !.behaved = b]
      OBVIOUS
    <2>4. container \in Containers
      <3>1. container = [state |-> "none", op |-> "none", behaved |-> b, read |-> 0,
                         eof |-> FALSE, open |-> None, first |-> None,
                         out |-> 0, err |-> 0]
        BY <2>3
      <3> HIDE DEF Init, NoContainer
      <3>2. 0 \in 0 .. RequestSize /\ 0 \in 0 .. MaxOut
        BY Numbers
      <3> QED BY <3>1, <3>2 DEF Containers, Op
    <2>5. Len(pipe.stdout) <= StdoutCap
      BY <1>1, Numbers
    <2> QED BY <2>1, <2>2, <2>4, <2>5 DEF TypeOK, Parents, Pipes, Containers
  <1>4. EofEndsRequest /\ RequestKept
    BY <1>1, <1>2, Numbers DEF EofEndsRequest, RequestKept, Running
  <1>5. LinesKept
    BY <1>1, <1>2 DEF LinesKept, FirstLine
  <1>6. Stages /\ AnswerIsFirstLine
    BY <1>1, <1>2 DEF Stages, AnswerIsFirstLine
  <1> QED BY <1>3, <1>4, <1>5, <1>6 DEF RunInv

LEMMA StepKeeps == ASSUME RunInv, Next PROVE RunInv'
  <1>1. CASE ParentStep
    BY <1>1, ImageExistsKeeps, SpawnContainerKeeps, WritePieceKeeps, WriteBrokenKeeps,
       CloseStdinKeeps, ReadPiecesKeeps, ReadLineKeeps, ReadEndKeeps, ReapKeeps
       DEF ParentStep
  <1>2. CASE ChooseRead \/ ChooseOut \/ ChooseErr
    BY <1>2, ChoosesKeeps DEF ChooseRead, ChooseOut, ChooseErr, Op
  <1>3. CASE WriteKills \/ Exits
    BY <1>3, ExitKeeps DEF WriteKills, Exits
  <1>4. CASE ReadsPiece \/ ReadsEof \/ WritesOut \/ WritesErr
    BY <1>4, ReadsPieceKeeps, ReadsEofKeeps, WritesOutKeeps, WritesErrKeeps
  <1> QED BY <1>1, <1>2, <1>3, <1>4 DEF Next, ContainerStep

LEMMA StutterKeeps == ASSUME RunInv, UNCHANGED vars PROVE RunInv'
  BY DEF vars, RunInv, TypeOK, EofEndsRequest, RequestKept, Running, LinesKept,
         FirstLine, FirstPiece, Stages, AnswerIsFirstLine

\* Whatever the container does: no byte of the request is lost between parent,
\* pipe and container, stdin ends only after all of it, and the first piece the
\* container wrote begins what the parent reads (invoke_stdio).
THEOREM RunInvariant == Spec => []RunInv
  <1>1. Init => RunInv
    BY InitEstablishes
  <1>2. RunInv /\ [Next]_vars => RunInv'
    BY StepKeeps, StutterKeeps
  <1> QED BY <1>1, <1>2, PTL DEF Spec

\* try_local answers with the first line of a container that has ended.
THEOREM FirstLineAnswers == Spec => []AnswerIsFirstLine
  <1>1. RunInv => AnswerIsFirstLine
    BY DEF RunInv
  <1> QED BY <1>1, RunInvariant, PTL

-----------------------------------------------------------------------------
(* A container that behaves is answered. *)

\* A container that ran and is over has left its first line, and the parent has
\* or will have it.
LEMMA BehavedIsOver ==
  ASSUME RunInv, BehavedInv, container.behaved, container.state # "none", ~Running
  PROVE  /\ container.read = RequestSize /\ container.first = "result"
         /\ LineInSight
  <1>1. container.state = "exited"
    BY Types DEF Containers, Running
  <1>2. container.eof /\ container.first # None
    BY <1>1 DEF BehavedInv
  <1> QED BY <1>2 DEF RunInv, EofEndsRequest, BehavedInv

\* What a behaved container has written is the result.
LEMMA BehavedPiece ==
  ASSUME RunInv, BehavedInv, container.behaved, parent.got # <<>>
  PROVE  parent.got[1].line = "result"
  <1>1. FirstLine # None /\ parent.got[1].line = FirstLine
    BY DEF RunInv, LinesKept, FirstPiece
  <1>2. FirstLine \in {None, "result"}
    BY DEF BehavedInv, FirstLine
  <1> QED BY <1>1, <1>2

\* A step of the parent that reads nothing.
LEMMA ParentMoves ==
  ASSUME BehavedInv, UNCHANGED container,
         parent'.got = parent.got, pipe'.stdout = pipe.stdout,
         container.behaved =>
           /\ parent'.pc \in {"write", "read", "wait"} => pipe'.held
           /\ parent'.pc = "wait" => LineRead
           /\ parent'.pc = "done" => parent'.outcome \in {"Ok", "ImageNotPresent", "Spawn"}
  PROVE  BehavedInv'
  BY DEF BehavedInv, BehavedIsAnswered, LineInSight, LineRead

\* A step of the parent that returns.
LEMMA ParentReturns ==
  ASSUME RunInv, BehavedInv, UNCHANGED container, NEW o \in Outcome, Return(o),
         container.behaved => o \in {"Ok", "ImageNotPresent", "Spawn"}
  PROVE  BehavedInv'
  <1>1. parent \in Parents /\ pipe \in Pipes
    BY Types
  <1>2. /\ parent'.pc = "done" /\ parent'.outcome = o
        /\ parent'.got = parent.got /\ pipe'.stdout = pipe.stdout
    BY <1>1, ReturnWrites
  <1> QED BY <1>2, ParentMoves

\* A step of the parent to a place where the ends of the pipes stay its own.
LEMMA ParentGoes ==
  ASSUME RunInv, BehavedInv, UNCHANGED <<pipe, container>>,
         NEW l \in {"spawn", "wait"}, parent' = [parent EXCEPT !.pc = l],
         l = "wait" => parent.pc = "read" /\ (container.behaved => LineRead)
  PROVE  BehavedInv'
  <1>1. parent \in Parents
    BY Types
  <1>2. parent'.pc = l /\ parent'.got = parent.got
    BY <1>1, GotoWrites DEF ParentPC
  <1>3. container.behaved /\ l = "wait" => pipe.held /\ LineRead
    BY DEF BehavedInv
  <1> QED BY <1>2, <1>3, ParentMoves

LEMMA ImageExistsBehaved == ASSUME RunInv, BehavedInv, image_exists PROVE BehavedInv'
  <1>1. UNCHANGED container
    BY DEF image_exists
  <1>2. CASE parent' = [parent EXCEPT !.pc = "spawn"] /\ UNCHANGED pipe
    BY <1>1, <1>2, ParentGoes
  <1>3. ASSUME NEW o \in {"ImageNotPresent", "Spawn"}, Return(o) PROVE BehavedInv'
    BY <1>1, <1>3, ParentReturns DEF Outcome
  <1> QED BY <1>2, <1>3 DEF image_exists

LEMMA SpawnContainerBehaved ==
  ASSUME RunInv, BehavedInv, SpawnContainer PROVE BehavedInv'
  <1>1. parent \in Parents /\ pipe \in Pipes /\ container \in Containers
    BY Types
  <1>2. CASE Return("Spawn") /\ UNCHANGED container
    BY <1>2, ParentReturns DEF Outcome
  <1>3. CASE /\ parent' = [parent EXCEPT !.pc = "write"]
             /\ pipe' = [pipe EXCEPT !.stdin_open = TRUE, !.held = TRUE]
             /\ container' = [container EXCEPT !.state = "running"]
    <2>1. parent'.pc = "write" /\ parent'.got = parent.got
      BY <1>1, <1>3, GotoWrites DEF ParentPC
    <2>2. pipe'.held /\ pipe'.stdout = pipe.stdout
      BY <1>1, <1>3 DEF Pipes
    <2>3. /\ container'.state = "running" /\ container'.behaved = container.behaved
          /\ container'.open = container.open /\ container'.first = container.first
      BY <1>1, <1>3 DEF Containers
    <2> QED BY <2>1, <2>2, <2>3
         DEF BehavedInv, BehavedIsAnswered, LineInSight, LineRead
  <1> QED BY <1>2, <1>3 DEF SpawnContainer

LEMMA WritePieceBehaved == ASSUME RunInv, BehavedInv, WritePiece PROVE BehavedInv'
  <1>1. parent \in Parents /\ pipe \in Pipes
    BY Types
  <1>2. parent'.pc = parent.pc /\ parent'.got = parent.got /\ parent.pc = "write"
    BY <1>1 DEF WritePiece, Parents
  <1>3. pipe'.held = pipe.held /\ pipe'.stdout = pipe.stdout
    BY <1>1 DEF WritePiece, Pipes
  <1>4. container.behaved => pipe.held
    BY <1>2 DEF BehavedInv
  <1> QED BY <1>2, <1>3, <1>4, ParentMoves DEF WritePiece

\* It has read its whole request when it ends, so nothing is left to write.
LEMMA WriteBrokenBehaved == ASSUME RunInv, BehavedInv, WriteBroken PROVE BehavedInv'
  <1>1. /\ parent.pc = "write" /\ parent.unsent > 0 /\ ~Running
        /\ Return("StdinWrite") /\ UNCHANGED container
    BY DEF WriteBroken
  <1>2. container.state # "none"
    BY <1>1 DEF RunInv, Stages
  <1>3. ~container.behaved
    <2> SUFFICES ASSUME container.behaved PROVE FALSE
      OBVIOUS
    <2>1. container.read = RequestSize
      BY <1>1, <1>2, BehavedIsOver
    <2>2. container.read + pipe.stdin + parent.unsent = RequestSize
      BY DEF RunInv, RequestKept
    <2>3. parent.unsent \in Nat /\ pipe.stdin \in Nat /\ RequestSize \in Nat
      BY Types, Numbers DEF Parents, Pipes
    <2> QED BY <1>1, <2>1, <2>2, <2>3
  <1> QED BY <1>1, <1>3, ParentReturns DEF Outcome

LEMMA CloseStdinBehaved == ASSUME RunInv, BehavedInv, CloseStdin PROVE BehavedInv'
  <1>1. parent \in Parents /\ pipe \in Pipes
    BY Types
  <1>2. parent'.pc = "read" /\ parent'.got = parent.got /\ parent.pc = "write"
    BY <1>1, GotoWrites DEF CloseStdin, ParentPC
  <1>3. pipe'.held = pipe.held /\ pipe'.stdout = pipe.stdout
    BY <1>1 DEF CloseStdin, Pipes
  <1>4. container.behaved => pipe.held
    BY <1>2 DEF BehavedInv
  <1> QED BY <1>2, <1>3, <1>4, ParentMoves DEF CloseStdin

\* What leaves the pipe is read: a line in sight stays in sight.
LEMMA ReadPiecesBehaved == ASSUME RunInv, BehavedInv, ReadPieces PROVE BehavedInv'
  <1>1. parent \in Parents /\ pipe \in Pipes
    BY Types
  <1>2. PICK n \in 1 .. Len(pipe.stdout) :
          /\ parent' = [parent EXCEPT !.got = @ \o SubSeq(pipe.stdout, 1, n)]
          /\ pipe' = [pipe EXCEPT !.stdout = SubSeq(@, n + 1, Len(@))]
    BY DEF ReadPieces
  <1> DEFINE taken == SubSeq(pipe.stdout, 1, n)
             left == SubSeq(pipe.stdout, n + 1, Len(pipe.stdout))
             got == parent.got \o taken
  <1>3. parent.got \in Seq(Piece) /\ pipe.stdout \in Seq(Piece)
    BY <1>1 DEF Parents, Pipes
  <1>4. /\ parent'.pc = parent.pc /\ parent'.got = got /\ parent.pc = "read"
        /\ pipe'.held = pipe.held /\ pipe'.stdout = left
    BY <1>1, <1>2 DEF Parents, Pipes, ReadPieces
  <1>5. /\ taken \in Seq(Piece) /\ Len(taken) = n
        /\ \A i \in 1 .. n : taken[i] = pipe.stdout[i]
        /\ left \in Seq(Piece) /\ Len(left) = Len(pipe.stdout) - n
        /\ \A i \in 1 .. Len(pipe.stdout) - n : left[i] = pipe.stdout[n + i]
    BY <1>3
  <1>6. Len(pipe.stdout) \in Nat /\ Len(parent.got) \in Nat /\ n \in 1 .. Len(pipe.stdout)
    BY <1>3
  <1> HIDE DEF taken, left
  <1>7. /\ DOMAIN got = 1 .. Len(parent.got) + n
        /\ \A i \in 1 .. Len(parent.got) : got[i] = parent.got[i]
        /\ \A i \in 1 .. n : got[Len(parent.got) + i] = taken[i]
    BY <1>3, <1>5, <1>6
  <1> HIDE DEF got
  <1>8. UNCHANGED container
    BY DEF ReadPieces
  <1>9. LineInSight => LineInSight'
    <2>1. ASSUME NEW i \in DOMAIN parent.got, parent.got[i].last PROVE LineInSight'
      <3>1. i \in DOMAIN got /\ got[i].last
        BY <1>3, <1>6, <1>7, <2>1
      <3> QED BY <1>4, <3>1 DEF LineInSight, LineRead
    <2>2. ASSUME NEW i \in DOMAIN pipe.stdout, pipe.stdout[i].last PROVE LineInSight'
      <3>1. i \in 1 .. Len(pipe.stdout)
        BY <1>3
      <3>2. CASE i <= n
        <4>1. i \in 1 .. n /\ Len(parent.got) + i \in DOMAIN got
          BY <1>6, <1>7, <3>1, <3>2
        <4>2. got[Len(parent.got) + i].last
          BY <1>5, <1>7, <2>2, <4>1
        <4> QED BY <1>4, <4>1, <4>2 DEF LineInSight, LineRead
      <3>3. CASE i > n
        <4> DEFINE k == i - n
        <4>1. k \in 1 .. Len(pipe.stdout) - n /\ n + k = i
          BY <1>6, <3>1, <3>3
        <4>2. k \in DOMAIN left
          BY <1>5, <4>1
        <4>3. left[k] = pipe.stdout[i]
          BY <1>5, <4>1
        <4> HIDE DEF k
        <4> QED BY <1>4, <2>2, <4>2, <4>3 DEF LineInSight
      <3> QED BY <1>6, <3>1, <3>2, <3>3
    <2> QED BY <2>1, <2>2 DEF LineInSight, LineRead
  <1> QED BY <1>4, <1>8, <1>9 DEF BehavedInv, BehavedIsAnswered

LEMMA ReadLineBehaved == ASSUME RunInv, BehavedInv, ReadLine PROVE BehavedInv'
  <1>1. parent.pc = "read" /\ LineRead /\ UNCHANGED container
    BY DEF ReadLine
  <1>2. CASE parent.got[1].line = "binary" /\ Return("StdoutRead")
    <2>1. parent.got # <<>>
      BY <1>1 DEF LineRead
    <2>2. ~container.behaved
      BY <1>2, <2>1, BehavedPiece
    <2> QED BY <1>1, <1>2, <2>2, ParentReturns DEF Outcome
  <1>3. CASE Wait
    BY <1>1, <1>3, ParentGoes DEF Wait
  <1> QED BY <1>2, <1>3 DEF ReadLine

\* With a behaved container stdout does not end before its line was read.
LEMMA ReadEndBehaved == ASSUME RunInv, BehavedInv, ReadEnd PROVE BehavedInv'
  <1>1. /\ parent.pc = "read" /\ ~LineRead /\ ~Running /\ pipe.stdout = <<>>
        /\ UNCHANGED container
    BY DEF ReadEnd
  <1>2. container.state # "none"
    BY <1>1 DEF RunInv, Stages
  <1>3. ~container.behaved
    <2>1. ~LineInSight
      BY <1>1 DEF LineInSight
    <2> QED BY <1>1, <1>2, <2>1, BehavedIsOver
  <1>4. (\E o \in {"EmptyResponse", "StdoutRead"} : Return(o)) \/ Wait
    BY DEF ReadEnd
  <1>5. CASE \E o \in {"EmptyResponse", "StdoutRead"} : Return(o)
    BY <1>1, <1>3, <1>5, ParentReturns DEF Outcome
  <1>6. CASE Wait
    BY <1>1, <1>3, <1>6, ParentGoes DEF Wait
  <1> QED BY <1>4, <1>5, <1>6

LEMMA ReapBehaved == ASSUME RunInv, BehavedInv, Reap PROVE BehavedInv'
  <1>1. parent.pc = "wait" /\ UNCHANGED container
    BY DEF Reap
  <1>2. container.behaved => parent.got[1].line = "result" /\ LineRead
    <2>1. parent.got # <<>>
      BY <1>1 DEF RunInv, LinesKept
    <2> QED BY <1>1, <2>1, BehavedPiece DEF BehavedInv
  <1>3. CASE Return("Ok")
    BY <1>1, <1>3, ParentReturns DEF Outcome
  <1>4. CASE parent.got[1].line = "error" /\ Return("SkillError")
    BY <1>1, <1>2, <1>4, ParentReturns DEF Outcome
  <1>5. CASE (parent.got[1].line = "junk" \/ ~LineRead) /\ Return("InvalidJson")
    BY <1>1, <1>2, <1>5, ParentReturns DEF Outcome
  <1> QED BY <1>3, <1>4, <1>5 DEF Reap

\* A step of the container that writes no line.
LEMMA ContainerMoves ==
  ASSUME BehavedInv, UNCHANGED parent, Running,
         pipe'.held = pipe.held, pipe'.stdout = pipe.stdout,
         container'.behaved = container.behaved,
         container'.open = container.open, container'.first = container.first,
         container.behaved /\ container'.state = "exited" =>
           container'.eof /\ container.first # None
  PROVE  BehavedInv'
  BY DEF BehavedInv, BehavedIsAnswered, LineInSight, LineRead

LEMMA StillBehaved ==
  ASSUME RunInv, BehavedInv,
         ChooseRead \/ ChooseOut \/ ChooseErr \/ ReadsPiece \/ ReadsEof \/ WritesErr
  PROVE  BehavedInv'
  <1>1. pipe \in Pipes /\ container \in Containers
    BY Types
  <1>2. Running /\ UNCHANGED parent
    BY DEF ChooseRead, ChooseOut, ChooseErr, Chooses, ReadsPiece, ReadsEof, WritesErr
  <1>3. pipe'.held = pipe.held /\ pipe'.stdout = pipe.stdout
    BY <1>1 DEF ChooseRead, ChooseOut, ChooseErr, Chooses, ReadsPiece, ReadsEof,
       WritesErr, Pipes
  <1>4. /\ container'.behaved = container.behaved /\ container'.state = container.state
        /\ container'.open = container.open /\ container'.first = container.first
    BY <1>1 DEF ChooseRead, ChooseOut, ChooseErr, Chooses, ReadsPiece, ReadsEof,
       WritesErr, Containers
  <1> QED BY <1>2, <1>3, <1>4, ContainerMoves DEF Running

\* Under a run that goes on the parent holds its ends: nothing kills it.
LEMMA EndsBehaved == ASSUME RunInv, BehavedInv, WriteKills \/ Exits PROVE BehavedInv'
  <1>1. container \in Containers
    BY Types
  <1>2. Running /\ container' = Exited /\ UNCHANGED <<parent, pipe>>
    BY DEF WriteKills, Exits
  <1>3. /\ container'.behaved = container.behaved /\ container'.eof = container.eof
        /\ container'.open = container.open /\ container'.first = container.first
    BY <1>1, <1>2 DEF Exited, Containers
  <1>4. container.behaved => pipe.held
    <2>1. CASE parent.pc \in {"write", "read", "wait"}
      BY <2>1 DEF BehavedInv
    <2>2. CASE parent.pc \in {"exists", "spawn"}
      BY <1>2, <2>2 DEF RunInv, Stages, Running
    <2>3. CASE parent.pc = "done"
      BY <1>2, <2>3 DEF RunInv, Stages, Running, AnswerIsFirstLine, BehavedInv,
         BehavedIsAnswered
    <2> QED BY <2>1, <2>2, <2>3, Types DEF Parents, ParentPC
  <1>5. container.behaved => container.eof /\ container.first # None
    BY <1>4 DEF WriteKills, Exits
  <1> QED BY <1>2, <1>3, <1>5, ContainerMoves

LEMMA WritesOutBehaved == ASSUME RunInv, BehavedInv, WritesOut PROVE BehavedInv'
  <1>1. pipe \in Pipes /\ container \in Containers
    BY Types
  <1>2. PICK line \in Line, last \in BOOLEAN :
          /\ container.behaved => line = "result"
          /\ pipe' = [pipe EXCEPT !.stdout = Append(@, [line |-> line, last |-> last])]
          /\ container' = [container EXCEPT
               !.op = "none", !.out = @ + 1,
               !.open = IF last THEN None ELSE line,
               !.first = IF @ = None /\ last THEN line ELSE @]
    BY DEF WritesOut
  <1>3. container.out < MaxOut
    BY DEF RunInv, Stages, WritesOut
  <1>4. /\ container'.state = container.state
        /\ container'.open = IF last THEN None ELSE line
        /\ container'.first = IF container.first = None /\ last THEN line
                              ELSE container.first
    BY <1>1, <1>2, <1>3, PieceWritten
  <1>5. container'.behaved = container.behaved
    BY <1>1, <1>2 DEF Containers
  <1> DEFINE piece == [line |-> line, last |-> last]
             stdout == Append(pipe.stdout, piece)
  <1>6. pipe'.held = pipe.held /\ pipe'.stdout = stdout
    BY <1>1, <1>2 DEF Pipes
  <1>7. Running /\ UNCHANGED parent
    BY DEF WritesOut
  <1>8. piece \in Piece /\ piece.last = last
    BY DEF Piece
  <1> HIDE DEF piece
  <1>9. /\ DOMAIN stdout = 1 .. Len(pipe.stdout) + 1
        /\ \A i \in 1 .. Len(pipe.stdout) : stdout[i] = pipe.stdout[i]
        /\ stdout[Len(pipe.stdout) + 1] = piece
        /\ Len(pipe.stdout) \in Nat /\ DOMAIN pipe.stdout = 1 .. Len(pipe.stdout)
    <2>1. pipe.stdout \in Seq(Piece)
      BY <1>1 DEF Pipes
    <2> QED BY <1>8, <2>1, AppendProperties
  <1> HIDE DEF stdout
  <1>10. LineInSight \/ last => LineInSight'
    <2>1. CASE last
      <3> DEFINE k == Len(pipe.stdout) + 1
      <3>1. k \in DOMAIN stdout
        BY <1>9
      <3>2. stdout[k].last
        BY <1>8, <1>9, <2>1
      <3> HIDE DEF k
      <3> QED BY <1>6, <3>1, <3>2 DEF LineInSight
    <2>2. CASE LineRead
      BY <1>7, <2>2 DEF LineInSight, LineRead
    <2>3. ASSUME NEW i \in DOMAIN pipe.stdout, pipe.stdout[i].last PROVE LineInSight'
      <3>1. i \in DOMAIN stdout /\ stdout[i].last
        BY <1>9, <2>3
      <3> QED BY <1>6, <3>1 DEF LineInSight
    <2> QED BY <2>1, <2>2, <2>3 DEF LineInSight
  <1> SUFFICES ASSUME container.behaved
               PROVE  BehavedInv'
    BY <1>5 DEF BehavedInv
  <1>11. /\ container'.open \in {None, "result"}
         /\ container'.first \in {None, "result"}
         /\ container'.first # None => LineInSight'
    BY <1>2, <1>4, <1>10 DEF BehavedInv
  <1>12. LineRead' = LineRead /\ BehavedIsAnswered'
    BY <1>5, <1>7 DEF BehavedInv, BehavedIsAnswered, LineRead
  <1> QED BY <1>4, <1>6, <1>7, <1>11, <1>12 DEF BehavedInv, Running

LEMMA StepBehaved == ASSUME RunInv, BehavedInv, Next PROVE BehavedInv'
  <1>1. CASE ParentStep
    BY <1>1, ImageExistsBehaved, SpawnContainerBehaved, WritePieceBehaved,
       WriteBrokenBehaved, CloseStdinBehaved, ReadPiecesBehaved, ReadLineBehaved,
       ReadEndBehaved, ReapBehaved DEF ParentStep
  <1>2. CASE ContainerStep
    BY <1>2, StillBehaved, EndsBehaved, WritesOutBehaved DEF ContainerStep
  <1> QED BY <1>1, <1>2 DEF Next

LEMMA BehavedInvariant == Spec => []BehavedInv
  <1>1. Init => BehavedInv
    BY DEF Init, NoContainer, BehavedInv, BehavedIsAnswered
  <1>2. RunInv /\ BehavedInv /\ [Next]_vars => BehavedInv'
    <2> SUFFICES ASSUME RunInv, BehavedInv, [Next]_vars PROVE BehavedInv'
      OBVIOUS
    <2>1. CASE UNCHANGED vars
      BY <2>1 DEF vars, BehavedInv, BehavedIsAnswered, LineInSight, LineRead
    <2> QED BY <2>1, StepBehaved
  <1> QED BY <1>1, <1>2, RunInvariant, PTL DEF Spec

\* A container that takes its line, gives its line and ends at EOF is answered with
\* it, however the bytes are cut and the two processes interleave (invoke_stdio).
THEOREM BehavedAnswered == Spec => []BehavedIsAnswered
  <1>1. BehavedInv => BehavedIsAnswered
    BY DEF BehavedInv, BehavedIsAnswered
  <1> QED BY <1>1, BehavedInvariant, PTL

-----------------------------------------------------------------------------
(* Nobody waits on somebody who waits. *)

\* A step of the parent: the container is as it was, and nothing comes into the
\* pipes.
LEMMA ParentFlows ==
  ASSUME FlowInv, UNCHANGED container,
         pipe'.stderr = pipe.stderr,
         Len(pipe'.stdout) <= container.out,
         LineInSight' => LineInSight,
         parent'.pc \in {"write", "read", "wait"} => pipe'.held,
         pipe'.stdin_open <=> parent'.pc = "write",
         parent'.pc = "wait" => parent'.got[1].line # "binary"
  PROVE  FlowInv'
  BY DEF FlowInv

LEMMA SameSight ==
  ASSUME parent'.got = parent.got, pipe'.stdout = pipe.stdout
  PROVE  LineInSight' = LineInSight
  BY DEF LineInSight, LineRead

\* A step of the parent that returns.
LEMMA ReturnFlows ==
  ASSUME RunInv, FlowInv, UNCHANGED container, NEW o \in Outcome, Return(o)
  PROVE  FlowInv'
  <1>1. parent \in Parents /\ pipe \in Pipes
    BY Types
  <1>2. /\ parent'.pc = "done" /\ parent'.got = parent.got
        /\ ~pipe'.stdin_open /\ pipe'.stdout = pipe.stdout
    BY <1>1, ReturnWrites
  <1>3. pipe'.stderr = pipe.stderr
    BY <1>1 DEF Return, Pipes
  <1>4. Len(pipe'.stdout) <= container.out
    BY <1>2 DEF FlowInv
  <1> QED BY <1>2, <1>3, <1>4, SameSight, ParentFlows

\* A step of the parent to another place with its ends as they are.
LEMMA GoesFlows ==
  ASSUME RunInv, FlowInv, UNCHANGED <<pipe, container>>,
         NEW l \in ParentPC, parent' = [parent EXCEPT !.pc = l],
         l = "wait" => parent.pc = "read" /\ parent.got[1].line # "binary",
         l = "spawn" => parent.pc = "exists", l \in {"spawn", "wait"}
  PROVE  FlowInv'
  <1>1. parent \in Parents
    BY Types
  <1>2. parent'.pc = l /\ parent'.got = parent.got
    BY <1>1, GotoWrites
  <1>3. Len(pipe'.stdout) <= container.out /\ pipe'.stderr = pipe.stderr
    BY DEF FlowInv
  <1>4. l = "wait" => pipe'.held
    BY DEF FlowInv
  <1>5. ~pipe'.stdin_open
    BY DEF FlowInv
  <1> QED BY <1>2, <1>3, <1>4, <1>5, SameSight, ParentFlows

LEMMA ImageExistsFlows == ASSUME RunInv, FlowInv, image_exists PROVE FlowInv'
  <1>1. UNCHANGED container /\ parent.pc = "exists"
    BY DEF image_exists
  <1>2. CASE parent' = [parent EXCEPT !.pc = "spawn"] /\ UNCHANGED pipe
    BY <1>1, <1>2, GoesFlows DEF ParentPC
  <1>3. ASSUME NEW o \in {"ImageNotPresent", "Spawn"}, Return(o) PROVE FlowInv'
    BY <1>1, <1>3, ReturnFlows DEF Outcome
  <1> QED BY <1>2, <1>3 DEF image_exists

LEMMA SpawnContainerFlows == ASSUME RunInv, FlowInv, SpawnContainer PROVE FlowInv'
  <1>1. parent \in Parents /\ pipe \in Pipes /\ container \in Containers
    BY Types
  <1>2. CASE Return("Spawn") /\ UNCHANGED container
    BY <1>2, ReturnFlows DEF Outcome
  <1>3. CASE /\ parent' = [parent EXCEPT !.pc = "write"]
             /\ pipe' = [pipe EXCEPT !.stdin_open = TRUE, !.held = TRUE]
             /\ container' = [container EXCEPT !.state = "running"]
    <2>1. parent'.pc = "write" /\ parent'.got = parent.got
      BY <1>1, <1>3, GotoWrites DEF ParentPC
    <2>2. /\ pipe'.held /\ pipe'.stdin_open
          /\ pipe'.stdout = pipe.stdout /\ pipe'.stderr = pipe.stderr
      BY <1>1, <1>3 DEF Pipes
    <2>3. /\ container'.behaved = container.behaved /\ container'.op = container.op
          /\ container'.read = container.read /\ container'.err = container.err
          /\ container'.open = container.open /\ container'.first = container.first
          /\ container'.out = container.out
      BY <1>1, <1>3 DEF Containers
    <2>4. LineInSight' = LineInSight
      BY <2>1, <2>2, SameSight
    <2> QED BY <2>1, <2>2, <2>3, <2>4 DEF FlowInv
  <1> QED BY <1>2, <1>3 DEF SpawnContainer

LEMMA WritePieceFlows == ASSUME RunInv, FlowInv, WritePiece PROVE FlowInv'
  <1>1. parent \in Parents /\ pipe \in Pipes
    BY Types
  <1>2. parent'.pc = parent.pc /\ parent'.got = parent.got /\ parent.pc = "write"
    BY <1>1 DEF WritePiece, Parents
  <1>3. /\ pipe'.held = pipe.held /\ pipe'.stdin_open = pipe.stdin_open
        /\ pipe'.stdout = pipe.stdout /\ pipe'.stderr = pipe.stderr
    BY <1>1 DEF WritePiece, Pipes
  <1>4. UNCHANGED container
    BY DEF WritePiece
  <1>5. Len(pipe'.stdout) <= container.out /\ pipe'.held /\ pipe'.stdin_open
    BY <1>2, <1>3 DEF FlowInv
  <1> QED BY <1>2, <1>3, <1>4, <1>5, SameSight, ParentFlows

LEMMA CloseStdinFlows == ASSUME RunInv, FlowInv, CloseStdin PROVE FlowInv'
  <1>1. parent \in Parents /\ pipe \in Pipes
    BY Types
  <1>2. parent'.pc = "read" /\ parent'.got = parent.got /\ parent.pc = "write"
    BY <1>1, GotoWrites DEF CloseStdin, ParentPC
  <1>3. /\ pipe'.held = pipe.held /\ ~pipe'.stdin_open
        /\ pipe'.stdout = pipe.stdout /\ pipe'.stderr = pipe.stderr
    BY <1>1 DEF CloseStdin, Pipes
  <1>4. UNCHANGED container
    BY DEF CloseStdin
  <1>5. Len(pipe'.stdout) <= container.out /\ pipe'.held
    BY <1>2, <1>3 DEF FlowInv
  <1> QED BY <1>2, <1>3, <1>4, <1>5, SameSight, ParentFlows

\* What is read was in the pipe: no line comes in sight that was not.
LEMMA ReadPiecesFlows == ASSUME RunInv, FlowInv, ReadPieces PROVE FlowInv'
  <1>1. parent \in Parents /\ pipe \in Pipes /\ container \in Containers
    BY Types
  <1>2. PICK n \in 1 .. Len(pipe.stdout) :
          /\ parent' = [parent EXCEPT !.got = @ \o SubSeq(pipe.stdout, 1, n)]
          /\ pipe' = [pipe EXCEPT !.stdout = SubSeq(@, n + 1, Len(@))]
    BY DEF ReadPieces
  <1> DEFINE taken == SubSeq(pipe.stdout, 1, n)
             left == SubSeq(pipe.stdout, n + 1, Len(pipe.stdout))
             got == parent.got \o taken
  <1>3. parent.got \in Seq(Piece) /\ pipe.stdout \in Seq(Piece)
    BY <1>1 DEF Parents, Pipes
  <1>4. /\ parent'.pc = parent.pc /\ parent'.got = got /\ parent.pc = "read"
        /\ pipe'.held = pipe.held /\ pipe'.stdin_open = pipe.stdin_open
        /\ pipe'.stdout = left /\ pipe'.stderr = pipe.stderr
    BY <1>1, <1>2 DEF Parents, Pipes, ReadPieces
  <1>5. /\ taken \in Seq(Piece) /\ Len(taken) = n
        /\ \A i \in 1 .. n : taken[i] = pipe.stdout[i]
        /\ left \in Seq(Piece) /\ Len(left) = Len(pipe.stdout) - n
        /\ \A i \in 1 .. Len(pipe.stdout) - n : left[i] = pipe.stdout[n + i]
    BY <1>3
  <1>6. Len(pipe.stdout) \in Nat /\ Len(parent.got) \in Nat /\ n \in 1 .. Len(pipe.stdout)
    BY <1>3
  <1> HIDE DEF taken, left
  <1>7. /\ DOMAIN got = 1 .. Len(parent.got) + n
        /\ \A i \in 1 .. Len(parent.got) : got[i] = parent.got[i]
        /\ \A i \in 1 .. n : got[Len(parent.got) + i] = taken[i]
    BY <1>3, <1>5, <1>6
  <1> HIDE DEF got
  <1>8. UNCHANGED container
    BY DEF ReadPieces
  <1>9. ASSUME NEW i \in 1 .. Len(pipe.stdout), pipe.stdout[i].last PROVE LineInSight
    <2>1. i \in DOMAIN pipe.stdout
      BY <1>3
    <2> QED BY <1>9, <2>1 DEF LineInSight
  <1>10. LineInSight' => LineInSight
    <2>1. ASSUME NEW i \in DOMAIN got, got[i].last PROVE LineInSight
      <3>1. CASE i \in 1 .. Len(parent.got)
        <4>1. i \in DOMAIN parent.got /\ parent.got[i].last
          BY <1>3, <1>7, <2>1, <3>1
        <4> QED BY <4>1 DEF LineInSight, LineRead
      <3>2. CASE i \notin 1 .. Len(parent.got)
        <4> DEFINE k == i - Len(parent.got)
        <4>1. k \in 1 .. n /\ Len(parent.got) + k = i /\ k \in 1 .. Len(pipe.stdout)
          <5>1. i \in 1 .. Len(parent.got) + n
            BY <1>7
          <5> QED BY <1>6, <3>2, <5>1
        <4>2. got[i] = pipe.stdout[k]
          BY <1>5, <1>7, <4>1
        <4> HIDE DEF k
        <4> QED BY <1>9, <2>1, <4>1, <4>2
      <3> QED BY <3>1, <3>2
    <2>2. ASSUME NEW i \in DOMAIN left, left[i].last PROVE LineInSight
      <3>1. i \in 1 .. Len(pipe.stdout) - n
        BY <1>5
      <3>2. n + i \in 1 .. Len(pipe.stdout) /\ left[i] = pipe.stdout[n + i]
        BY <1>5, <1>6, <3>1
      <3> QED BY <1>9, <2>2, <3>2
    <2> QED BY <1>4, <2>1, <2>2 DEF LineInSight, LineRead
  <1>11. Len(pipe'.stdout) <= container.out
    <2>1. Len(pipe.stdout) <= container.out /\ container.out \in Int
      BY <1>1, Numbers DEF FlowInv, Containers
    <2> QED BY <1>4, <1>5, <1>6, <2>1
  <1>12. pipe'.held /\ ~pipe'.stdin_open
    BY <1>4 DEF FlowInv
  <1> QED BY <1>4, <1>8, <1>10, <1>11, <1>12, ParentFlows

LEMMA ReadLineFlows == ASSUME RunInv, FlowInv, ReadLine PROVE FlowInv'
  <1>1. parent.pc = "read" /\ UNCHANGED container
    BY DEF ReadLine
  <1>2. CASE Return("StdoutRead")
    BY <1>1, <1>2, ReturnFlows DEF Outcome
  <1>3. CASE parent.got[1].line # "binary" /\ Wait
    BY <1>1, <1>3, GoesFlows DEF Wait, ParentPC
  <1> QED BY <1>2, <1>3 DEF ReadLine

LEMMA ReadEndFlows == ASSUME RunInv, FlowInv, ReadEnd PROVE FlowInv'
  <1>1. parent.pc = "read" /\ UNCHANGED container
    BY DEF ReadEnd
  <1>2. ASSUME NEW o \in {"EmptyResponse", "StdoutRead"}, Return(o) PROVE FlowInv'
    BY <1>1, <1>2, ReturnFlows DEF Outcome
  <1>3. CASE parent.got[1].line # "binary" /\ Wait
    BY <1>1, <1>3, GoesFlows DEF Wait, ParentPC
  <1> QED BY <1>2, <1>3 DEF ReadEnd

LEMMA ParentReturnFlows == ASSUME RunInv, FlowInv, WriteBroken \/ Reap PROVE FlowInv'
  <1>1. /\ UNCHANGED container
        /\ \E o \in {"StdinWrite", "Ok", "SkillError", "InvalidJson"} : Return(o)
    BY DEF WriteBroken, Reap
  <1> QED BY <1>1, ReturnFlows DEF Outcome

\* A step of the container that writes no line: who holds what is as it was.
LEMMA ContainerFlows ==
  ASSUME FlowInv, UNCHANGED parent,
         pipe'.held = pipe.held, pipe'.stdin_open = pipe.stdin_open,
         pipe'.stdout = pipe.stdout, pipe'.stderr <= container'.err,
         container'.behaved = container.behaved, container'.out = container.out,
         container'.open = container.open, container'.first = container.first,
         container.behaved =>
           /\ container'.op = "out" =>
                container'.read = RequestSize /\ container.first = None
           /\ container'.err + (IF container'.op = "err" THEN 1 ELSE 0) <= StderrCap
  PROVE  FlowInv'
  <1>1. LineInSight' = LineInSight
    BY SameSight
  <1> QED BY <1>1 DEF FlowInv

LEMMA ChoosesFlows ==
  ASSUME RunInv, FlowInv, ChooseRead \/ ChooseOut \/ ChooseErr
  PROVE  FlowInv'
  <1>1. container \in Containers
    BY Types
  <1>2. PICK op \in {"in", "out", "err"} :
          /\ Chooses(op)
          /\ op = "out" /\ container.behaved =>
               container.read = RequestSize /\ container.first = None
          /\ op = "err" /\ container.behaved => container.err < StderrCap
    BY DEF ChooseRead, ChooseOut, ChooseErr
  <1>3. UNCHANGED <<parent, pipe>> /\ container.op = "none"
    BY <1>2 DEF Chooses
  <1>4. /\ container'.op = op /\ container'.behaved = container.behaved
        /\ container'.out = container.out /\ container'.err = container.err
        /\ container'.open = container.open /\ container'.first = container.first
        /\ container'.read = container.read
    BY <1>1, <1>2 DEF Chooses, Containers
  <1>5. container.behaved =>
          container'.err + (IF container'.op = "err" THEN 1 ELSE 0) <= StderrCap
    <2>1. container.err \in Nat /\ StderrCap \in Nat
      BY <1>1, Numbers DEF Containers
    <2>2. container.behaved => container.err + 0 <= StderrCap
      BY <1>3 DEF FlowInv
    <2> QED BY <1>2, <1>4, <2>1, <2>2
  <1>6. pipe'.stderr <= container'.err
    BY <1>3, <1>4 DEF FlowInv
  <1> QED BY <1>2, <1>3, <1>4, <1>5, <1>6, ContainerFlows

LEMMA ReadsFlows == ASSUME RunInv, FlowInv, ReadsPiece \/ ReadsEof PROVE FlowInv'
  <1>1. pipe \in Pipes /\ container \in Containers
    BY Types
  <1>2. UNCHANGED parent /\ container.op = "in"
    BY DEF ReadsPiece, ReadsEof
  <1>3. /\ pipe'.held = pipe.held /\ pipe'.stdin_open = pipe.stdin_open
        /\ pipe'.stdout = pipe.stdout /\ pipe'.stderr = pipe.stderr
    BY <1>1 DEF ReadsPiece, ReadsEof, Pipes
  <1>4. /\ container'.op = "none" /\ container'.behaved = container.behaved
        /\ container'.out = container.out /\ container'.err = container.err
        /\ container'.open = container.open /\ container'.first = container.first
    BY <1>1 DEF ReadsPiece, ReadsEof, Containers
  <1>5. pipe'.stderr <= container'.err
    BY <1>3, <1>4 DEF FlowInv
  <1>6. container.behaved => container.err + 0 <= StderrCap
    BY <1>2 DEF FlowInv
  <1> QED BY <1>2, <1>3, <1>4, <1>5, <1>6, ContainerFlows

LEMMA WritesErrFlows == ASSUME RunInv, FlowInv, WritesErr PROVE FlowInv'
  <1>1. pipe \in Pipes /\ container \in Containers
    BY Types
  <1>2. UNCHANGED parent /\ container.op = "err"
    BY DEF WritesErr
  <1>3. /\ pipe'.held = pipe.held /\ pipe'.stdin_open = pipe.stdin_open
        /\ pipe'.stdout = pipe.stdout /\ pipe'.stderr = pipe.stderr + 1
    BY <1>1 DEF WritesErr, Pipes
  <1>4. /\ container'.op = "none" /\ container'.behaved = container.behaved
        /\ container'.out = container.out /\ container'.err = container.err + 1
        /\ container'.open = container.open /\ container'.first = container.first
    BY <1>1 DEF WritesErr, Containers
  <1>5. pipe'.stderr <= container'.err
    <2>1. pipe.stderr <= container.err /\ pipe.stderr \in Int /\ container.err \in Int
      BY <1>1, Numbers DEF FlowInv, Pipes, Containers
    <2> QED BY <1>3, <1>4, <2>1
  <1>6. container.behaved => container'.err + 0 <= StderrCap
    <2>1. container.behaved => container.err + 1 <= StderrCap
      BY <1>2 DEF FlowInv
    <2>2. container.err \in Nat
      BY <1>1 DEF Containers
    <2> QED BY <1>4, <2>1, <2>2
  <1> QED BY <1>2, <1>3, <1>4, <1>5, <1>6, ContainerFlows

LEMMA EndsFlows == ASSUME RunInv, FlowInv, WriteKills \/ Exits PROVE FlowInv'
  <1>1. container \in Containers
    BY Types
  <1>2. container' = Exited /\ UNCHANGED <<parent, pipe>>
    BY DEF WriteKills, Exits
  <1>3. /\ container'.op = "none" /\ container'.behaved = container.behaved
        /\ container'.out = container.out /\ container'.err = container.err
        /\ container'.open = container.open /\ container'.first = container.first
    BY <1>1, <1>2 DEF Exited, Containers
  <1>4. pipe'.stderr <= container'.err
    BY <1>2, <1>3 DEF FlowInv
  <1>5. container.behaved => container.err + 0 <= StderrCap
    <2>1. container.err \in Nat /\ StderrCap \in Nat
      BY <1>1, Numbers DEF Containers
    <2> QED BY <2>1 DEF FlowInv
  <1> QED BY <1>2, <1>3, <1>4, <1>5, ContainerFlows

\* A line that ends, be it of one piece or two, is the first or follows it; and the
\* one piece that a behaved container writes before its line has ended leaves it in
\* that line.
LEMMA WritesOutFlows == ASSUME RunInv, FlowInv, WritesOut PROVE FlowInv'
  <1>1. pipe \in Pipes /\ container \in Containers
    BY Types
  <1>2. PICK line \in Line, last \in BOOLEAN :
          /\ container.open # None => line = container.open /\ last
          /\ pipe' = [pipe EXCEPT !.stdout = Append(@, [line |-> line, last |-> last])]
          /\ container' = [container EXCEPT
               !.op = "none", !.out = @ + 1,
               !.open = IF last THEN None ELSE line,
               !.first = IF @ = None /\ last THEN line ELSE @]
    BY DEF WritesOut
  <1>3. container.out < MaxOut
    BY DEF RunInv, Stages, WritesOut
  <1>4. /\ container'.op = "none"
        /\ container'.open = IF last THEN None ELSE line
        /\ container'.first = IF container.first = None /\ last THEN line
                              ELSE container.first
    BY <1>1, <1>2, <1>3, PieceWritten
  <1>5. /\ container'.behaved = container.behaved /\ container'.err = container.err
        /\ container'.out = container.out + 1
    BY <1>1, <1>2 DEF Containers
  <1> DEFINE piece == [line |-> line, last |-> last]
             stdout == Append(pipe.stdout, piece)
  <1>6. /\ pipe'.held = pipe.held /\ pipe'.stdin_open = pipe.stdin_open
        /\ pipe'.stdout = stdout /\ pipe'.stderr = pipe.stderr
    BY <1>1, <1>2 DEF Pipes
  <1>7. UNCHANGED parent /\ container.op = "out"
    BY DEF WritesOut
  <1>8. piece \in Piece /\ piece.last = last
    BY DEF Piece
  <1> HIDE DEF piece
  <1>9. /\ DOMAIN stdout = 1 .. Len(pipe.stdout) + 1
        /\ Len(stdout) = Len(pipe.stdout) + 1
        /\ \A i \in 1 .. Len(pipe.stdout) : stdout[i] = pipe.stdout[i]
        /\ stdout[Len(pipe.stdout) + 1] = piece
        /\ Len(pipe.stdout) \in Nat /\ DOMAIN pipe.stdout = 1 .. Len(pipe.stdout)
    <2>1. pipe.stdout \in Seq(Piece)
      BY <1>1 DEF Pipes
    <2> QED BY <1>8, <2>1, AppendProperties
  <1> HIDE DEF stdout
  <1>10. LineInSight' => LineInSight \/ last
    <2>1. ASSUME NEW i \in DOMAIN stdout, stdout[i].last PROVE LineInSight \/ last
      <3>1. CASE i = Len(pipe.stdout) + 1
        BY <1>8, <1>9, <2>1, <3>1
      <3>2. CASE i # Len(pipe.stdout) + 1
        <4>1. i \in DOMAIN pipe.stdout /\ pipe.stdout[i].last
          BY <1>9, <2>1, <3>2
        <4> QED BY <4>1 DEF LineInSight
      <3> QED BY <3>1, <3>2
    <2> QED BY <1>6, <1>7, <2>1 DEF LineInSight, LineRead
  <1>11. LineInSight' => container'.first # None
    BY <1>4, <1>10, Numbers DEF FlowInv
  <1>12. pipe'.stderr <= container'.err /\ Len(pipe'.stdout) <= container'.out
    <2>1. Len(pipe.stdout) <= container.out /\ container.out \in Int
      BY <1>1, Numbers DEF FlowInv, Containers
    <2> QED BY <1>5, <1>6, <1>9, <2>1 DEF FlowInv
  <1>13. ASSUME container.behaved
         PROVE  /\ container'.err + 0 <= StderrCap
                /\ container'.first = None =>
                     container'.out = IF container'.open = None THEN 0 ELSE 1
    <2>1. container'.err + 0 <= StderrCap
      BY <1>5, <1>7, <1>13 DEF FlowInv
    <2>2. ASSUME container'.first = None
          PROVE  container'.out = IF container'.open = None THEN 0 ELSE 1
      <3>1. container.first = None /\ ~last
        BY <1>4, <2>2, Numbers
      <3>2. container.open = None /\ container'.open # None
        BY <1>2, <1>4, <3>1, Numbers
      <3>3. container.out = 0
        BY <1>13, <3>1, <3>2 DEF FlowInv
      <3> QED BY <1>5, <3>2, <3>3
    <2> QED BY <2>1, <2>2
  <1>14. /\ parent'.pc \in {"write", "read", "wait"} => pipe'.held
         /\ pipe'.stdin_open <=> parent'.pc = "write"
         /\ parent'.pc = "wait" => parent'.got[1].line # "binary"
    BY <1>6, <1>7 DEF FlowInv
  <1> QED BY <1>4, <1>5, <1>11, <1>12, <1>13, <1>14 DEF FlowInv

LEMMA StepFlows == ASSUME RunInv, FlowInv, Next PROVE FlowInv'
  <1>1. CASE ParentStep
    BY <1>1, ImageExistsFlows, SpawnContainerFlows, WritePieceFlows, CloseStdinFlows,
       ReadPiecesFlows, ReadLineFlows, ReadEndFlows, ParentReturnFlows DEF ParentStep
  <1>2. CASE ContainerStep
    BY <1>2, ChoosesFlows, ReadsFlows, WritesOutFlows, WritesErrFlows, EndsFlows
       DEF ContainerStep
  <1> QED BY <1>1, <1>2 DEF Next

LEMMA InitFlows == ASSUME Init PROVE FlowInv
  <1>1. /\ parent.pc = "exists" /\ parent.got = <<>>
        /\ pipe.stdin_open = FALSE /\ pipe.stdout = <<>> /\ pipe.stderr = 0
    BY DEF Init
  <1>2. /\ container.op = "none" /\ container.open = None /\ container.first = None
        /\ container.out = 0 /\ container.err = 0
    BY DEF Init, NoContainer
  <1>3. ~LineInSight /\ Len(pipe.stdout) = 0
    <2>1. DOMAIN parent.got = {} /\ DOMAIN pipe.stdout = {}
      BY <1>1
    <2> QED BY <1>1, <2>1 DEF LineInSight, LineRead
  <1>4. 0 + 0 <= StderrCap
    BY Numbers
  <1> QED BY <1>1, <1>2, <1>3, <1>4 DEF FlowInv

LEMMA FlowInvariant == Spec => []FlowInv
  <1>1. Init => FlowInv
    BY InitFlows
  <1>2. RunInv /\ FlowInv /\ [Next]_vars => FlowInv'
    <2> SUFFICES ASSUME RunInv, FlowInv, [Next]_vars PROVE FlowInv'
      OBVIOUS
    <2>1. CASE UNCHANGED vars
      BY <2>1 DEF vars, FlowInv, LineInSight, LineRead
    <2> QED BY <2>1, StepFlows
  <1> QED BY <1>1, <1>2, RunInvariant, PTL DEF Spec

\* A container whose output fits, or that behaves, is never held up at its stderr.
LEMMA StderrHasRoom ==
  ASSUME RunInv, FlowInv, container.behaved \/ Fits, container.op = "err"
  PROVE  pipe.stderr < StderrCap
  <1>1. container.err \in Nat /\ pipe.stderr \in Nat /\ StderrCap \in Nat
    BY Types, Numbers DEF Containers, Pipes
  <1>2. container.err + 1 <= StderrCap
    BY DEF FlowInv, Fits
  <1>3. pipe.stderr <= container.err
    BY DEF FlowInv
  <1> QED BY <1>1, <1>2, <1>3

\* Held up at its stdout, a behaved container has read its request and has not ended
\* its line: the parent reads, and finds that the pipe is not empty.
LEMMA StdoutIsRead ==
  ASSUME RunInv, BehavedInv, FlowInv, container.behaved \/ Fits, container.op = "out",
         Len(pipe.stdout) >= StdoutCap, parent.pc \in {"write", "read", "wait"}
  PROVE  ParentCanGo
  <1>1. /\ pipe.stdout \in Seq(Piece) /\ Len(pipe.stdout) \in Nat
        /\ container.out \in Nat /\ container.read \in Nat
        /\ parent.unsent \in Nat /\ pipe.stdin \in Nat
        /\ StdoutCap \in Nat \ {0} /\ RequestSize \in Nat
    BY Types, Numbers DEF Containers, Pipes, Parents
  <1>2. container.behaved
    <2>1. Len(pipe.stdout) <= container.out
      BY DEF FlowInv
    <2>2. Fits => container.out + 1 <= StdoutCap
      BY DEF Fits
    <2> QED BY <1>1, <2>1, <2>2
  <1>3. container.read = RequestSize /\ container.first = None
    BY <1>2 DEF FlowInv
  <1>4. CASE parent.pc = "write"
    <2>1. container.read + pipe.stdin + parent.unsent = RequestSize
      BY DEF RunInv, RequestKept
    <2>2. parent.unsent = 0
      BY <1>1, <1>3, <2>1
    <2> QED BY <1>4, <2>2 DEF ParentCanGo
  <1>5. CASE parent.pc = "read"
    <2>1. pipe.stdout # <<>>
      BY <1>1
    <2> QED BY <1>5, <2>1 DEF ParentCanGo
  <1>6. parent.pc # "wait"
    BY <1>2, <1>3 DEF BehavedInv, FlowInv, LineInSight
  <1> QED BY <1>4, <1>5, <1>6

\* One that waits for more of its request waits for a parent that writes.
LEMMA StdinIsWritten ==
  ASSUME RunInv, FlowInv, Running, container.op = "in"
  PROVE  ParentCanGo \/ ContainerCanGo
  <1>1. CASE pipe.stdin > 0 \/ ~pipe.stdin_open
    BY <1>1 DEF ContainerCanGo
  <1>2. CASE ~(pipe.stdin > 0) /\ pipe.stdin_open
    <2>1. parent.pc = "write"
      BY <1>2 DEF FlowInv
    <2>2. pipe.stdin < StdinCap
      <3>1. pipe.stdin \in Nat /\ StdinCap \in Nat \ {0}
        BY Types, Numbers DEF Pipes
      <3> QED BY <1>2, <3>1
    <2> QED BY <2>1, <2>2 DEF ParentCanGo
  <1> QED BY <1>1, <1>2

\* Between two operations a behaved container that has read all still has its line to
\* write, or has written it and ends.
LEMMA IdleGoes ==
  ASSUME RunInv, FlowInv, Running, container.op = "none"
  PROVE  ContainerCanGo
  <1>1. CASE ~container.behaved \/ container.first # None
    BY <1>1 DEF ContainerCanGo
  <1>2. CASE container.behaved /\ container.first = None
    <2>1. container.out \in {0, 1}
      BY <1>2 DEF FlowInv
    <2>2. container.out < MaxOut
      BY <2>1, PodmanRunnerAssumption
    <2> QED BY <2>2 DEF ContainerCanGo
  <1> QED BY <1>1, <1>2

\* invoke_stdio never leaves parent and container waiting on each other, as long as the
\* container behaves or its output fits the pipes: the safety half of LocalRunReturns.
THEOREM NobodyIsStuck == Spec => []NobodyStuck
  <1>1. RunInv /\ BehavedInv /\ FlowInv => NobodyStuck
    <2> SUFFICES ASSUME RunInv, BehavedInv, FlowInv,
                        parent.pc # "done", container.behaved \/ Fits
                 PROVE  ParentCanGo \/ ContainerCanGo
      BY DEF NobodyStuck
    <2>1. CASE parent.pc \in {"exists", "spawn"}
      BY <2>1 DEF ParentCanGo
    <2>2. CASE parent.pc \in {"write", "read", "wait"} /\ ~Running
      BY <2>2 DEF ParentCanGo, FlowInv
    <2>3. CASE parent.pc \in {"write", "read", "wait"} /\ Running
      <3>1. CASE container.op = "none"
        BY <2>3, <3>1, IdleGoes
      <3>2. CASE container.op = "in"
        BY <2>3, <3>2, StdinIsWritten
      <3>3. CASE container.op = "out"
        <4>1. CASE Len(pipe.stdout) < StdoutCap
          BY <2>3, <3>3, <4>1 DEF ContainerCanGo
        <4>2. CASE ~(Len(pipe.stdout) < StdoutCap)
          <5>1. Len(pipe.stdout) \in Nat /\ StdoutCap \in Nat
            BY Types, Numbers DEF Pipes
          <5> QED BY <2>3, <3>3, <4>2, <5>1, StdoutIsRead
        <4> QED BY <4>1, <4>2
      <3>4. CASE container.op = "err"
        BY <2>3, <3>4, StderrHasRoom DEF ContainerCanGo
      <3> QED BY <3>1, <3>2, <3>3, <3>4, Types DEF Containers, Op
    <2> QED BY <2>1, <2>2, <2>3, Types DEF Parents, ParentPC
  <1> QED BY <1>1, RunInvariant, BehavedInvariant, FlowInvariant, PTL

=============================================================================
