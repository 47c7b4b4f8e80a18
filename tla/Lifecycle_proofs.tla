--------------------------- MODULE Lifecycle_proofs ---------------------------
(***************************************************************************)
(* Proofs about Lifecycle for every set of command lines, loops and probes. *)
(***************************************************************************)
EXTENDS Lifecycle, TLAPS

\* Nothing runs at first.
LEMMA InitLifecycle == Init => LifecycleInv
BY LifecycleAssumption
   DEF Init, LifecycleInv, TypeOK, ReadyMeansRefreshed, ServesUntilTold, Config, MainPC, LoopPC,
       ServerPC, SignalPC, ProbePC

\* The main task never leaves a server behind, nor starts one early.
LEMMA MainKeeps == LifecycleInv /\ (MainStep \/ StdioEnds) => LifecycleInv'
<1> SUFFICES ASSUME LifecycleInv, MainStep \/ StdioEnds PROVE LifecycleInv'
  OBVIOUS
<1> USE LifecycleAssumption
        DEF LifecycleInv, TypeOK, ReadyMeansRefreshed, ServesUntilTold, MainPC, Config
<1>1. CASE FirstRefreshOk
  BY <1>1 DEF FirstRefreshOk
<1>2. CASE FirstRefreshFails
  BY <1>2 DEF FirstRefreshFails
<1>3. CASE Spawn
  BY <1>3 DEF Spawn, LoopPC, ServerPC, SignalPC
<1>4. CASE mark_ready
  BY <1>4 DEF mark_ready
<1>5. CASE StdioEnds
  BY <1>5 DEF StdioEnds
<1>6. CASE StopLoops
  BY <1>6 DEF StopLoops, LoopPC
<1>7. CASE shutdown
  BY <1>7 DEF shutdown, SignalPC
<1>8. CASE Exit
  BY <1>8 DEF Exit, LoopPC
<1> QED BY <1>1, <1>2, <1>3, <1>4, <1>5, <1>6, <1>7, <1>8 DEF MainStep

\* The loops touch nothing but their own state.
LEMMA LoopsKeep ==
    ASSUME LifecycleInv, NEW l \in Loop, LoopTick(l) \/ LoopDone(l) \/ LoopDropped(l)
    PROVE  LifecycleInv'
BY DEF LifecycleInv, TypeOK, ReadyMeansRefreshed, ServesUntilTold,
       LoopPC, LoopTick, LoopDone, LoopDropped

\* The server stops only when its connections are answered.
LEMMA ServerKeeps == LifecycleInv /\ ServerStep => LifecycleInv'
<1> SUFFICES ASSUME LifecycleInv, ServerStep PROVE LifecycleInv'
  OBVIOUS
<1> USE DEF LifecycleInv, TypeOK, ReadyMeansRefreshed, ServesUntilTold, ServerPC, SignalPC
<1>1. CASE Bind
  BY <1>1 DEF Bind
<1>2. CASE BindFails
  BY <1>2 DEF BindFails
<1>3. CASE SignalWaits
  BY <1>3 DEF SignalWaits
<1>4. CASE StopAccepting
  BY <1>4 DEF StopAccepting
<1>5. CASE Drained
  BY <1>5 DEF Drained
<1> QED BY <1>1, <1>2, <1>3, <1>4, <1>5 DEF ServerStep

\* A connection is accepted and answered by a server that runs.
LEMMA ProbesKeep ==
    ASSUME LifecycleInv, NEW p \in Probe, Accept(p) \/ Answer(p)
    PROVE  LifecycleInv'
<1> USE DEF LifecycleInv, TypeOK, ReadyMeansRefreshed, ServesUntilTold, ProbePC
<1>1. CASE Accept(p)
  BY <1>1 DEF Accept
<1>2. CASE Answer(p)
  BY <1>2 DEF Answer
<1> QED BY <1>1, <1>2

\* The invariant holds through every interleaving of main, the loops, the
\* server's tasks and its connections.
THEOREM LifecycleInvariant == Spec => []LifecycleInv
<1>1. LifecycleInv /\ [Next]_vars => LifecycleInv'
  <2> SUFFICES ASSUME LifecycleInv, [Next]_vars PROVE LifecycleInv'
    OBVIOUS
  <2>1. CASE UNCHANGED vars
    BY <2>1 DEF vars, LifecycleInv, TypeOK, ReadyMeansRefreshed, ServesUntilTold
  <2> QED BY <2>1, MainKeeps, LoopsKeep, ServerKeeps, ProbesKeep DEF Next
<1> QED BY <1>1, InitLifecycle, PTL DEF Spec

\* Every variable keeps its type; a loop or a server that was not asked for is never
\* started, and the signal task lives with the server.
THEOREM TypeCorrect == Spec => []TypeOK
<1>1. LifecycleInv => TypeOK
  BY DEF LifecycleInv
<1> QED BY <1>1, LifecycleInvariant, PTL

\* Nobody is told the proxy is ready before there is a snapshot to serve.
THEOREM ReadyAfterRefresh == Spec => []ReadyMeansRefreshed
<1>1. LifecycleInv => ReadyMeansRefreshed
  BY DEF LifecycleInv
<1> QED BY <1>1, LifecycleInvariant, PTL

\* The process exits without an accepted probe unanswered.
THEOREM ExitIsDrained == Spec => []DrainedExit
<1>1. LifecycleInv => DrainedExit
  BY DEF LifecycleInv, DrainedExit
<1> QED BY <1>1, LifecycleInvariant, PTL

\* The health server answers its connections until main has told it to stop, and by
\* then no background loop goes on (start_cmd's order: abort, shutdown, join).
THEOREM ServerStopsLast == Spec => []ServesUntilTold
<1>1. LifecycleInv => ServesUntilTold
  BY DEF LifecycleInv
<1> QED BY <1>1, LifecycleInvariant, PTL
=============================================================================
