------------------------------ MODULE Lifecycle ------------------------------
(***************************************************************************)
(* The life of `oxidized-mcp start` (crates/oxidized-mcp/src/main.rs): the  *)
(* first refresh, the background loops, the stdio server, and the way out  *)
(* past the health server of health.rs, whose graceful shutdown waits for  *)
(* a tokio Notify. The stdio server itself is StreamRelay, and what a      *)
(* refresh does is SkillMesh.                                              *)
(***************************************************************************)
EXTENDS Naturals

CONSTANTS
    Loop,     \* the background loops: Azure token refresh, registry refresh
    Probe,    \* connections to the health server
    Configs   \* command lines and environments to start with

\* loops: those that are configured. quits: those of them with nothing to do
\* (a static Azure token). health: --health-port is given.
Config == [loops : SUBSET Loop, quits : SUBSET Loop, health : BOOLEAN]

ASSUME LifecycleAssumption == Configs \subseteq Config

VARIABLES
    config,
    main,       \* where the main task is
    refreshed,  \* the mesh has a snapshot
    ready,      \* HealthState.ready
    loop,       \* the background tasks
    server,     \* the task that runs health::serve
    signal,     \* the task axum spawns to wait for HealthState.shutdown
    probe       \* connections and their answers

vars == <<config, main, refreshed, ready, loop, server, signal, probe>>

MainPC == {"refresh", "spawn", "mark_ready", "stdio", "stop_loops", "shutdown",
           "join", "exited"}
LoopPC == {"none", "sleeping", "working", "aborted", "gone"}
ServerPC == {"none", "spawned", "serving", "draining", "ended", "crashed"}
SignalPC == {"none", "spawned", "waiting", "woken"}
ProbePC == {"none", "accepted", "ready", "not_ready"}

Init ==
    /\ config \in Configs
    /\ main = "refresh"
    /\ refreshed = FALSE
    /\ ready = FALSE
    /\ loop = [l \in Loop |-> "none"]
    /\ server = "none"
    /\ signal = "none"
    /\ probe = [p \in Probe |-> "none"]

-----------------------------------------------------------------------------
(* The main task *)

FirstRefreshOk ==
    /\ main = "refresh"
    /\ refreshed' = TRUE
    /\ main' = "spawn"
    /\ UNCHANGED <<config, ready, loop, server, signal, probe>>

\* start returns the error: nothing was spawned yet.
FirstRefreshFails ==
    /\ main = "refresh"
    /\ main' = "exited"
    /\ UNCHANGED <<config, refreshed, ready, loop, server, signal, probe>>

\* Bug: the health server comes up, ready, while the first refresh runs.
EagerSpawn ==
    /\ main \in {"refresh", "spawn"} /\ server = "none"
    /\ loop' = [l \in Loop |-> IF l \in config.loops THEN "sleeping" ELSE "none"]
    /\ server' = IF config.health THEN "spawned" ELSE "none"
    /\ ready' = TRUE
    /\ main' = IF main = "spawn" THEN "mark_ready" ELSE main
    /\ UNCHANGED <<config, refreshed, signal, probe>>

\* No step of the spawned tasks lies between the spawns that another sees.
Spawn ==
    /\ main = "spawn"
    /\ loop' = [l \in Loop |-> IF l \in config.loops THEN "sleeping" ELSE "none"]
    /\ server' = IF config.health THEN "spawned" ELSE "none"
    /\ main' = "mark_ready"
    /\ UNCHANGED <<config, refreshed, ready, signal, probe>>

mark_ready ==
    /\ main = "mark_ready"
    /\ ready' = TRUE
    /\ main' = "stdio"
    /\ UNCHANGED <<config, refreshed, loop, server, signal, probe>>

\* Bug: `?` on the result, before the shutdown.
HastyStdioEnds ==
    /\ main = "stdio"
    /\ main' \in {"exited", "stop_loops"}
    /\ UNCHANGED <<config, refreshed, ready, loop, server, signal, probe>>

\* End of stdin, or an error of stdin or of the answer to an unparsable line.
StdioEnds ==
    /\ main = "stdio"
    /\ main' = "stop_loops"
    /\ UNCHANGED <<config, refreshed, ready, loop, server, signal, probe>>

StopLoops ==
    /\ main = "stop_loops"
    /\ loop' = [l \in Loop |-> IF loop[l] \in {"sleeping", "working"}
                               THEN "aborted" ELSE loop[l]]
    /\ main' = "shutdown"
    /\ UNCHANGED <<config, refreshed, ready, server, signal, probe>>

\* Bug: the health server is joined without being told to stop.
MuteShutdown ==
    /\ main = "shutdown"
    /\ main' = "join"
    /\ UNCHANGED <<config, refreshed, ready, loop, server, signal, probe>>

\* notify_waiters: a signal task that is not waiting yet misses it for good.
shutdown ==
    /\ main = "shutdown"
    /\ signal' = IF signal = "waiting" THEN "woken" ELSE signal
    /\ main' = "join"
    /\ UNCHANGED <<config, refreshed, ready, loop, server, probe>>

\* The runtime goes with main, and every task that is left with it.
Exit ==
    /\ main = "join"
    /\ server \in {"none", "ended", "crashed"}
    /\ main' = "exited"
    /\ loop' = [l \in Loop |-> IF loop[l] = "none" THEN "none" ELSE "gone"]
    /\ UNCHANGED <<config, refreshed, ready, server, signal, probe>>

MainStep ==
    \/ FirstRefreshOk
    \/ FirstRefreshFails
    \/ Spawn
    \/ mark_ready
    \/ StopLoops
    \/ shutdown
    \/ Exit

-----------------------------------------------------------------------------
(* The background loops *)

\* The first tick fires at once and is skipped; a static token needs no loop.
LoopTick(l) ==
    /\ main # "exited" /\ loop[l] = "sleeping"
    /\ loop' = [loop EXCEPT ![l] = IF l \in config.quits THEN "gone" ELSE "working"]
    /\ UNCHANGED <<config, main, refreshed, ready, server, signal, probe>>

\* Success and failure are logged alike.
LoopDone(l) ==
    /\ main # "exited" /\ loop[l] = "working"
    /\ loop' = [loop EXCEPT ![l] = "sleeping"]
    /\ UNCHANGED <<config, main, refreshed, ready, server, signal, probe>>

\* An aborted task is dropped where it awaits.
LoopDropped(l) ==
    /\ main # "exited" /\ loop[l] = "aborted"
    /\ loop' = [loop EXCEPT ![l] = "gone"]
    /\ UNCHANGED <<config, main, refreshed, ready, server, signal, probe>>

-----------------------------------------------------------------------------
(* The health server *)

\* The listener is bound, and axum spawns the task that waits for shutdown.
Bind ==
    /\ main # "exited" /\ server = "spawned"
    /\ server' = "serving"
    /\ signal' = "spawned"
    /\ UNCHANGED <<config, main, refreshed, ready, loop, probe>>

\* The port is taken: the error is logged and the task ends.
BindFails ==
    /\ main # "exited" /\ server = "spawned"
    /\ server' = "crashed"
    /\ UNCHANGED <<config, main, refreshed, ready, loop, signal, probe>>

\* The first poll of notified() makes the task a waiter.
SignalWaits ==
    /\ main # "exited" /\ signal = "spawned"
    /\ signal' = "waiting"
    /\ UNCHANGED <<config, main, refreshed, ready, loop, server, probe>>

StopAccepting ==
    /\ main # "exited" /\ server = "serving" /\ signal = "woken"
    /\ server' = "draining"
    /\ UNCHANGED <<config, main, refreshed, ready, loop, signal, probe>>

Drained ==
    /\ main # "exited" /\ server = "draining"
    /\ \A p \in Probe : probe[p] # "accepted"
    /\ server' = "ended"
    /\ UNCHANGED <<config, main, refreshed, ready, loop, signal, probe>>

Accept(p) ==
    /\ main # "exited" /\ server = "serving" /\ probe[p] # "accepted"
    /\ probe' = [probe EXCEPT ![p] = "accepted"]
    /\ UNCHANGED <<config, main, refreshed, ready, loop, server, signal>>

\* /healthz always says 200; this is the answer of /readyz.
Answer(p) ==
    /\ main # "exited" /\ probe[p] = "accepted"
    /\ probe' = [probe EXCEPT ![p] = IF ready THEN "ready" ELSE "not_ready"]
    /\ UNCHANGED <<config, main, refreshed, ready, loop, server, signal>>

ServerStep ==
    \/ Bind
    \/ BindFails
    \/ SignalWaits
    \/ StopAccepting
    \/ Drained

Next ==
    \/ MainStep
    \/ StdioEnds
    \/ \E l \in Loop : LoopTick(l) \/ LoopDone(l) \/ LoopDropped(l)
    \/ ServerStep
    \/ \E p \in Probe : Accept(p) \/ Answer(p)

Spec == Init /\ [][Next]_vars

\* The runtime runs every task that is ready, and a handler of the health
\* server never waits. A probe is assumed to send the whole of its request: the
\* graceful shutdown waits for one that stalls. Nothing makes the IDE close
\* stdin.
Fairness ==
    /\ WF_vars(MainStep) /\ WF_vars(ServerStep)
    /\ \A p \in Probe : WF_vars(Answer(p))

LiveSpec == Spec /\ Fairness

-----------------------------------------------------------------------------
(* Properties *)

\* Every variable keeps its shape, and nothing runs that is not configured: an
\* interval of 0 spawns no loop (tokio's interval would panic on it).
TypeOK ==
    /\ config \in Configs
    /\ main \in MainPC
    /\ refreshed \in BOOLEAN /\ ready \in BOOLEAN
    /\ loop \in [Loop -> LoopPC]
    /\ server \in ServerPC /\ signal \in SignalPC
    /\ probe \in [Probe -> ProbePC]
    /\ \A l \in Loop \ config.loops : loop[l] = "none"
    /\ ~config.health => server = "none"
    /\ signal = "none" <=> server \in {"none", "spawned", "crashed"}

\* No probe reads 200 from /readyz before the mesh has a snapshot to serve
\* (the module doc of health.rs), however the server's start interleaves with
\* main.
ReadyMeansRefreshed == \A p \in Probe : probe[p] = "ready" => refreshed

\* The process never leaves a probe it accepted without an answer: main waits
\* for the graceful shutdown on every way out of the stdio server.
DrainedExit ==
    main = "exited" => \A p \in Probe : probe[p] # "accepted"

\* A shutdown that finds the server waiting for it lets the process exit,
\* whatever probes are open and whatever the loops are doing.
ServedShutdownCompletes ==
    main = "shutdown" /\ signal = "waiting" ~> main = "exited"

\* The health server stops only once main has told it to, and no background loop is
\* left, after the loops are stopped, to refresh a mesh on its way out.
ServesUntilTold ==
    /\ signal = "woken" => main \in {"join", "exited"}
    /\ server \in {"draining", "ended"} => signal = "woken"
    /\ \A l \in Loop : loop[l] \in {"sleeping", "working"} =>
                          main \in {"mark_ready", "stdio", "stop_loops"}

\* Open connections have a server, which main does not leave behind; and the
\* server starts, and is ready, only once the first refresh is over: what
\* makes the two properties above inductive.
LifecycleInv ==
    /\ TypeOK
    /\ \A p \in Probe : probe[p] = "accepted" => server \in {"serving", "draining"}
    /\ main = "exited" => server \in {"none", "ended", "crashed"}
    /\ main \in {"refresh", "spawn"} => server = "none"
    /\ main \in {"spawn", "mark_ready"} => refreshed
    /\ ready => refreshed
    /\ ReadyMeansRefreshed /\ ServesUntilTold

-----------------------------------------------------------------------------
(* What docs and comments say and the code does not do *)

\* "Either way, stop the background refresh + health server so the process can
\* exit" (the comment after run_stdio_server): a shutdown before the server
\* waits for it is lost, and main waits for a server that never stops.
ShutdownCompletes == main = "shutdown" ~> main = "exited"
=============================================================================
