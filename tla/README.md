# TLA+ models and proofs for oxidizedMCP

oxidizedMCP is a proxy between an IDE, which speaks MCP JSON-RPC over stdio,
and a set of *skills*, which are HTTP endpoints with an optional Podman image
each. It reads a registry of skills, aggregates their tools under the names
`skill::tool`, and routes calls to them. The code is some 2,300 lines of Rust on
a multi-threaded tokio runtime, in two crates: `crates/oxidized-mcp-core` (the
mesh) and `crates/oxidized-mcp` (the process around it).

This directory holds models of the parts whose correctness depends on the order
of things, the TLC runs that check them on small instances, and TLAPS proofs of
the safety properties that matter most for every instance. Line numbers below
and in `PROJECT.json` are those of `src/`.

## The system

| Part | State | Operations | Talks to |
|---|---|---|---|
| Skill mesh, refresh side (`router.rs`) | `snapshot` (ArcSwap of manifest, tools, health, time), `refresh_lock`, the circuit counters | `refresh`, `list_tools_cached`, `build_snapshot`, `health`, `manifest` | registry, skills |
| Skill mesh, call side (`router.rs`) | reads `snapshot`, reads and writes `circuit` | `call_tool`, `try_local`, `open_streaming_call`, `is_skill_streaming` | skills, Podman, tokens |
| SSE pump and parser (`proxy.rs`) | one task, channel of 64 and `Notify` per stream; a byte buffer | `open_streaming_call`, `pump_sse`, `SseStream::{recv, cancel, drop}`, `SseParser` | skill, relay |
| Stdio server (`stdio.rs`) | `in_flight` (request id to cancel handle), stdout | the stdin loop, `dispatch`, `stream_tool_call`, `handle_request`, cancellation | IDE, mesh, pumps |
| `start` (`main.rs`) | task handles | first refresh, background loops, `mark_ready`, shutdown | everything |
| Health server (`health.rs`) | `ready`, `shutdown` (`Notify`) | `serve`, `/healthz`, `/readyz` | probes, main |
| `discover`, `list-tools`, `health` (`main.rs`) | none | resolve, refresh, report, exit code | CI gates, scripts |
| Tokens (`auth.rs`) | gcloud token and its age under a mutex; the Azure credential | `bearer_token`, the endpoint match, a refresh loop | gcloud, Azure SDK |
| Podman runner (`local_runner.rs`) | none | `image_exists`, `invoke_stdio` | podman |
| Registry (`registry.rs`) | none | `load`, `resolve`, `active_skills` | file, HTTP |
| Types, names (`mcp_types.rs`, the end of `router.rs`) | none | serialisation, `parse_namespaced_tool` | |

How they interact: `start` makes one mesh, refreshes it once, spawns the loops
and the health server, marks itself ready and runs the stdio loop. The loop
spawns a task per request. These tasks and the background loop share the
mesh: the snapshot by atomic load and store, the counters behind a mutex held
only for an access, and a tokio mutex around a whole refresh. A streaming call
ties three tasks together (the stdin loop that cancels, the dispatch task that
relays, the pump that reads the upstream) with a channel, a `Notify` and the
`in_flight` map.

What is hard:

* three ways to start a refresh, two ways to take its lock, and results that
  are used many awaits after they were read (`prior`, the staleness, the entry
  of a call, the breaker);
* an HTTP attempt, a fallback, and attempts that may have run the tool although
  they failed;
* two independent reads of the streaming flag by one request;
* `notify_waiters`, which reaches only who is waiting at that moment, used
  three times: to cancel a stream, to drop one, and to stop the health server;
* a bounded channel whose empty close has a meaning of its own;
* request ids that name cancel handles and are used again;
* a token mutex held across a subprocess, and a token that ages while callers wait;
* two processes over three pipes that can fill, one of which nobody reads;
* frames that arrive cut anywhere;
* a shutdown that joins a task it may have failed to reach.

What makes each part correct:

* refresh: one at a time, all or nothing, coherent, counts carried forward, no
  refresh that is not needed, and `tools/list` never waits for somebody else's;
* calls: decided on one snapshot, bounded in what they execute, and a breaker
  that does not stay open for good;
* streams: nothing lost or overtaken, an answer to every call once its stream is open, a handle
  under an id exactly while its stream is relayed, "cancelled" only when it was,
  no pump left over;
* process: ready only after a snapshot, no accepted probe dropped, and an exit;
* tokens: no request without the header it is due, none with a token that is
  over, no fetch that another has just made, and no caller left in the queue;
* local runs: the answer of a container that has ended, whatever the order of the
  reads and writes, parent and container never waiting on each other, and no container
  left behind;
* SSE frames: the events of the stream, whatever the cuts, and nothing kept of
  what was answered;
* commands: no exit code 0 over a registry that was not read or a skill that is
  down, no red one over a mesh that is healthy;
* names: a listed tool can be called.

`PROJECT.json` lists the components with their status, and under `hazards` each
place in the code where one of these could go wrong.

## Modules

**SkillMesh** models both sides of the mesh. `snapshot` is the `MeshSnapshot`;
each skill has one entry in `manifest`, `aggregated_tools` and `health`, and
`Absent` stands for a missing or disabled one. `refreshed` and `age` stand for
`refreshed_at`. `rpc[p]` and `build[p]` are the program counter and the locals
of a task that refreshes: a `Refresher` calls `refresh()` (the first refresh and
the background loop), a `Lister` calls `list_tools_cached()`. `call[c]` holds the
locals of a dispatch task with a `tools/call`. A step ends at each await and at
each access to shared state, since other threads can run in between:
`RefreshLock`, `LoadRegistry` (which also captures `prior`), one `ProbeOk` or
`ProbeFails` per skill, `Publish`, `Unlock`; `ListStart`, `ListTryLock`,
`ListRecheck`; `Dispatch`, `OpenStream`, `OpenPost`; `Resolve`, `Decide`,
`LocalFirst`, `PostOk`, `PostFails`, `LocalAfter`. The order in which the skills
of a manifest are probed is left open. `sent` counts the attempts that may have
run the tool (an attempt that fails is counted or not, at choice), and `down_seen` says that a snapshot current at the dispatch of a call or
published before its decision had its skill Down and without an image; no action
decides anything on these two.

**RefreshCycle** is the abstract specification of the refresh side: a view and a
phase, `Begin`, `Replace` by a coherent view that carries the counts, `Keep`,
`End`. SkillMesh implements it with `view <- snapshot` and the phase read off the
lock and its holder's place.

**StreamRelay** models the streaming path. A `Task` is one request with its
dispatch task, stream and pump. `in_flight` is the map; `reader` is the handle the
stdin loop has cloned and not fired yet. A frame is what `decode_sse_payload`
makes of one event (notification, final response, or error) and its number in
the stream. A chunk is a sequence of frames: how bytes make frames is SseParser's.
`pump[t].woken` says that `notified()` was reached while the pump was parked in
its `select!`; nothing else remembers a notification.

**ToolStream** is the abstract specification of one streaming call for the IDE:
`Begin`, any number of `Notify` and `Ask` (somebody cancels), one `Answer`,
`Close`. A final answer has the place after all notifications seen, and
"cancelled" needs an `Ask`. StreamRelay implements it with `view <- ide_view`,
which forgets channel, pump and registry.

**SseParser** models `SseParser` and the pump's loop over it, over an alphabet that keeps
what the parser tells apart (`"d"` stands for the letters of `data`). One step is one turn
of a loop: `feed` takes a byte, and `ChunkEnds` may come after any; `NextNone`, `SkipFrame`
and `TakeFrame` are what `next_event` does with the first blank line of the buffer;
`SplitLine` reads a line of the frame; `ReturnEvent`, `Sent` and `End` give the event to
the channel and stop the pump. `text` is a history of what has arrived (without carriage
returns), which only properties read.

**EventStream** is the abstract specification of the format: bytes `Arrive`, a data
`Field` adds to the event, a blank line `Dispatch`es it, an event that is not UTF-8 is
passed over whole (`Skip`). It reads line by line and knows no frames and no buffer but a
place in the text. SseParser implements it with `pos <- Base + scan` (what was cut off and
what of the frame is split), `sent <- events` and `event <- data_lines`.

**Lifecycle** models `start` around these: the main task, the background loops,
the health server with the signal task axum spawns for it, and probes. A loop's
work is one step here, since what it does is SkillMesh's.

**OutboundAuth** models what a request does for its `Authorization` header. A
`req[c]` is a request to a skill (`resolve_auth_header`: gcloud if it is the mode,
then Azure) or to the registry (`load_url`: Azure only). `lock` and `queue` are the
tokio mutex, which is first come first served; `cache` is `GcloudTokenState`. A
token is named by the time of its issue, which `GcloudIssues` puts somewhere
between the start of gcloud and its end. Azure's credential is a `Config` of four
flags and an outcome.

**PodmanRunner** models `try_local` over `invoke_stdio` and the container it
spawns. `pipe` has what is in stdin, stdout and stderr, in pieces; a line of
stdout is one piece or two. The container reads, writes and exits in any order; a
`behaved` one does as the doc of `invoke_stdio` expects.

**Commands** models `discover`, `list-tools` and `health` from the resolution of the
registry to the exit code, with entries that may share a name, and a pipe that may
break. `health` has what `build_snapshot` makes of the entries, and
`resolve_skill_entry_in` is where a call of a listed name would go.

**ToolName** has `namespaced_tool` and `parse_namespaced_tool` over sequences of
characters, of which only the colon matters; Commands extends it.

**SkillMesh_proofs**, **StreamRelay_proofs**, **SseParser_proofs**, **Lifecycle_proofs**,
**OutboundAuth_proofs**, **PodmanRunner_proofs**, **ToolName_proofs** and
**Commands_proofs** hold the theorems. The `MC` modules give the constants values for
TLC. **MCRelayAndParser** extends the parser and instantiates the relay, to check both in
one run: first a stream of bytes goes through the parser, then the relay begins. The two
share no variable.

A few operators are marked `Bug:` in their comment. They are variants of the
operator after them as a plausible mistake would have it, none is part of a
specification, and `PROJECT.json` names under `mutants` which property finds
which.

## Runs

Passing runs:

| Run | Specification | Bounds | Checks |
|---|---|---|---|
| `mesh_refresh` | `Spec` | 2 skills that come and go, 2 tools, 1 refresher, 2 listers, TTL 1 | `IInv`, `RefreshMutex`, `PriorIsCurrent`, `SnapshotConsistent`, `NoRedundantLazyRefresh`, `CountCarriedForward`, `RefreshesInCycles` |
| `mesh_calls` | `Spec` | 1 skill in all its shapes, 2 callers, 1 refresher, threshold 1, 2 failures | `TypeOK`, `CallInv`, `FastFailJustified`, `ExecutionBound` |
| `mesh_live` | `Spec`, each property under its fairness | 1 skill with an image, 1 refresher, 1 lister, 1 caller, threshold 2 | `BreakerRecovers`, `ListReturns` |
| `relay_safety` | `Spec` | 2 streams, 2 ids, channel of 1, 2 frames a stream, 2 a chunk | `InFlightExact`, `CancelledOnlyIfAsked`, `IInv`, `RelaysToolStream` |
| `relay_live` | `BothSpec` | 1 stream, channel of 1, 3 frames; for the parser, streams of up to 4 of 7 lines, with LF or CRLF, ended or not, cut anywhere into any number of chunks | `ParserInv`, `BufferIsUnfinished`, `FindsEvents`, `Answered`, `PumpEnds` |
| `life` | `LiveSpec` | every configuration of two loops and the health port, 2 probes | `LifecycleInv`, `ReadyMeansRefreshed`, `DrainedExit`, `ServedShutdownCompletes` |
| `commands` | `Spec` | 4 commands, 3 sources given and readable or not, registries of up to 2 entries of 4 names, tool names of up to 3 characters; the names hold colons anywhere | `NoFalseGreen`, `NoFalseRed`, `NamesRouteBack` |
| `auth` | `LiveSpec` | 2 callers, TTL 2, validity 3, a token printed within 1, clock to 7, every configuration | `AuthInv`, `NoAnonymousSend`, `SpacedFetches`, `TokensUsable`, `Served` |
| `podman` | `LiveSpec` | a request of 3 pieces, stdin and stdout of 2, stderr of 1, up to 5 pieces out and 3 to stderr | `RunInv`, `AnswerIsFirstLine`, `BehavedIsAnswered`, `NobodyStuck`, `LocalRunReturns`, `ContainerEnds` |

The bounds are small and why they are enough: refreshes exclude each other, so
a third task adds only another order of waiting; skills do not interact in
the mesh but through the manifest, so one or two show every relation. A
threshold of 1 or 2 makes the breaker open within two calls, and the counter has
one value above it. A channel of 1 is full after every send, which the 64 of the
code would need 64 frames for; two frames in a chunk let the pump be in the
middle of one, and three frames let the last overtake one that was dropped. Two
callers are one that fetches and one that waits behind it; the clock lets a token
grow old twice. The request and the output are longer than their pipes, so every
way to block is there. Four lines are two frames with a blank line each, or one of
three lines; the parser keeps nothing of a frame when it begins the next, so more lines
repeat these. Where there are proofs they remove the bounds of the safety properties
altogether.

Runs that find what a doc or a comment says violated, each recorded under
`findings`:

| Run | Property | What it shows |
|---|---|---|
| `relay_cancel` | `CancelStopsPump` | a cancellation that finds the pump busy is lost |
| `life_shutdown` | `ShutdownCompletes` | a shutdown before the server waits for it is lost and the process hangs |
| `health_pipe` | `PipeKeepsExitCode` | a broken pipe turns exit code 2 into 0 |

Other places where the code does less than a doc can be read to say have a note
under `hazards` and no run:

* a failed token counts as an HTTP failure and is answered by the fallback, while
  the doc of `resolve_auth_header` (`router.rs:566`) has it surface as a `MeshError`
  (`router.rs:337`);
* a frame that does not decode does not end the pump, as the doc of
  `open_streaming_call` says (`proxy.rs:98`, the loop at `proxy.rs:158`);
* `data:` without a value is an event with an empty payload (`proxy.rs:260`), while
  the doc says that the caller never sees empty strings (`proxy.rs:219`);
* a skill absent for one refresh loses its last good count (`router.rs:483`);
* an open breaker does not skip HTTP without an image or after a failed local run
  (`router.rs:280`);
* the streaming flag is read twice (`stdio.rs:108`);
* a health port that cannot be bound leaves a process without its endpoints
  (`main.rs:171`);
* `discover`, `list-tools` and `health` build their mesh with `SkillMesh::new`, which
  sends no gcloud token, also where `start` does (`main.rs:204`);
* of entries that share a name the health report shows the last (`router.rs:488`),
  and `NoFalseGreen` holds only where names differ;
* a skill whose name ends in a colon, or holds two in a row, lists tools that
  cannot be called (`router.rs:676`): `Clean` in `NamesRouteBack` says which can.

### Bounds that are part of the models

`MaxFailures` caps the failure counter (a u32 in the code): a failure beyond it
is not taken. `age` stops at TTL + 1, after which nothing tells ages apart.
`MaxFrames` and `MaxChunk` cap what an upstream sends. The IDE of StreamRelay
uses an id again only after its answer, and a `Task` is used again only when its
pump is gone. `MaxTime` caps the clock of OutboundAuth, and `Delay` the time between
the issue of a gcloud token and its storage: `TTL + Delay <= Validity` is what the
code's 55 of 60 minutes buy. It is an assumption on gcloud, which could print an
older token from a cache of its own. Its one clock is the code's `Instant` and the
clock of the token at once; in a suspend of the system the former stands still and the
latter does not, which is not modelled. `MaxOut` and `MaxErr` cap what a container
writes; `MaxTools`, `Registries` and `MaxLines` (of MCRelayAndParser) the inputs of
Commands and SseParser.

### Fairness

* `ListerFairness` (a premise of `ListReturns`): a `tools/list` that has started goes on, its own
  requests end, for the HTTP client has a timeout of 60 s, and so do the token requests
  before them. The last is at once so with a bearer or no token; with gcloud as the mode it
  is an assumption, for a probe then queues for the token mutex (`auth.rs:91`), which
  another task may hold over a gcloud that has no timeout. `Served` says that it is enough
  that each gcloud ends. Nothing is assumed of the refreshes of other tasks: one may hang
  with the refresh lock.
* `RefresherFairness` (with it, a premise of `BreakerRecovers`): the background loop lives as
  long as the process, its mutex is FIFO (strong fairness of `RefreshLock`), and
  the registry and each skill answer again if asked again and again. The last is
  the recovery the property is about, not a promise of the code. That its probes end
  needs their tokens as above.
* `TaskFairness`: the runtime polls every pump and every task past the opening of its
  stream. A write to stdout is assumed to end, as the IDE reads or has closed it.
* `CallFairness` (a premise of the second part of `Answered`): a request without a stream, or
  the opening of one, ends. The client's 60 s end its HTTP; for a gcloud before a POST
  (`auth.rs:119-122`) and a podman run (`local_runner.rs:97-132`) the code has no timeout,
  and a request that waits for one that hangs is never answered. The first part of
  `Answered`, of streams that are open, and `PumpEnds` do without it.
* `TimeoutFairness`: the client's 60 s end a response that goes quiet. It is
  strong, for a pump may leave and enter its `select!` in between.
* `Fairness` of OutboundAuth: the runtime polls whoever gets the mutex, and each gcloud
  ends. The latter is an assumption, for the code gives it no timeout: with a gcloud
  that hangs everybody waits.
* `Fairness` of PodmanRunner: the runtime polls the parent, and the container goes on
  until a pipe stops it and does not run for ever. Nothing makes it read its stdin or
  stop writing; `LocalRunReturns` says for which containers that is enough.
* `Fairness` of Lifecycle: the runtime polls its tasks and a health handler
  never waits. A probe that was accepted is assumed to send the whole of its request:
  one that stalls in the middle would hold the graceful shutdown. Nobody is assumed to
  close stdin.

## Proofs

`SkillMesh_proofs` proves, for every finite set of tools and any sets of skills, tasks,
callers and manifests, under `SkillMeshAssumption`:

* `TypeCorrect`, `Invariant`, `MutualExclusion`, `PriorStaysCurrent`,
  `Consistency`, `LazyRefreshNeeded`: the invariants of `mesh_refresh`;
* `CountsCarried`: its action property;
* `Refinement`: SkillMesh implements RefreshCycle;
* `CallsInvariant`, `FastFail`, `BoundedExecutions`: the invariants of
  `mesh_calls`.

The argument. None of these is inductive alone. A published snapshot is coherent
if the build it came from was, and carries the counts if the `prior` of that
build was still the published health; this needs that nobody published since
`prior` was read, hence that only one task builds, hence the lock. `IInv` says all
of it: types, `LockHeld` (a task is in a refreshing place exactly when it holds
the lock), `PriorIsCurrent`, `BuildsCoherent` (a build in progress is coherent but
for the skills still to probe) and `SnapshotConsistent`. It is preserved by each
action of a refresh (`RefreshInv`, over lemmas for what the four actions that
touch a build do to it), and steps of calls leave all it speaks of alone
(`CallsLeaveMesh`). The refinement then needs only that `Publish` is the one
action that writes the snapshot and that the phase moves with the lock. The
properties of calls follow from `CallInv`, which bounds the attempts behind a
call at each place and ties a call to the snapshots: one about to resolve has noted
what the current snapshot says (so `Publish` must tell it, `CallInvPublish`), and one
about to decide has noted what its entry and its health say together. Of the mesh it
uses only `SnapshotConsistent`: an active entry has a health. `LazyRefreshNeeded` is
inductive with `LockHeld`: while a lister works under the lock nobody publishes, and
the clock makes nothing younger.

`Lifecycle_proofs` proves `TypeCorrect`, `LifecycleInvariant`, `ReadyAfterRefresh` and `ExitIsDrained`
for any loops, probes and configurations. The strengthening says that an open
connection has a server that serves or drains, that main exits only past a
server that is over, and that readiness and the server come after the first
refresh. `ServerStopsLast` is the half of `ServedShutdownCompletes` that is safety: a
server that is no longer serving was told to stop, by a shutdown that found the signal
task waiting, and main tells it only when no background loop is left.

`StreamRelay_proofs` proves, for any tasks, ids and channel capacity and any bounds,
`TypeCorrect`, `Invariant`, `RegistryExact`, `FinalComesLast`, `CancelledIsAsked` and
`Refinement`. The invariant `IInv` has a part for each kind of argument. `IdsDiffer`:
no two unanswered requests have one id, so that a handle that is registered or taken
out is the task's own (`InFlightExact`). `EndReported`: a pump is woken only by a
cancellation while its call is being relayed, and one that is over left a final or
"lost" frame at the end of the channel or was cancelled; an empty close can then
only be a cancellation. `Numbered`: what is in the channel and in the rest of the
chunk is numbered on from what the task has received, through every send and
receive; so the number of a final frame is that of the notifications before it and
one. The refinement needs these two for `Answer`, and `IdsDiffer` for `Begin`. `StreamsMove`
says from the same invariant that a relay that waits has a pump that can go on, and a
pump that waits has a relay that can: the safety half of `Answered` and `PumpEnds`.

`SseParser_proofs` proves `Invariant`, `NothingAnsweredIsKept` and `Refinement` for any
bytes and streams of any length, cut anywhere; a refinement over a stream of any length
needs no induction over the stream, since each turn of a loop of the parser is one step.
`ParserInv` says that the frame and the buffer are the end of what has arrived and come
after a blank line (`Tiling`), and that a frame that is being split is UTF-8 with no blank
line but at its end (`WholeFrame`). A line of the frame is then a line of the text, its value
is the same by `strip_prefix` as by the format (`SameValue`), and to return the event is to
read the blank line that dispatches it.

`OutboundAuth_proofs` proves `Invariant`, `AuthenticatedOrFailed`, `FetchesAreSpaced` and
`NoExpiredToken` for any callers, TTL, validity and delay with
`TTL + Delay <= Validity`. `AuthInv` says that the mutex is held exactly while gcloud
runs, hence that one token is fetched at a time and that the cache does not become
fresh under a fetch, that a stored token is at most `Delay` older than its storage,
that a skill's request gets to Azure only when gcloud is not the mode, and that the queue
of the mutex holds exactly the callers that wait, each once (`QueueIsWaiting`, which needs
what appending to a queue and taking its head do to its members). From it `TheMutexMoves`:
while somebody waits, a gcloud runs that can end or the head of the queue can take the
mutex. That is the safety half of `Served`.

`PodmanRunner_proofs` proves `RunInvariant`, `FirstLineAnswers` and `BehavedAnswered` for requests, pipes
and outputs of any size. `RunInv` says that what of the request is read, in the pipe
and still to write adds up to all of it, so that the end of stdin comes after the last
piece; and that the first piece the container wrote is the first that was read or
else the first in the pipe, with the line it began, so that no reading in pieces makes
the parent answer for another line. `BehavedInv`, inductive with it, says why a behaved
container is answered: while the run goes on the parent holds its ends, so nothing kills
the container and it ends only after its line and the end of stdin; a line with its end
stays in the pipe or with the parent; and all that it writes is the result.
`NobodyIsStuck` is the safety half of `LocalRunReturns`, for the containers that property is
about: while the run goes on, parent or container can take a step, though each may be stopped by a
pipe that the other reads or fills. `FlowInv`, inductive with `RunInv`, bounds what is in a
pipe by what was written and says which ends are open where. `ParentCanGo` and
`ContainerCanGo` spell out where there is a step; TLC has found them equivalent to `ENABLED`
of the steps, which is itself out of the prover's reach.

`ToolName_proofs` proves `ListedCanBeCalled` for all names: after a clean skill name the
first separator is the one that `namespaced_tool` put there. `CalledIsListed` is the
converse: a name that is parsed is the one its two parts are listed under, and the skill
parsed is clean. So parsing and naming are inverse to each other. It needs that a name
with a separator has a first one (`LeastNumber`, from the well-foundedness of `<`).

`Commands_proofs` proves `Invariant`, `GreenIsTrue`, `RedIsTrue` and
`ListedNamesRouteBack` for registries of any size and any names. `CommandInv` says that
the source resolved is the chosen one whether it can be read or not, that only `health`
goes on after a refresh that failed, and that its health is then empty; so an exit code
is that of the chosen registry. `ListedNamesRouteBack` adds to `ListedCanBeCalled` that
the first active entry of a name is the only one where names differ.

Only model-checked: everything under fairness (`BreakerRecovers`, `ListReturns`,
`Answered`, `PumpEnds`, `ServedShutdownCompletes`, `Served`, `LocalRunReturns`,
`ContainerEnds`), which is out of the prover's reach. That nobody waits on somebody who
waits, which liveness needs beside fairness, is proved for streams, tokens and local runs
(`StreamMoves`, `MutexMoves`, `NobodyStuck`). All invariants and action properties of
passing runs are theorems.

## Not modelled

Serialisation and its errors other than as outcomes; the text of messages; a stdout
that blocks without being closed, and with it the stdin loop that writes an answer
itself (`stdio.rs:51`); the cache and the retries inside the Azure SDK; YAML and JSON
parsing of the registry; CLI parsing; the echo-skill example. Cancelling a refresh by
aborting its task happens only on the way out of the process and is left to Lifecycle.

The modules are composed at their outcomes, not joined: SkillMesh takes of a token, a
local run and a stream what OutboundAuth, PodmanRunner and StreamRelay show they can
end in, and Commands takes of a refresh its result. A joint state space would add the
product of their interleavings and no shared variable.

## Order of work

SkillMesh with RefreshCycle (the heart of the proxy) and its proofs; StreamRelay;
Lifecycle and its proofs; Commands; then the abstract ToolStream and the proofs of
StreamRelay, OutboundAuth and PodmanRunner with their proofs, SseParser, and ToolName
with Commands and their proofs; then EventStream and the proofs of SseParser, and the
theorems that nobody is stuck. What would come next: a stdout that blocks, and the end of stdin with
requests in flight.
