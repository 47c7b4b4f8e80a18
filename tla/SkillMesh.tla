------------------------------ MODULE SkillMesh ------------------------------
(***************************************************************************)
(* The skill mesh of crates/oxidized-mcp-core/src/router.rs: one snapshot  *)
(* of the registry, its tools and their health, replaced as a whole by a   *)
(* refresh; three ways to start a refresh behind one lock (the background  *)
(* loop, an explicit refresh, a tools/list on a stale snapshot); and       *)
(* tools/call, which reads the snapshot and a per-skill count of HTTP      *)
(* failures and tries the HTTP endpoint and a local Podman image.          *)
(*                                                                         *)
(* A step ends wherever the code awaits, takes or drops a lock, or loads   *)
(* or stores state other tasks share: the runtime is multi-threaded.       *)
(***************************************************************************)
EXTENDS Naturals, FiniteSets

CONSTANTS
    Skill,                   \* names of skills
    Tool,                    \* names of tools; one skill lists a name once
    Refresher,               \* tasks that call refresh()
    Lister,                  \* tasks that call list_tools_cached()
    Caller,                  \* tasks that dispatch a tools/call
    Manifests,               \* what the registry may publish
    Absent,                  \* no entry in the active manifest or in health
    Nobody,                  \* the refresh lock is free
    CIRCUIT_TRIP_THRESHOLD,
    TTL,                     \* tools_list_cache_ttl_secs, in ticks
    RefreshEnabled,          \* FALSE: --refresh-interval-secs 0
    MaxFailures              \* bound on the failure counter

Entry == [image : BOOLEAN, streaming : BOOLEAN]
Manifest == [Skill -> Entry \cup {Absent}]
Health == [status : {"healthy", "down"}, tools_count : Nat]
HealthMap == [Skill -> Health \cup {Absent}]
ToolMap == [Skill -> SUBSET Tool]
Proc == Refresher \cup Lister

ASSUME SkillMeshAssumption ==
    /\ IsFiniteSet(Tool)
    /\ Refresher \cap Lister = {}
    /\ Nobody \notin Proc
    /\ Absent \notin Entry /\ Absent \notin Health
    /\ Manifests \subseteq Manifest
    /\ CIRCUIT_TRIP_THRESHOLD \in Nat \ {0}
    /\ MaxFailures \in Nat /\ TTL \in Nat
    /\ RefreshEnabled \in BOOLEAN

VARIABLES
    snapshot,      \* the MeshSnapshot in the ArcSwap
    age,           \* ticks since refreshed_at, counted up to TTL + 1
    circuit,       \* HTTP failures in a row, per skill
    refresh_lock,  \* its holder
    rpc,           \* where each refreshing task is
    build,         \* locals of refresh_inner and build_snapshot
    call           \* locals of dispatch, call_tool and open_streaming_call

meshVars == <<snapshot, age, refresh_lock, rpc, build>>
vars == <<snapshot, age, circuit, refresh_lock, rpc, build, call>>

NoManifest == [s \in Skill |-> Absent]
NoHealth == [s \in Skill |-> Absent]
NoTools == [s \in Skill |-> {}]
NoBuild == [manifest |-> NoManifest, prior |-> NoHealth, todo |-> {},
            tools |-> NoTools, health |-> NoHealth]
NoEntry == [image |-> FALSE, streaming |-> FALSE]

\* active_skills(): disabled entries count as absent.
Active(m) == {s \in Skill : m[s] # Absent}

\* tools_count of a health entry, 0 without one.
CountIn(h, s) == IF h[s] = Absent THEN 0 ELSE h[s].tools_count

\* A call that is not running. Only properties read the last two: `sent`
\* counts the attempts that may have run the tool; `down_seen` says that some
\* snapshot between its dispatch and its decision had the skill HttpOnlyDown.
Idle == [pc |-> "idle", skill |-> Absent, entry |-> NoEntry, health |-> Absent,
         result |-> "none", sent |-> 0, down_seen |-> FALSE]

\* What a call fails fast on: in one snapshot, no image and a Down endpoint.
HttpOnlyDown(snap, s) ==
    /\ snap.manifest[s] # Absent /\ ~snap.manifest[s].image
    /\ snap.health[s] # Absent /\ snap.health[s].status = "down"

Init ==
    /\ snapshot = [manifest |-> NoManifest, aggregated_tools |-> NoTools,
                   health |-> NoHealth, refreshed |-> FALSE]
    /\ age = 0
    /\ circuit = [s \in Skill |-> 0]
    /\ refresh_lock = Nobody
    /\ rpc = [p \in Proc |-> "idle"]
    /\ build = [p \in Proc |-> NoBuild]
    /\ call = [c \in Caller |-> Idle]

-----------------------------------------------------------------------------
(* Refresh *)

\* With the interval 0 the TTL is u64::MAX: only the first refresh is due.
snapshot_is_stale ==
    \/ ~snapshot.refreshed
    \/ RefreshEnabled /\ age > TTL

Tick ==
    /\ RefreshEnabled /\ snapshot.refreshed /\ age <= TTL
    /\ age' = age + 1
    /\ UNCHANGED <<snapshot, circuit, refresh_lock, rpc, build, call>>

Goto(p, l) == rpc' = [rpc EXCEPT ![p] = l]

\* The refresh of `start` and then the loop's ticker, which looks at no age.
RefreshStart(p) ==
    /\ p \in Refresher /\ rpc[p] = "idle"
    /\ RefreshEnabled \/ ~snapshot.refreshed
    /\ Goto(p, "waiting")
    /\ UNCHANGED <<snapshot, age, circuit, refresh_lock, build, call>>

RefreshLock(p) ==
    /\ p \in Refresher /\ rpc[p] = "waiting" /\ refresh_lock = Nobody
    /\ refresh_lock' = p
    /\ Goto(p, "load")
    /\ UNCHANGED <<snapshot, age, circuit, build, call>>

\* list_tools_cached on a stale snapshot; on a fresh one it changes nothing.
ListStart(p) ==
    /\ p \in Lister /\ rpc[p] = "idle"
    /\ snapshot_is_stale
    /\ Goto(p, "try_lock")
    /\ UNCHANGED <<snapshot, age, circuit, refresh_lock, build, call>>

\* Bug: the lister queues for the lock instead of trying it.
BlockingListTryLock(p) ==
    /\ rpc[p] = "try_lock" /\ refresh_lock = Nobody
    /\ refresh_lock' = p
    /\ Goto(p, "recheck")
    /\ UNCHANGED <<snapshot, age, circuit, build, call>>

\* Bug: the lister refreshes without the lock.
UnlockedListTryLock(p) ==
    /\ rpc[p] = "try_lock"
    /\ refresh_lock' = p
    /\ Goto(p, "recheck")
    /\ UNCHANGED <<snapshot, age, circuit, build, call>>

\* A busy lock ends the call with the snapshot as it is.
ListTryLock(p) ==
    /\ rpc[p] = "try_lock"
    /\ \/ /\ refresh_lock = Nobody
          /\ refresh_lock' = p
          /\ Goto(p, "recheck")
       \/ /\ refresh_lock # Nobody
          /\ Goto(p, "idle")
          /\ UNCHANGED refresh_lock
    /\ UNCHANGED <<snapshot, age, circuit, build, call>>

\* Bug: the age is not looked at again under the lock.
UncheckedListRecheck(p) ==
    /\ rpc[p] = "recheck"
    /\ Goto(p, "load")
    /\ UNCHANGED <<snapshot, age, circuit, refresh_lock, build, call>>

ListRecheck(p) ==
    /\ rpc[p] = "recheck"
    /\ Goto(p, IF snapshot_is_stale THEN "load" ELSE "unlock")
    /\ UNCHANGED <<snapshot, age, circuit, refresh_lock, build, call>>

\* The registry answers m; build_snapshot then captures the prior snapshot.
LoadRegistry(p, m) ==
    /\ rpc[p] = "load"
    /\ build' = [build EXCEPT ![p] = [NoBuild EXCEPT !.manifest = m,
                                                     !.prior = snapshot.health,
                                                     !.todo = Active(m)]]
    /\ Goto(p, "probe")
    /\ UNCHANGED <<snapshot, age, circuit, refresh_lock, call>>

\* Bug: a refresh that fails takes the list with it.
EmptyingLoadFails(p) ==
    /\ rpc[p] = "load"
    /\ snapshot' = [snapshot EXCEPT !.aggregated_tools = NoTools]
    /\ Goto(p, "unlock")
    /\ UNCHANGED <<age, circuit, refresh_lock, build, call>>

\* The error leaves the last good snapshot in place.
LoadFails(p) ==
    /\ rpc[p] = "load"
    /\ Goto(p, "unlock")
    /\ UNCHANGED <<snapshot, age, circuit, refresh_lock, build, call>>

Healthy(n) == [status |-> "healthy", tools_count |-> n]
Down(n) == [status |-> "down", tools_count |-> n]

\* Bug: a healthy probe leaves the breaker as it is.
NoResetProbeOk(p, s, T) ==
    /\ rpc[p] = "probe" /\ s \in build[p].todo
    /\ build' = [build EXCEPT ![p].todo = @ \ {s},
                              ![p].tools[s] = T,
                              ![p].health[s] = Healthy(Cardinality(T))]
    /\ UNCHANGED <<snapshot, age, circuit, refresh_lock, rpc, call>>

\* fetch_skill_tools answers the tools T. The order of the manifest's skills
\* is left open.
ProbeOk(p, s, T) ==
    /\ rpc[p] = "probe" /\ s \in build[p].todo
    /\ build' = [build EXCEPT ![p].todo = @ \ {s},
                              ![p].tools[s] = T,
                              ![p].health[s] = Healthy(Cardinality(T))]
    /\ circuit' = [circuit EXCEPT ![s] = 0]
    /\ UNCHANGED <<snapshot, age, refresh_lock, rpc, call>>

\* Bug: the count of a skill that goes Down starts again at 0.
ZeroProbeFails(p, s) ==
    /\ rpc[p] = "probe" /\ s \in build[p].todo
    /\ build' = [build EXCEPT ![p].todo = @ \ {s}, ![p].health[s] = Down(0)]
    /\ UNCHANGED <<snapshot, age, circuit, refresh_lock, rpc, call>>

\* Bug: a skill that goes Down stays listed with its last tools.
ListedProbeFails(p, s) ==
    /\ rpc[p] = "probe" /\ s \in build[p].todo
    /\ build' = [build EXCEPT
            ![p].todo = @ \ {s},
            ![p].tools[s] = snapshot.aggregated_tools[s],
            ![p].health[s] = Down(CountIn(build[p].prior, s))]
    /\ UNCHANGED <<snapshot, age, circuit, refresh_lock, rpc, call>>

\* The probe does not touch the breaker when it fails.
ProbeFails(p, s) ==
    /\ rpc[p] = "probe" /\ s \in build[p].todo
    /\ build' = [build EXCEPT
            ![p].todo = @ \ {s},
            ![p].health[s] = Down(CountIn(build[p].prior, s))]
    /\ UNCHANGED <<snapshot, age, circuit, refresh_lock, rpc, call>>

\* A call that has not decided yet notes what the snapshot says of its skill.
Witness(r, snap) ==
    IF r.pc \notin {"resolve", "decide"} THEN r
    ELSE [r EXCEPT !.down_seen = @ \/ HttpOnlyDown(snap, r.skill)]

Publish(p) ==
    /\ rpc[p] = "probe" /\ build[p].todo = {}
    /\ snapshot' = [manifest |-> build[p].manifest,
                    aggregated_tools |-> build[p].tools,
                    health |-> build[p].health,
                    refreshed |-> TRUE]
    /\ age' = 0
    /\ build' = [build EXCEPT ![p] = NoBuild]
    /\ call' = [c \in Caller |-> Witness(call[c], snapshot')]
    /\ Goto(p, "unlock")
    /\ UNCHANGED <<circuit, refresh_lock>>

\* The guard drops. A lister then returns the list of the current snapshot.
Unlock(p) ==
    /\ rpc[p] = "unlock"
    /\ refresh_lock' = Nobody
    /\ Goto(p, "idle")
    /\ UNCHANGED <<snapshot, age, circuit, build, call>>

RefreshStep(p) ==
    \/ RefreshStart(p)
    \/ RefreshLock(p)
    \/ ListStart(p)
    \/ ListTryLock(p)
    \/ ListRecheck(p)
    \/ \E m \in Manifests : LoadRegistry(p, m)
    \/ LoadFails(p)
    \/ \E s \in Skill, T \in SUBSET Tool : ProbeOk(p, s, T)
    \/ \E s \in Skill : ProbeFails(p, s)
    \/ Publish(p)
    \/ Unlock(p)

-----------------------------------------------------------------------------
(* Calls *)

Set(c, r) == call' = [call EXCEPT ![c] = r]

Finish(c, result) == Set(c, [call[c] EXCEPT !.pc = "done", !.result = result])

\* An attempt that may have run the tool n times has the result x.
Advance(c, l, x, n) ==
    Set(c, [call[c] EXCEPT !.pc = l, !.result = x, !.sent = @ + n])

\* resolve_auth_header fails: nothing is sent.
NoToken(c, l) ==
    Set(c, [call[c] EXCEPT !.pc = l, !.result = "auth_error"])

\* is_skill_streaming chooses the path on the snapshot of this moment.
Dispatch(c, s) ==
    /\ call[c].pc = "idle"
    /\ LET e == snapshot.manifest[s]
           streaming == e # Absent /\ e.streaming
       IN  Set(c, [Idle EXCEPT !.pc = IF streaming THEN "open" ELSE "resolve",
                               !.skill = s,
                               !.down_seen = ~streaming /\ HttpOnlyDown(snapshot, s)])
    /\ UNCHANGED <<meshVars, circuit>>

\* open_streaming_call resolves on a snapshot of its own.
OpenStream(c) ==
    /\ call[c].pc = "open"
    /\ LET e == snapshot.manifest[call[c].skill]
       IN  IF e = Absent THEN Finish(c, "not_found")
           ELSE IF ~e.streaming THEN Finish(c, "streaming_not_enabled")
           ELSE Set(c, [call[c] EXCEPT !.pc = "open_post", !.entry = e])
    /\ UNCHANGED <<meshVars, circuit>>

\* Health, breaker and image play no part here. The stream goes to the relay.
OpenPost(c) ==
    /\ call[c].pc = "open_post"
    /\ \/ Advance(c, "done", "stream", 1)
       \/ \E n \in 0 .. 1 : Advance(c, "done", "http_error", n)
       \/ NoToken(c, "done")
    /\ UNCHANGED <<meshVars, circuit>>

\* call_tool loads the snapshot once for the entry and its health.
Resolve(c) ==
    /\ call[c].pc = "resolve"
    /\ LET s == call[c].skill
       IN  IF snapshot.manifest[s] = Absent THEN Finish(c, "not_found")
           ELSE Set(c, [call[c] EXCEPT !.pc = "decide",
                                       !.entry = snapshot.manifest[s],
                                       !.health = snapshot.health[s]])
    /\ UNCHANGED <<meshVars, circuit>>

\* Past the decision the call forgets what it noted of the snapshots.
Decided(c, l) == Set(c, [call[c] EXCEPT !.pc = l, !.down_seen = FALSE])

breaker_is_open(s) == circuit[s] >= CIRCUIT_TRIP_THRESHOLD

\* Bug: the health check loads the snapshot a second time.
ReloadingDecide(c) ==
    /\ call[c].pc = "decide"
    /\ LET h == snapshot.health[call[c].skill]
       IN  IF breaker_is_open(call[c].skill) /\ call[c].entry.image
           THEN Decided(c, "local_first")
           ELSE IF ~call[c].entry.image /\ h # Absent /\ h.status = "down"
           THEN Finish(c, "unreachable")
           ELSE Decided(c, "http")
    /\ UNCHANGED <<meshVars, circuit>>

\* The breaker only matters with an image, the health only without one.
Decide(c) ==
    /\ call[c].pc = "decide"
    /\ LET h == call[c].health
       IN  IF breaker_is_open(call[c].skill) /\ call[c].entry.image
           THEN Decided(c, "local_first")
           ELSE IF ~call[c].entry.image /\ h # Absent /\ h.status = "down"
           THEN Finish(c, "unreachable")
           ELSE Decided(c, "http")
    /\ UNCHANGED <<meshVars, circuit>>

\* try_local fails before the tool runs (n = 0: no image, no podman) or after
\* (n = 1: an error answer, an unreadable one). Either way the call goes on.
LocalFirst(c) ==
    /\ call[c].pc = "local_first"
    /\ \/ Advance(c, "done", "local", 1)
       \/ \E n \in 0 .. 1 : Advance(c, "http", call[c].result, n)
    /\ UNCHANGED <<meshVars, circuit>>

\* Bug: a success takes one failure back.
DecrementingPostOk(c) ==
    /\ call[c].pc = "http"
    /\ \E r \in {"ok", "skill_error"} : Advance(c, "done", r, 1)
    /\ circuit' = [circuit EXCEPT ![call[c].skill] = @ - 1]
    /\ UNCHANGED meshVars

\* The endpoint answers; an answer may carry an error of the tool.
PostOk(c) ==
    /\ call[c].pc = "http"
    /\ \E r \in {"ok", "skill_error"} : Advance(c, "done", r, 1)
    /\ circuit' = [circuit EXCEPT ![call[c].skill] = 0]
    /\ UNCHANGED meshVars

\* No token, a refused connection (n = 0), or a timeout or error status after
\* the request arrived (n = 1): all of them count as an HTTP failure.
PostFails(c) ==
    /\ call[c].pc = "http"
    /\ circuit[call[c].skill] < MaxFailures
    /\ LET next == IF call[c].entry.image THEN "local_after" ELSE "done"
       IN  \/ NoToken(c, next)
           \/ \E n \in 0 .. 1 : Advance(c, next, "http_error", n)
    /\ circuit' = [circuit EXCEPT ![call[c].skill] = @ + 1]
    /\ UNCHANGED meshVars

\* Bug: a fallback that fails goes back to HTTP.
RetryingLocalAfter(c) ==
    /\ call[c].pc = "local_after"
    /\ \/ Advance(c, "done", "local", 1)
       \/ \E n \in 0 .. 1 : Advance(c, "http", call[c].result, n)
    /\ UNCHANGED <<meshVars, circuit>>

\* When the fallback fails too, the HTTP error is the answer.
LocalAfter(c) ==
    /\ call[c].pc = "local_after"
    /\ \/ Advance(c, "done", "local", 1)
       \/ \E n \in 0 .. 1 : Advance(c, "done", call[c].result, n)
    /\ UNCHANGED <<meshVars, circuit>>

Return(c) ==
    /\ call[c].pc = "done"
    /\ Set(c, Idle)
    /\ UNCHANGED <<meshVars, circuit>>

CallStep(c) ==
    \/ \E s \in Skill : Dispatch(c, s)
    \/ OpenStream(c)
    \/ OpenPost(c)
    \/ Resolve(c)
    \/ Decide(c)
    \/ LocalFirst(c)
    \/ PostOk(c)
    \/ PostFails(c)
    \/ LocalAfter(c)
    \/ Return(c)

Next ==
    \/ Tick
    \/ \E p \in Proc : RefreshStep(p)
    \/ \E c \in Caller : CallStep(c)

Spec == Init /\ [][Next]_vars

-----------------------------------------------------------------------------
(* Fairness *)

\* The background loop lives for the whole process, its lock is FIFO, and a
\* probe ends within the client's 60 s once its token has come, which is
\* assumed as for ListerFairness below. That the registry and each endpoint
\* answer again if they are asked again and again is the recovery assumed.
RefresherFairness ==
    \A p \in Refresher :
        /\ WF_vars(RefreshStart(p))
        /\ SF_vars(RefreshLock(p))
        /\ SF_vars(\E m \in Manifests : LoadRegistry(p, m))
        /\ WF_vars(\E s \in Skill : ProbeFails(p, s)
                                    \/ \E T \in SUBSET Tool : ProbeOk(p, s, T))
        /\ \A s \in Skill : SF_vars(\E T \in SUBSET Tool : ProbeOk(p, s, T))
        /\ WF_vars(Publish(p)) /\ WF_vars(Unlock(p))

\* Assumed of a lister in a refresh of its own: its requests end, which the
\* client's 60 s see to, and so do the token requests before them. With gcloud
\* as the mode those wait on the token mutex, which another task may hold over
\* a gcloud that has no timeout (auth.rs:91-122; OutboundAuth!Served says when
\* everyone gets through); with a bearer or none they are immediate. Nothing
\* is assumed of the refreshes of other tasks, nor is a lister made to call.
ListerFairness ==
    \A p \in Lister : WF_vars(rpc[p] # "idle" /\ RefreshStep(p))

RecoveryFairness == RefresherFairness /\ ListerFairness

-----------------------------------------------------------------------------
(* Properties *)

RefreshPC == {"idle", "waiting", "try_lock", "recheck", "load", "probe", "unlock"}
CallPC == {"idle", "open", "open_post", "resolve", "decide", "local_first",
           "http", "local_after", "done"}
Result == {"none", "ok", "skill_error", "local", "http_error", "auth_error",
           "unreachable", "not_found", "streaming_not_enabled", "stream"}

Snapshot == [manifest : Manifest, aggregated_tools : ToolMap,
             health : HealthMap, refreshed : BOOLEAN]
Build == [manifest : Manifest, prior : HealthMap, todo : SUBSET Skill,
          tools : ToolMap, health : HealthMap]
Call == [pc : CallPC, skill : Skill \cup {Absent}, entry : Entry,
         health : Health \cup {Absent}, result : Result, sent : Nat,
         down_seen : BOOLEAN]

\* Every variable keeps its shape; a running call names a skill.
TypeOK ==
    /\ snapshot \in Snapshot
    /\ age \in 0 .. TTL + 1
    /\ circuit \in [Skill -> Nat]
    /\ refresh_lock \in Proc \cup {Nobody}
    /\ rpc \in [Proc -> RefreshPC]
    /\ build \in [Proc -> Build]
    /\ call \in [Caller -> Call]
    /\ \A c \in Caller : call[c].pc # "idle" => call[c].skill \in Skill

Refreshing(p) == rpc[p] \in {"recheck", "load", "probe", "unlock"}

\* Background, explicit and lazy refreshes never overlap (the doc of
\* refresh_lock and the README's "cannot stampede skill backends").
RefreshMutex ==
    \A p, q \in Proc : Refreshing(p) /\ Refreshing(q) => p = q

\* The counts a refresh carries forward were captured before its probes
\* awaited, and are still those of the published snapshot when it replaces it
\* (build_snapshot's `prior`).
PriorIsCurrent ==
    \A p \in Proc : rpc[p] = "probe" => build[p].prior = snapshot.health

\* The phase of a refresh, read off the lock.
phase ==
    IF refresh_lock = Nobody THEN "free"
    ELSE IF rpc[refresh_lock] = "unlock" THEN "done" ELSE "working"

Cycle == INSTANCE RefreshCycle WITH view <- snapshot, Size <- Cardinality

\* What readers see is one consistent triple (the doc of MeshSnapshot): health
\* names exactly the active skills, a healthy skill lists as many tools as
\* its count says, and a Down or absent skill lists none.
SnapshotConsistent == Cycle!Coherent(snapshot)

\* A skill that stays in the manifest and is Down after a refresh keeps the
\* count it had (the doc of SkillHealth), whichever tasks refreshed it.
CountCarriedForward == [][Cycle!CarriesCounts(snapshot, snapshot')]_snapshot

\* The three ways to refresh amount to one cycle: one at a time, and each
\* leaves the last good snapshot in place or replaces it as a whole.
RefreshesInCycles == Cycle!Spec

\* A tools/list refreshes only what is stale, from asking the registry to
\* publishing: a refresh that finished since it looked at the age spares it the
\* work, and none finishes meanwhile. A burst of tools/list on a stale list does
\* not sweep the skills again once one of them has (README: "cannot stampede").
NoRedundantLazyRefresh ==
    \A p \in Lister : rpc[p] \in {"load", "probe"} => snapshot_is_stale

\* A call fails fast only if the mesh, at one moment since the dispatch, really
\* had its skill Down and without an image. An entry of one snapshot with the
\* health of the next could fail a call that no snapshot would (the comment in
\* call_tool on loading the snapshot once).
FastFailJustified ==
    \A c \in Caller : call[c].result = "unreachable" => call[c].down_seen

\* One tools/call runs the tool once at most without an image; with one, the
\* local run, the HTTP attempt and the fallback make three at most.
ExecutionBound ==
    \A c \in Caller : call[c].sent <= IF call[c].entry.image THEN 3 ELSE 1

\* How many attempts lie behind a call at each place, that it has noted what the
\* snapshot it is about to resolve on says, and that the entry and the health it
\* took along say the same: what makes the two properties above inductive.
CallInv ==
    \A c \in Caller :
        LET r == call[c]
        IN  /\ r.pc \notin {"local_after", "done"} => r.result = "none"
            /\ r.pc \notin {"http", "local_after", "done"} => r.sent = 0
            /\ r.pc \in {"decide", "local_first", "http", "local_after"}
                 => r.health # Absent
            /\ r.pc \in {"local_first", "local_after"} => r.entry.image
            /\ r.pc = "http" => r.sent <= IF r.entry.image THEN 1 ELSE 0
            /\ r.pc = "local_after" => r.sent <= 2 /\ r.result # "unreachable"
            /\ r.sent <= IF r.entry.image THEN 3 ELSE 1
            /\ r.pc = "resolve" /\ HttpOnlyDown(snapshot, r.skill) => r.down_seen
            /\ r.pc = "decide" /\ ~r.entry.image /\ r.health.status = "down"
                 => r.down_seen
            /\ r.result = "unreachable" => r.down_seen

\* With periodic refreshes a breaker never stays open for good once the
\* endpoint answers probes again, even if nobody calls the skill (the comment
\* in build_snapshot on the reset).
BreakerRecovers ==
    RecoveryFairness =>
        \A s \in Skill : breaker_is_open(s) ~> ~breaker_is_open(s)

\* tools/list does not wait for another task's refresh, one that hangs with
\* the lock held included (README: "so the IDE stays responsive").
ListReturns ==
    ListerFairness => \A p \in Lister : rpc[p] # "idle" ~> rpc[p] = "idle"

\* The lock is held by the task that is refreshing, and by nobody else.
LockHeld == \A p \in Proc : Refreshing(p) <=> refresh_lock = p

\* A snapshot under construction is coherent but for the skills to probe.
BuildCoherent(b) ==
    /\ b.todo \subseteq Active(b.manifest)
    /\ \A s \in Skill :
         /\ b.health[s] = Absent <=> b.manifest[s] = Absent \/ s \in b.todo
         /\ b.health[s] = Absent => b.tools[s] = {}
         /\ b.health[s] # Absent =>
              \/ b.health[s] = Healthy(Cardinality(b.tools[s]))
              \/ b.health[s] = Down(CountIn(b.prior, s)) /\ b.tools[s] = {}

BuildsCoherent == \A p \in Proc : rpc[p] = "probe" => BuildCoherent(build[p])

\* The inductive invariant: whoever builds holds the lock, so that the prior
\* it captured stays current and what it publishes is coherent (lines 179-192,
\* 223-232 and 440-512 of router.rs together).
IInv ==
    /\ TypeOK
    /\ LockHeld
    /\ PriorIsCurrent
    /\ BuildsCoherent
    /\ SnapshotConsistent
=============================================================================
