--------------------------- MODULE SkillMesh_proofs ---------------------------
(***************************************************************************)
(* Proofs about SkillMesh for every number of skills, tools, tasks and     *)
(* manifests: its type, the mutual exclusion of refreshes, the consistency *)
(* of the snapshot, that it implements RefreshCycle, and what one call may *)
(* do.                                                                     *)
(***************************************************************************)
EXTENDS SkillMesh, FiniteSetTheorems, TLAPS

-----------------------------------------------------------------------------
(* Typing *)

\* The tools of a skill can be counted.
LEMMA ToolsFinite == \A T \in SUBSET Tool : Cardinality(T) \in Nat
BY FS_Subset, FS_CardinalityType, SkillMeshAssumption

\* The initial parts of the state have their types.
LEMMA InitParts ==
    /\ NoManifest \in Manifest /\ NoHealth \in HealthMap /\ NoTools \in ToolMap
    /\ NoBuild \in Build /\ Idle \in Call
<1>1. NoManifest \in Manifest /\ NoHealth \in HealthMap /\ NoTools \in ToolMap
  BY DEF NoManifest, NoHealth, NoTools, Manifest, HealthMap, ToolMap
<1>2. NoBuild \in Build
  BY <1>1 DEF NoBuild, Build
<1>3. Idle \in Call
  BY DEF Idle, Call, NoEntry, Entry, CallPC, Result
<1> QED BY <1>1, <1>2, <1>3

\* The mesh starts empty, unlocked and idle.
LEMMA InitTyped == Init => TypeOK
<1> SUFFICES ASSUME Init PROVE TypeOK
  OBVIOUS
<1> USE InitParts DEF Init
<1>1. snapshot \in Snapshot
  BY DEF Snapshot
<1>2. age \in 0 .. TTL + 1 /\ circuit \in [Skill -> Nat]
  BY SkillMeshAssumption
<1>3. /\ refresh_lock \in Proc \cup {Nobody}
      /\ rpc \in [Proc -> RefreshPC] /\ build \in [Proc -> Build]
  BY DEF RefreshPC
<1>4. call \in [Caller -> Call]
  OBVIOUS
<1>5. \A c \in Caller : call[c].pc # "idle" => call[c].skill \in Skill
  BY DEF Idle
<1> QED BY <1>1, <1>2, <1>3, <1>4, <1>5 DEF TypeOK

\* A step of a call that sets its record to r keeps the types if r has one.
LEMMA SetTyped ==
    ASSUME TypeOK, NEW c \in Caller, NEW r \in Call,
           r.pc # "idle" => r.skill \in Skill,
           Set(c, r), UNCHANGED meshVars, circuit' \in [Skill -> Nat]
    PROVE  TypeOK'
<1>1. call' \in [Caller -> Call]
  BY DEF TypeOK, Set
<1>2. \A d \in Caller : call'[d].pc # "idle" => call'[d].skill \in Skill
  BY DEF TypeOK, Set
<1> QED BY <1>1, <1>2 DEF TypeOK, meshVars

\* No step of a call touches what refreshes share.
LEMMA CallsLeaveMesh == \A c \in Caller : CallStep(c) => UNCHANGED meshVars
BY DEF CallStep, Dispatch, OpenStream, OpenPost, Resolve, Decide, LocalFirst,
       PostOk, PostFails, LocalAfter, Return

\* What a published snapshot adds to the record of a call, and that it changes
\* nothing else in it.
LEMMA WitnessTyped ==
    ASSUME NEW r \in Call, NEW snap
    PROVE  LET w == Witness(r, snap)
           IN  /\ w \in Call
               /\ w.pc = r.pc /\ w.skill = r.skill /\ w.entry = r.entry
               /\ w.health = r.health /\ w.result = r.result /\ w.sent = r.sent
               /\ r.down_seen => w.down_seen
               /\ r.pc = "resolve" /\ HttpOnlyDown(snap, r.skill) => w.down_seen
<1> DEFINE b == r.down_seen \/ HttpOnlyDown(snap, r.skill)
           w == Witness(r, snap)
<1>1. b \in BOOLEAN
  OBVIOUS
<1>2. r.down_seen => b
  OBVIOUS
<1>3. HttpOnlyDown(snap, r.skill) => b
  OBVIOUS
<1>4. w = IF r.pc \notin {"resolve", "decide"} THEN r
          ELSE [r EXCEPT !.down_seen = b]
  BY DEF Witness
<1> HIDE DEF b, w
<1>5. /\ w \in Call
      /\ w.pc = r.pc /\ w.skill = r.skill /\ w.entry = r.entry
      /\ w.health = r.health /\ w.result = r.result /\ w.sent = r.sent
  BY <1>1, <1>4 DEF Call
<1>6. w.down_seen = IF r.pc \notin {"resolve", "decide"} THEN r.down_seen ELSE b
  BY <1>4 DEF Call
<1>7. r.down_seen => w.down_seen
  BY <1>2, <1>6
<1>8. r.pc = "resolve" /\ HttpOnlyDown(snap, r.skill) => w.down_seen
  BY <1>3, <1>6
<1> QED BY <1>5, <1>7, <1>8 DEF w

\* An attempt keeps the skill of the call, and the record its type.
LEMMA AttemptTyped ==
    ASSUME NEW c \in Caller, call[c] \in Call,
           NEW l \in CallPC, NEW x \in Result, NEW n \in Nat,
           Advance(c, l, x, n) \/ NoToken(c, l)
    PROVE  \E q \in Call : q.skill = call[c].skill /\ Set(c, q)
<1> DEFINE r == call[c]
<1>1. r \in Call
  OBVIOUS
<1> HIDE DEF r
<1>2. CASE Advance(c, l, x, n)
  <2> DEFINE m == r.sent + n
             q == [r EXCEPT !.pc = l, !.result = x, !.sent = m]
  <2>1. m \in Nat
    BY <1>1 DEF Call
  <2>2. Set(c, q)
    BY <1>2 DEF Advance, r
  <2> HIDE DEF m
  <2>3. q \in Call /\ q.skill = r.skill
    BY <1>1, <2>1 DEF Call
  <2> HIDE DEF q
  <2> QED BY <2>2, <2>3 DEF r
<1>3. CASE NoToken(c, l)
  <2> DEFINE q == [r EXCEPT !.pc = l, !.result = "auth_error"]
  <2>1. "auth_error" \in Result
    BY DEF Result
  <2>2. q \in Call /\ q.skill = r.skill
    BY <1>1, <2>1 DEF Call
  <2>3. Set(c, q)
    BY <1>3 DEF NoToken, r
  <2> HIDE DEF q
  <2> QED BY <2>2, <2>3 DEF r
<1> QED BY <1>2, <1>3

\* Every step of a call leaves every variable its type.
LEMMA CallTyped ==
    ASSUME TypeOK, NEW c \in Caller, CallStep(c)
    PROVE  TypeOK'
<1> DEFINE r == call[c]
<1>1. /\ r \in Call /\ circuit \in [Skill -> Nat]
      /\ r.pc # "idle" => r.skill \in Skill
      /\ snapshot.manifest \in Manifest /\ snapshot.health \in HealthMap
  BY DEF TypeOK, Snapshot
<1>2. /\ {"done", "http", "local_after"} \subseteq CallPC
       /\ {"ok", "skill_error", "local", "stream", "http_error"} \subseteq Result
       /\ 0 .. 1 \subseteq Nat /\ 1 \in Nat
  BY DEF CallPC, Result
<1>3. r.result \in Result
  BY <1>1 DEF Call
<1> HIDE DEF r
<1>4. CASE \E s \in Skill : Dispatch(c, s)
  <2> PICK s \in Skill : Dispatch(c, s)
    BY <1>4
  <2> DEFINE e == snapshot.manifest[s]
             streaming == e # Absent /\ e.streaming
             l == IF streaming THEN "open" ELSE "resolve"
             b == ~streaming /\ HttpOnlyDown(snapshot, s)
             q == [Idle EXCEPT !.pc = l, !.skill = s, !.down_seen = b]
  <2>1. l \in CallPC /\ b \in BOOLEAN
    BY DEF CallPC
  <2>2. Set(c, q)
    BY DEF Dispatch
  <2> HIDE DEF l, b
  <2>3. q \in Call /\ q.skill = s
    BY <2>1, InitParts DEF Idle, Call
  <2> HIDE DEF q
  <2> QED BY <1>1, <2>2, <2>3, SetTyped DEF Dispatch
<1>5. CASE OpenStream(c)
  <2> DEFINE e == snapshot.manifest[r.skill]
             f(x) == [r EXCEPT !.pc = "done", !.result = x]
             g == [r EXCEPT !.pc = "open_post", !.entry = e]
  <2>1. r.pc = "open" /\ r.skill \in Skill /\ e \in Entry \cup {Absent}
    BY <1>1, <1>5 DEF OpenStream, Manifest, r
  <2>2. \A x \in Result : f(x) \in Call /\ f(x).skill = r.skill
    BY <1>1 DEF Call, CallPC
  <2>3. e \in Entry => g \in Call /\ g.skill = r.skill
    BY <1>1 DEF Call, CallPC
  <2>4. \/ Set(c, f("not_found")) \/ Set(c, f("streaming_not_enabled"))
        \/ e \in Entry /\ Set(c, g)
    BY <1>5, <2>1 DEF OpenStream, Finish, r
  <2>5. "not_found" \in Result /\ "streaming_not_enabled" \in Result
    BY DEF Result
  <2>6. UNCHANGED meshVars /\ circuit' \in [Skill -> Nat]
    BY <1>1, <1>5 DEF OpenStream
  <2> HIDE DEF f, g
  <2> QED BY <2>1, <2>2, <2>3, <2>4, <2>5, <2>6, SetTyped
<1>6. CASE OpenPost(c)
  <2>1. r.pc # "idle"
    BY <1>6 DEF OpenPost, r
  <2>2. \E q \in Call : q.skill = r.skill /\ Set(c, q)
    BY <1>1, <1>6, <1>2, AttemptTyped DEF OpenPost, r
  <2> QED BY <1>1, <1>6, <2>1, <2>2, SetTyped DEF OpenPost
<1>7. CASE Resolve(c)
  <2>1. r.pc # "idle" /\ r.skill \in Skill
    BY <1>1, <1>7 DEF Resolve, r
  <2>2. snapshot.health[r.skill] \in Health \cup {Absent}
    BY <1>1, <2>1 DEF HealthMap
  <2>3. snapshot.manifest[r.skill] \in Entry \cup {Absent}
    BY <1>1, <2>1 DEF Manifest
  <2>4. \E q \in Call : q.skill = r.skill /\ Set(c, q)
    BY <1>1, <1>7, <2>2, <2>3 DEF Resolve, Finish, Result, CallPC, Call, r
  <2> QED BY <1>1, <1>7, <2>1, <2>4, SetTyped DEF Resolve
<1>8. CASE Decide(c)
  <2>1. r.pc # "idle" /\ breaker_is_open(r.skill) \in BOOLEAN
    BY <1>1, <1>8, SkillMeshAssumption DEF Decide, breaker_is_open, r
  <2>2. \E q \in Call : q.skill = r.skill /\ Set(c, q)
    BY <1>1, <1>8, <2>1 DEF Decide, Decided, Finish, Result, CallPC, Call, r
  <2> QED BY <1>1, <1>8, <2>1, <2>2, SetTyped DEF Decide
<1>9. CASE LocalFirst(c)
  <2>1. r.pc # "idle"
    BY <1>9 DEF LocalFirst, r
  <2>2. \E q \in Call : q.skill = r.skill /\ Set(c, q)
    BY <1>1, <1>9, <1>2, <1>3, AttemptTyped DEF LocalFirst, r
  <2> QED BY <1>1, <1>9, <2>1, <2>2, SetTyped DEF LocalFirst
<1>10. CASE PostOk(c)
  <2>1. r.pc # "idle"
    BY <1>10 DEF PostOk, r
  <2>2. \E q \in Call : q.skill = r.skill /\ Set(c, q)
    BY <1>1, <1>10, <1>2, <1>3, AttemptTyped DEF PostOk, r
  <2>3. circuit' \in [Skill -> Nat]
    BY <1>1, <1>10 DEF PostOk
  <2> QED BY <1>1, <1>10, <2>1, <2>2, <2>3, SetTyped DEF PostOk
<1>11. CASE PostFails(c)
  <2>1. r.pc # "idle"
    BY <1>11 DEF PostFails, r
  <2>2. \E q \in Call : q.skill = r.skill /\ Set(c, q)
    BY <1>1, <1>11, <1>2, <1>3, AttemptTyped DEF PostFails, r
  <2>3. circuit[r.skill] + 1 \in Nat
    BY <1>1, <2>1
  <2>4. circuit' \in [Skill -> Nat]
    BY <1>1, <1>11, <2>3 DEF PostFails, r
  <2> QED BY <1>1, <1>11, <2>1, <2>2, <2>4, SetTyped DEF PostFails
<1>12. CASE LocalAfter(c)
  <2>1. r.pc # "idle"
    BY <1>12 DEF LocalAfter, r
  <2>2. \E q \in Call : q.skill = r.skill /\ Set(c, q)
    BY <1>1, <1>12, <1>2, <1>3, AttemptTyped DEF LocalAfter, r
  <2> QED BY <1>1, <1>12, <2>1, <2>2, SetTyped DEF LocalAfter
<1>13. CASE Return(c)
  <2>1. Idle \in Call /\ Idle.pc = "idle"
    BY InitParts DEF Idle
  <2> QED BY <1>1, <1>13, <2>1, SetTyped DEF Return
<1> QED
  BY <1>4, <1>5, <1>6, <1>7, <1>8, <1>9, <1>10, <1>11, <1>12, <1>13 DEF CallStep

-----------------------------------------------------------------------------
(* What a step of a refresh does to the task's build *)

\* A healthy probe files the tools and the count of its skill, and no more.
LEMMA ProbeOkBuild ==
    ASSUME TypeOK, NEW p \in Proc, NEW s \in Skill, NEW T \in SUBSET Tool,
           ProbeOk(p, s, T)
    PROVE  /\ build' \in [Proc -> Build]
           /\ build'[p].manifest = build[p].manifest
           /\ build'[p].prior = build[p].prior
           /\ build'[p].todo = build[p].todo \ {s}
           /\ build'[p].tools = [build[p].tools EXCEPT ![s] = T]
           /\ build'[p].health =
                [build[p].health EXCEPT ![s] = Healthy(Cardinality(T))]
           /\ \A q \in Proc : q # p => build'[q] = build[q]
<1>1. build \in [Proc -> Build] /\ Healthy(Cardinality(T)) \in Health
  BY ToolsFinite DEF TypeOK, Healthy, Health
<1> DEFINE h == Healthy(Cardinality(T))
           b == build[p]
           b2 == [b EXCEPT !.todo = @ \ {s}, !.tools[s] = T, !.health[s] = h]
<1>2. build' = [build EXCEPT ![p] = b2]
  BY <1>1 DEF ProbeOk
<1>3. b \in Build /\ h \in Health
  BY <1>1
<1> HIDE DEF h, b
<1>4. /\ b2.manifest = b.manifest /\ b2.prior = b.prior
      /\ b2.todo = b.todo \ {s}
      /\ b2.tools = [b.tools EXCEPT ![s] = T]
      /\ b2.health = [b.health EXCEPT ![s] = h]
  BY <1>3 DEF Build
<1>5. b2 \in Build
  BY <1>3 DEF Build, ToolMap, HealthMap
<1> HIDE DEF b2
<1> QED BY <1>1, <1>2, <1>4, <1>5 DEF b, h

\* A failed probe files a Down entry with the count of the prior snapshot.
LEMMA ProbeFailsBuild ==
    ASSUME TypeOK, NEW p \in Proc, NEW s \in Skill, ProbeFails(p, s)
    PROVE  /\ build' \in [Proc -> Build]
           /\ build'[p].manifest = build[p].manifest
           /\ build'[p].prior = build[p].prior
           /\ build'[p].todo = build[p].todo \ {s}
           /\ build'[p].tools = build[p].tools
           /\ build'[p].health =
                [build[p].health EXCEPT ![s] = Down(CountIn(build[p].prior, s))]
           /\ \A q \in Proc : q # p => build'[q] = build[q]
<1>1. build \in [Proc -> Build] /\ build[p].prior \in HealthMap
  BY DEF TypeOK, Build
<1>2. Down(CountIn(build[p].prior, s)) \in Health
  BY <1>1 DEF CountIn, Down, Health, HealthMap
<1> DEFINE b == build[p]
           h == Down(CountIn(b.prior, s))
           b2 == [b EXCEPT !.todo = @ \ {s}, !.health[s] = h]
<1>3. build' = [build EXCEPT ![p] = b2]
  BY <1>1 DEF ProbeFails
<1>4. b \in Build /\ h \in Health
  BY <1>1, <1>2
<1> HIDE DEF h, b
<1>5. /\ b2.manifest = b.manifest /\ b2.prior = b.prior
      /\ b2.todo = b.todo \ {s} /\ b2.tools = b.tools
      /\ b2.health = [b.health EXCEPT ![s] = h]
  BY <1>4 DEF Build
<1>6. b2 \in Build
  BY <1>4 DEF Build, HealthMap
<1> HIDE DEF b2
<1> QED BY <1>1, <1>3, <1>5, <1>6 DEF b, h

\* A loaded manifest starts a build that is all to do.
LEMMA LoadBuild ==
    ASSUME TypeOK, NEW p \in Proc, NEW m \in Manifests, LoadRegistry(p, m)
    PROVE  /\ build' \in [Proc -> Build]
           /\ build'[p].manifest = m
           /\ build'[p].prior = snapshot.health
           /\ build'[p].todo = Active(m)
           /\ build'[p].tools = NoTools
           /\ build'[p].health = NoHealth
           /\ \A q \in Proc : q # p => build'[q] = build[q]
<1> DEFINE b2 == [NoBuild EXCEPT !.manifest = m, !.prior = snapshot.health,
                                 !.todo = Active(m)]
<1>1. build \in [Proc -> Build] /\ snapshot.health \in HealthMap /\ m \in Manifest
  BY SkillMeshAssumption DEF TypeOK, Snapshot
<1>2. build' = [build EXCEPT ![p] = b2]
  BY DEF LoadRegistry
<1>3. /\ b2.manifest = m /\ b2.prior = snapshot.health /\ b2.todo = Active(m)
      /\ b2.tools = NoTools /\ b2.health = NoHealth
  BY DEF NoBuild
<1>4. b2 \in Build
  BY <1>1, InitParts DEF NoBuild, Build, Active
<1> HIDE DEF b2
<1> QED BY <1>1, <1>2, <1>3, <1>4

-----------------------------------------------------------------------------
(* Type correctness *)

\* Moving a task to a place of RefreshPC keeps rpc a function.
LEMMA GotoTyped ==
    ASSUME TypeOK, NEW p \in Proc, NEW l \in RefreshPC, Goto(p, l)
    PROVE  /\ rpc' \in [Proc -> RefreshPC]
           /\ rpc'[p] = l
           /\ \A q \in Proc : q # p => rpc'[q] = rpc[q]
BY DEF TypeOK, Goto

\* Every step of a refreshing task leaves every variable its type.
LEMMA RefreshTyped ==
    ASSUME TypeOK, NEW p \in Proc, RefreshStep(p)
    PROVE  TypeOK'
<1> USE DEF RefreshPC
<1>1. CASE RefreshStart(p)
  BY <1>1, GotoTyped DEF RefreshStart, TypeOK
<1>2. CASE RefreshLock(p)
  BY <1>2, GotoTyped DEF RefreshLock, TypeOK
<1>3. CASE ListStart(p)
  BY <1>3, GotoTyped DEF ListStart, TypeOK
<1>4. CASE ListTryLock(p)
  BY <1>4, GotoTyped DEF ListTryLock, TypeOK
<1>5. CASE ListRecheck(p)
  BY <1>5, GotoTyped DEF ListRecheck, TypeOK
<1>6. CASE \E m \in Manifests : LoadRegistry(p, m)
  BY <1>6, GotoTyped, LoadBuild DEF LoadRegistry, TypeOK
<1>7. CASE LoadFails(p)
  BY <1>7, GotoTyped DEF LoadFails, TypeOK
<1>8. CASE \E s \in Skill, T \in SUBSET Tool : ProbeOk(p, s, T)
  <2> PICK s \in Skill, T \in SUBSET Tool : ProbeOk(p, s, T)
    BY <1>8
  <2>1. circuit' \in [Skill -> Nat]
    BY DEF ProbeOk, TypeOK
  <2>2. build' \in [Proc -> Build]
    BY ProbeOkBuild
  <2> QED BY <2>1, <2>2 DEF ProbeOk, TypeOK
<1>9. CASE \E s \in Skill : ProbeFails(p, s)
  BY <1>9, ProbeFailsBuild DEF ProbeFails, TypeOK
<1>10. CASE Publish(p)
  <2>1. snapshot' \in Snapshot
    BY <1>10 DEF Publish, TypeOK, Build, Snapshot
  <2>2. build' \in [Proc -> Build]
    BY <1>10, InitParts DEF Publish, TypeOK
  <2>3. age' \in 0 .. TTL + 1
    BY <1>10, SkillMeshAssumption DEF Publish
  <2>4. call' \in [Caller -> Call]
    BY <1>10, WitnessTyped DEF Publish, TypeOK
  <2>5. \A c \in Caller : call'[c].pc # "idle" => call'[c].skill \in Skill
    BY <1>10, WitnessTyped DEF Publish, TypeOK
  <2> QED BY <1>10, <2>1, <2>2, <2>3, <2>4, <2>5, GotoTyped DEF Publish, TypeOK
<1>11. CASE Unlock(p)
  BY <1>11, GotoTyped DEF Unlock, TypeOK
<1> QED
  BY <1>1, <1>2, <1>3, <1>4, <1>5, <1>6, <1>7, <1>8, <1>9, <1>10, <1>11
     DEF RefreshStep

\* So does every step of the mesh, the clock's included.
LEMMA NextTyped == TypeOK /\ [Next]_vars => TypeOK'
<1> SUFFICES ASSUME TypeOK, [Next]_vars PROVE TypeOK'
  OBVIOUS
<1>1. CASE Tick
  BY <1>1, SkillMeshAssumption DEF Tick, TypeOK
<1>2. CASE \E p \in Proc : RefreshStep(p)
  BY <1>2, RefreshTyped
<1>3. CASE \E c \in Caller : CallStep(c)
  BY <1>3, CallTyped
<1>4. CASE UNCHANGED vars
  BY <1>4 DEF vars, TypeOK
<1> QED BY <1>1, <1>2, <1>3, <1>4 DEF Next

\* Every variable of the mesh keeps its type through every interleaving of
\* refreshes and calls.
THEOREM TypeCorrect == Spec => []TypeOK
<1>1. Init => TypeOK
  BY InitTyped
<1>2. TypeOK /\ [Next]_vars => TypeOK'
  BY NextTyped
<1> QED BY <1>1, <1>2, PTL DEF Spec

-----------------------------------------------------------------------------
(* The inductive invariant *)

\* Nobody builds at first, and an empty snapshot is coherent.
LEMMA InitInv == Init => IInv
<1> SUFFICES ASSUME Init PROVE IInv
  OBVIOUS
<1>1. LockHeld
  BY SkillMeshAssumption DEF Init, LockHeld, Refreshing
<1>2. PriorIsCurrent /\ BuildsCoherent
  BY DEF Init, PriorIsCurrent, BuildsCoherent
<1>3. SnapshotConsistent
  BY DEF Init, SnapshotConsistent, Cycle!Coherent, NoManifest, NoHealth, NoTools
<1> QED BY <1>1, <1>2, <1>3, InitTyped DEF IInv

\* Tasks that do not hold the lock stay out of the refreshing places, and the
\* holder stays in them until it drops the lock.
LEMMA LockStep ==
    ASSUME TypeOK, LockHeld, NEW p \in Proc, RefreshStep(p)
    PROVE  LockHeld'
<1> USE DEF LockHeld, Refreshing, RefreshPC
<1>1. CASE RefreshStart(p)
  BY <1>1, GotoTyped DEF RefreshStart
<1>2. CASE RefreshLock(p)
  BY <1>2, GotoTyped, SkillMeshAssumption DEF RefreshLock
<1>3. CASE ListStart(p)
  BY <1>3, GotoTyped DEF ListStart
<1>4. CASE ListTryLock(p)
  <2>1. CASE refresh_lock = Nobody
    BY <1>4, <2>1, GotoTyped, SkillMeshAssumption DEF ListTryLock
  <2>2. CASE refresh_lock # Nobody
    BY <1>4, <2>2, GotoTyped DEF ListTryLock
  <2> QED BY <2>1, <2>2
<1>5. CASE ListRecheck(p)
  BY <1>5, GotoTyped DEF ListRecheck
<1>6. CASE \E m \in Manifests : LoadRegistry(p, m)
  BY <1>6, GotoTyped DEF LoadRegistry
<1>7. CASE LoadFails(p)
  BY <1>7, GotoTyped DEF LoadFails
<1>8. CASE \E s \in Skill, T \in SUBSET Tool : ProbeOk(p, s, T)
  BY <1>8 DEF ProbeOk
<1>9. CASE \E s \in Skill : ProbeFails(p, s)
  BY <1>9 DEF ProbeFails
<1>10. CASE Publish(p)
  BY <1>10, GotoTyped DEF Publish
<1>11. CASE Unlock(p)
  BY <1>11, GotoTyped, SkillMeshAssumption DEF Unlock
<1> QED
  BY <1>1, <1>2, <1>3, <1>4, <1>5, <1>6, <1>7, <1>8, <1>9, <1>10, <1>11
     DEF RefreshStep

\* Only one task probes at a time, and it is the one that may publish.
LEMMA OneProbes ==
    ASSUME LockHeld, NEW p \in Proc, NEW q \in Proc,
           Refreshing(p), Refreshing(q)
    PROVE  p = q
BY DEF LockHeld

\* A healthy probe leaves the build coherent: the count is that of the tools.
LEMMA ProbeOkCoherent ==
    ASSUME TypeOK, NEW p \in Proc, NEW s \in Skill, NEW T \in SUBSET Tool,
           ProbeOk(p, s, T), BuildCoherent(build[p])
    PROVE  BuildCoherent(build'[p])
<1> DEFINE b == build[p]
           d == build'[p]
           h == Healthy(Cardinality(T))
<1>1. /\ d.manifest = b.manifest /\ d.prior = b.prior /\ d.todo = b.todo \ {s}
      /\ d.tools = [b.tools EXCEPT ![s] = T]
      /\ d.health = [b.health EXCEPT ![s] = h]
  BY ProbeOkBuild
<1>2. b \in Build /\ BuildCoherent(b) /\ s \in b.todo
  BY DEF TypeOK, ProbeOk
<1>3. h # Absent
  BY ToolsFinite, SkillMeshAssumption DEF Healthy, Health
<1>4. /\ d.tools[s] = T /\ d.health[s] = h
      /\ \A t \in Skill : t # s => d.tools[t] = b.tools[t] /\ d.health[t] = b.health[t]
  BY <1>1, <1>2 DEF Build, ToolMap, HealthMap
<1> HIDE DEF b, d
<1>5. d.todo \subseteq Active(d.manifest)
  BY <1>1, <1>2 DEF BuildCoherent
<1>6. ASSUME NEW t \in Skill
      PROVE  /\ d.health[t] = Absent <=> d.manifest[t] = Absent \/ t \in d.todo
             /\ d.health[t] = Absent => d.tools[t] = {}
             /\ d.health[t] # Absent =>
                  \/ d.health[t] = Healthy(Cardinality(d.tools[t]))
                  \/ d.health[t] = Down(CountIn(d.prior, t)) /\ d.tools[t] = {}
  <2>1. CASE t = s
    BY <1>1, <1>2, <1>3, <1>4, <2>1 DEF BuildCoherent, Active
  <2>2. CASE t # s
    BY <1>1, <1>2, <1>4, <2>2 DEF BuildCoherent
  <2> QED BY <2>1, <2>2
<1> QED BY <1>5, <1>6 DEF BuildCoherent, d

\* A failed probe leaves the build coherent: nothing is listed for the skill.
LEMMA ProbeFailsCoherent ==
    ASSUME TypeOK, NEW p \in Proc, NEW s \in Skill,
           ProbeFails(p, s), BuildCoherent(build[p])
    PROVE  BuildCoherent(build'[p])
<1> DEFINE b == build[p]
           d == build'[p]
           h == Down(CountIn(b.prior, s))
<1>1. /\ d.manifest = b.manifest /\ d.prior = b.prior /\ d.todo = b.todo \ {s}
      /\ d.tools = b.tools
      /\ d.health = [b.health EXCEPT ![s] = h]
  BY ProbeFailsBuild
<1>2. b \in Build /\ BuildCoherent(b) /\ s \in b.todo
  BY DEF TypeOK, ProbeFails
<1>3. h \in Health
  BY <1>2 DEF CountIn, Down, Health, HealthMap, Build
<1>4. h # Absent
  BY <1>3, SkillMeshAssumption
<1>5. /\ d.health[s] = h
      /\ \A t \in Skill : t # s => d.health[t] = b.health[t]
  BY <1>1, <1>2 DEF Build, HealthMap
<1>6. b.tools[s] = {}
  BY <1>2 DEF BuildCoherent
<1>7. h = Down(CountIn(d.prior, s))
  BY <1>1
<1> HIDE DEF b, d, h
<1>8. d.todo \subseteq Active(d.manifest)
  BY <1>1, <1>2 DEF BuildCoherent
<1>9. ASSUME NEW t \in Skill
      PROVE  /\ d.health[t] = Absent <=> d.manifest[t] = Absent \/ t \in d.todo
             /\ d.health[t] = Absent => d.tools[t] = {}
             /\ d.health[t] # Absent =>
                  \/ d.health[t] = Healthy(Cardinality(d.tools[t]))
                  \/ d.health[t] = Down(CountIn(d.prior, t)) /\ d.tools[t] = {}
  <2>1. CASE t = s
    BY <1>1, <1>2, <1>4, <1>5, <1>6, <1>7, <2>1 DEF BuildCoherent, Active
  <2>2. CASE t # s
    BY <1>1, <1>2, <1>5, <2>2 DEF BuildCoherent
  <2> QED BY <2>1, <2>2
<1> QED BY <1>8, <1>9 DEF BuildCoherent, d

\* A finished build is coherent, and its Down entries carry the counts of the
\* snapshot it replaces, for that is still the prior it captured.
LEMMA PublishCoherent ==
    ASSUME IInv, NEW p \in Proc, Publish(p)
    PROVE  /\ snapshot'.refreshed
           /\ Cycle!Coherent(snapshot')
           /\ Cycle!CarriesCounts(snapshot, snapshot')
<1> DEFINE b == build[p]
<1>1. /\ BuildCoherent(b) /\ b.todo = {} /\ b.prior = snapshot.health
      /\ b \in Build
  BY DEF IInv, BuildsCoherent, PriorIsCurrent, Publish, TypeOK
<1>2. /\ snapshot'.manifest = b.manifest /\ snapshot'.aggregated_tools = b.tools
      /\ snapshot'.health = b.health /\ snapshot'.refreshed
  BY DEF Publish
<1> HIDE DEF b
<1>3. ASSUME NEW s \in Skill, b.health[s] # Absent
      PROVE  \/ /\ b.health[s].status = "healthy"
                /\ b.health[s].tools_count = Cardinality(b.tools[s])
             \/ /\ b.health[s].status = "down"
                /\ b.health[s].tools_count = CountIn(snapshot.health, s)
                /\ b.tools[s] = {}
  <2>1. \/ b.health[s] = Healthy(Cardinality(b.tools[s]))
        \/ b.health[s] = Down(CountIn(b.prior, s)) /\ b.tools[s] = {}
    BY <1>1, <1>3 DEF BuildCoherent
  <2>2. CASE b.health[s] = Healthy(Cardinality(b.tools[s]))
    BY <2>2 DEF Healthy
  <2>3. CASE b.health[s] = Down(CountIn(b.prior, s)) /\ b.tools[s] = {}
    BY <1>1, <2>3 DEF Down
  <2> QED BY <2>1, <2>2, <2>3
<1>4. Cycle!Coherent(snapshot')
  <2>1. \A s \in Skill :
          /\ b.health[s] = Absent <=> b.manifest[s] = Absent
          /\ b.health[s] = Absent => b.tools[s] = {}
    BY <1>1 DEF BuildCoherent
  <2> QED BY <1>2, <1>3, <2>1 DEF Cycle!Coherent
<1>5. Cycle!CarriesCounts(snapshot, snapshot')
  BY <1>2, <1>3 DEF Cycle!CarriesCounts, CountIn
<1> QED BY <1>2, <1>4, <1>5

\* Steps other than Publish leave the snapshot, and other than the four that
\* work on a build leave every build.
LEMMA RefreshInv ==
    ASSUME IInv, NEW p \in Proc, RefreshStep(p)
    PROVE  IInv'
<1>1. TypeOK /\ TypeOK' /\ LockHeld /\ LockHeld'
  BY RefreshTyped, LockStep DEF IInv
<1>2. PriorIsCurrent /\ BuildsCoherent /\ SnapshotConsistent
  BY DEF IInv
<1>3. ASSUME UNCHANGED <<snapshot, build>>,
             \A q \in Proc : rpc'[q] = "probe" => rpc[q] = "probe"
      PROVE  PriorIsCurrent' /\ BuildsCoherent' /\ SnapshotConsistent'
  BY <1>2, <1>3 DEF PriorIsCurrent, BuildsCoherent, BuildCoherent,
                    SnapshotConsistent, Cycle!Coherent
<1>4. CASE RefreshStart(p) \/ RefreshLock(p) \/ ListStart(p) \/ ListRecheck(p)
             \/ LoadFails(p) \/ Unlock(p)
  <2>1. UNCHANGED <<snapshot, build>>
    BY <1>4 DEF RefreshStart, RefreshLock, ListStart, ListRecheck, LoadFails, Unlock
  <2>2. \A q \in Proc : rpc'[q] = "probe" => rpc[q] = "probe"
    BY <1>1, <1>4 DEF RefreshStart, RefreshLock, ListStart, ListRecheck,
                      LoadFails, Unlock, Goto, TypeOK
  <2> QED BY <1>1, <1>3, <2>1, <2>2 DEF IInv
<1>5. CASE ListTryLock(p)
  <2>1. UNCHANGED <<snapshot, build>>
    BY <1>5 DEF ListTryLock
  <2>2. \A q \in Proc : rpc'[q] = "probe" => rpc[q] = "probe"
    BY <1>1, <1>5 DEF ListTryLock, Goto, TypeOK
  <2> QED BY <1>1, <1>3, <2>1, <2>2 DEF IInv
<1>6. CASE \E m \in Manifests : LoadRegistry(p, m)
  <2> PICK m \in Manifests : LoadRegistry(p, m)
    BY <1>6
  <2>1. UNCHANGED snapshot /\ \A q \in Proc : q # p => rpc'[q] = rpc[q]
    BY <1>1 DEF LoadRegistry, Goto, TypeOK
  <2>2. PriorIsCurrent'
    BY <1>1, <1>2, <2>1, LoadBuild DEF PriorIsCurrent
  <2>3. BuildCoherent(build'[p])
    BY <1>1, LoadBuild DEF BuildCoherent, Active, NoHealth, NoTools
  <2>4. BuildsCoherent'
    BY <1>1, <1>2, <2>1, <2>3, LoadBuild DEF BuildsCoherent, BuildCoherent
  <2>5. SnapshotConsistent'
    BY <1>2, <2>1 DEF SnapshotConsistent, Cycle!Coherent
  <2> QED BY <1>1, <2>2, <2>4, <2>5 DEF IInv
<1>7. CASE \E s \in Skill, T \in SUBSET Tool : ProbeOk(p, s, T)
  <2> PICK s \in Skill, T \in SUBSET Tool : ProbeOk(p, s, T)
    BY <1>7
  <2>1. UNCHANGED <<snapshot, rpc>> /\ rpc[p] = "probe"
    BY DEF ProbeOk
  <2>2. PriorIsCurrent'
    BY <1>1, <1>2, <2>1, ProbeOkBuild DEF PriorIsCurrent
  <2>3. BuildCoherent(build'[p])
    BY <1>1, <1>2, <2>1, ProbeOkCoherent DEF BuildsCoherent
  <2>4. BuildsCoherent'
    <3>1. \A q \in Proc : rpc[q] = "probe" => BuildCoherent(build'[q])
      BY <1>1, <1>2, <2>1, <2>3, ProbeOkBuild DEF BuildsCoherent
    <3> QED BY <2>1, <3>1 DEF BuildsCoherent, BuildCoherent
  <2>5. SnapshotConsistent'
    BY <1>2, <2>1 DEF SnapshotConsistent, Cycle!Coherent
  <2> QED BY <1>1, <2>2, <2>4, <2>5 DEF IInv
<1>8. CASE \E s \in Skill : ProbeFails(p, s)
  <2> PICK s \in Skill : ProbeFails(p, s)
    BY <1>8
  <2>1. UNCHANGED <<snapshot, rpc>> /\ rpc[p] = "probe"
    BY DEF ProbeFails
  <2>2. PriorIsCurrent'
    BY <1>1, <1>2, <2>1, ProbeFailsBuild DEF PriorIsCurrent
  <2>3. BuildCoherent(build'[p])
    BY <1>1, <1>2, <2>1, ProbeFailsCoherent DEF BuildsCoherent
  <2>4. BuildsCoherent'
    <3>1. \A q \in Proc : rpc[q] = "probe" => BuildCoherent(build'[q])
      BY <1>1, <1>2, <2>1, <2>3, ProbeFailsBuild DEF BuildsCoherent
    <3> QED BY <2>1, <3>1 DEF BuildsCoherent, BuildCoherent
  <2>5. SnapshotConsistent'
    BY <1>2, <2>1 DEF SnapshotConsistent, Cycle!Coherent
  <2> QED BY <1>1, <2>2, <2>4, <2>5 DEF IInv
<1>9. CASE Publish(p)
  <2>1. \A q \in Proc : rpc'[q] # "probe"
    BY <1>1, <1>9, OneProbes DEF Publish, Goto, TypeOK, Refreshing
  <2>2. PriorIsCurrent' /\ BuildsCoherent'
    BY <2>1 DEF PriorIsCurrent, BuildsCoherent
  <2>3. SnapshotConsistent'
    BY <1>9, PublishCoherent DEF SnapshotConsistent, Cycle!Coherent
  <2> QED BY <1>1, <2>2, <2>3 DEF IInv
<1> QED BY <1>4, <1>5, <1>6, <1>7, <1>8, <1>9 DEF RefreshStep

\* Ticks, calls and stuttering leave everything the invariant speaks of.
LEMMA QuietInv ==
    ASSUME IInv, TypeOK', UNCHANGED <<snapshot, refresh_lock, rpc, build>>
    PROVE  IInv'
BY DEF IInv, LockHeld, Refreshing, PriorIsCurrent, BuildsCoherent, BuildCoherent,
       SnapshotConsistent, Cycle!Coherent

\* Every step preserves the inductive invariant.
LEMMA NextInv == IInv /\ [Next]_vars => IInv'
<1> SUFFICES ASSUME IInv, [Next]_vars PROVE IInv'
  OBVIOUS
<1>1. TypeOK'
  BY NextTyped DEF IInv
<1>2. CASE Tick
  BY <1>1, <1>2, QuietInv DEF Tick
<1>3. CASE \E p \in Proc : RefreshStep(p)
  BY <1>3, RefreshInv
<1>4. CASE \E c \in Caller : CallStep(c)
  BY <1>1, <1>4, CallsLeaveMesh, QuietInv DEF meshVars
<1>5. CASE UNCHANGED vars
  BY <1>1, <1>5, QuietInv DEF vars
<1> QED BY <1>2, <1>3, <1>4, <1>5 DEF Next

\* The invariant that ties the lock, the builds and the snapshot together
\* holds in every reachable state.
THEOREM Invariant == Spec => []IInv
BY InitInv, NextInv, PTL DEF Spec

-----------------------------------------------------------------------------
(* Safety of the refreshes *)

\* Background, explicit and lazy refreshes never overlap.
THEOREM MutualExclusion == Spec => []RefreshMutex
<1>1. IInv => RefreshMutex
  BY DEF IInv, LockHeld, RefreshMutex
<1> QED BY <1>1, Invariant, PTL

\* The counts a refresh carries forward are those of the snapshot it replaces,
\* however long its probes take.
THEOREM PriorStaysCurrent == Spec => []PriorIsCurrent
<1>1. IInv => PriorIsCurrent
  BY DEF IInv
<1> QED BY <1>1, Invariant, PTL

\* Readers of the snapshot see a manifest, a list and a health that agree.
THEOREM Consistency == Spec => []SnapshotConsistent
<1>1. IInv => SnapshotConsistent
  BY DEF IInv
<1> QED BY <1>1, Invariant, PTL

\* The only step that writes the snapshot is Publish.
LEMMA OnlyPublishWrites ==
    ASSUME NEW p \in Proc, RefreshStep(p), ~Publish(p)
    PROVE  UNCHANGED snapshot
BY DEF RefreshStep, RefreshStart, RefreshLock, ListStart, ListTryLock,
       ListRecheck, LoadRegistry, LoadFails, ProbeOk, ProbeFails, Unlock

\* A refresh moves the phase along the cycle.
LEMMA RefreshCycles ==
    ASSUME IInv, NEW p \in Proc, RefreshStep(p)
    PROVE  Cycle!Next \/ UNCHANGED <<snapshot, phase>>
<1>1. /\ TypeOK /\ LockHeld /\ Nobody \notin Proc
      /\ Refreshing(p) <=> refresh_lock = p
  BY SkillMeshAssumption DEF IInv, LockHeld
<1> USE DEF phase, Refreshing, RefreshPC
<1>2. CASE RefreshStart(p)
  <2>1. refresh_lock # p /\ UNCHANGED <<snapshot, refresh_lock>>
    BY <1>1, <1>2 DEF RefreshStart
  <2> QED BY <1>1, <1>2, <2>1, GotoTyped DEF RefreshStart, TypeOK
<1>3. CASE RefreshLock(p)
  <2>1. phase = "free" /\ phase' = "working" /\ UNCHANGED snapshot
    BY <1>1, <1>3, GotoTyped DEF RefreshLock
  <2> QED BY <2>1 DEF Cycle!Next, Cycle!Begin
<1>4. CASE ListStart(p)
  <2>1. refresh_lock # p /\ UNCHANGED <<snapshot, refresh_lock>>
    BY <1>1, <1>4 DEF ListStart
  <2> QED BY <1>1, <1>4, <2>1, GotoTyped DEF ListStart, TypeOK
<1>5. CASE ListTryLock(p)
  <2>1. CASE refresh_lock = Nobody
    <3>1. phase = "free" /\ phase' = "working" /\ UNCHANGED snapshot
      BY <1>1, <1>5, <2>1, GotoTyped DEF ListTryLock
    <3> QED BY <3>1 DEF Cycle!Next, Cycle!Begin
  <2>2. CASE refresh_lock # Nobody
    <3>1. refresh_lock # p /\ UNCHANGED <<snapshot, refresh_lock>>
      BY <1>1, <1>5, <2>2 DEF ListTryLock
    <3> QED BY <1>1, <1>5, <2>2, <3>1, GotoTyped DEF ListTryLock, TypeOK
  <2> QED BY <2>1, <2>2
<1>6. CASE ListRecheck(p)
  <2>1. refresh_lock = p /\ UNCHANGED <<snapshot, refresh_lock>> /\ phase = "working"
    BY <1>1, <1>6 DEF ListRecheck
  <2>2. CASE snapshot_is_stale
    BY <1>1, <1>6, <2>1, <2>2, GotoTyped DEF ListRecheck
  <2>3. CASE ~snapshot_is_stale
    <3>1. phase' = "done"
      BY <1>1, <1>6, <2>1, <2>3, GotoTyped DEF ListRecheck
    <3> QED BY <2>1, <3>1 DEF Cycle!Next, Cycle!Keep
  <2> QED BY <2>2, <2>3
<1>7. CASE \E m \in Manifests : LoadRegistry(p, m)
  BY <1>1, <1>7, GotoTyped DEF LoadRegistry
<1>8. CASE LoadFails(p)
  <2>1. phase = "working" /\ phase' = "done" /\ UNCHANGED snapshot
    BY <1>1, <1>8, GotoTyped DEF LoadFails
  <2> QED BY <2>1 DEF Cycle!Next, Cycle!Keep
<1>9. CASE \E s \in Skill, T \in SUBSET Tool : ProbeOk(p, s, T)
  BY <1>9 DEF ProbeOk
<1>10. CASE \E s \in Skill : ProbeFails(p, s)
  BY <1>10 DEF ProbeFails
<1>11. CASE Publish(p)
  <2>1. phase = "working" /\ phase' = "done"
    BY <1>1, <1>11, GotoTyped DEF Publish
  <2> QED BY <1>11, <2>1, PublishCoherent DEF Cycle!Next, Cycle!Replace
<1>12. CASE Unlock(p)
  <2>1. phase = "done" /\ phase' = "free" /\ UNCHANGED snapshot
    BY <1>1, <1>12, GotoTyped DEF Unlock
  <2> QED BY <2>1 DEF Cycle!Next, Cycle!End
<1> QED
  BY <1>2, <1>3, <1>4, <1>5, <1>6, <1>7, <1>8, <1>9, <1>10, <1>11, <1>12
     DEF RefreshStep

\* Every step of the mesh is a step of the cycle or leaves it alone.
LEMMA NextCycles == IInv /\ [Next]_vars => [Cycle!Next]_<<snapshot, phase>>
<1> SUFFICES ASSUME IInv, [Next]_vars
             PROVE  Cycle!Next \/ UNCHANGED <<snapshot, phase>>
  OBVIOUS
<1>1. CASE Tick
  BY <1>1 DEF Tick, phase
<1>2. CASE \E p \in Proc : RefreshStep(p)
  BY <1>2, RefreshCycles
<1>3. CASE \E c \in Caller : CallStep(c)
  BY <1>3, CallsLeaveMesh DEF meshVars, phase
<1>4. CASE UNCHANGED vars
  BY <1>4 DEF vars, phase
<1> QED BY <1>1, <1>2, <1>3, <1>4 DEF Next

\* The mesh implements the refresh cycle its readers rely on.
THEOREM Refinement == Spec => RefreshesInCycles
<1>1. Init => Cycle!Init
  BY DEF Init, Cycle!Init, phase, NoManifest, NoTools, NoHealth
<1>2. IInv /\ [Next]_vars => [Cycle!Next]_<<snapshot, phase>>
  BY NextCycles
<1> QED
  BY <1>1, <1>2, Invariant, PTL
     DEF Spec, RefreshesInCycles, Cycle!Spec, Cycle!cycleVars

\* A skill that is Down after a refresh shows the count it had before.
THEOREM CountsCarried == Spec => CountCarriedForward
<1>1. IInv /\ [Next]_vars => [Cycle!CarriesCounts(snapshot, snapshot')]_snapshot
  <2> SUFFICES ASSUME IInv, [Next]_vars, snapshot' # snapshot
               PROVE  Cycle!CarriesCounts(snapshot, snapshot')
    OBVIOUS
  <2>1. PICK p \in Proc : RefreshStep(p)
    BY CallsLeaveMesh DEF Next, Tick, vars, meshVars
  <2>2. Publish(p)
    BY <2>1, OnlyPublishWrites
  <2> QED BY <2>2, PublishCoherent
<1> QED BY <1>1, Invariant, PTL DEF Spec, CountCarriedForward

\* From asking the registry to publishing, a tools/list works on a snapshot that
\* is stale: while it holds the lock nobody else publishes a fresh one.
THEOREM LazyRefreshNeeded == Spec => []NoRedundantLazyRefresh
<1>1. Init => NoRedundantLazyRefresh
  BY DEF Init, NoRedundantLazyRefresh, Proc
<1>2. IInv /\ NoRedundantLazyRefresh /\ [Next]_vars => NoRedundantLazyRefresh'
  <2> SUFFICES ASSUME IInv, NoRedundantLazyRefresh, [Next]_vars,
                      NEW p \in Lister, rpc'[p] \in {"load", "probe"}
               PROVE  snapshot_is_stale'
    BY DEF NoRedundantLazyRefresh
  <2>1. p \in Proc /\ p \notin Refresher /\ TypeOK /\ LockHeld
    BY SkillMeshAssumption DEF Proc, IInv
  <2>2. rpc[p] \in {"load", "probe"} => snapshot_is_stale
    BY DEF NoRedundantLazyRefresh
  <2>3. CASE Tick
    <3>1. age \in Nat /\ TTL \in Nat
      BY <2>1, SkillMeshAssumption DEF TypeOK
    <3> QED BY <2>2, <2>3, <3>1 DEF Tick, snapshot_is_stale
  <2>4. CASE \E q \in Proc : RefreshStep(q)
    <3> PICK q \in Proc : RefreshStep(q)
      BY <2>4
    <3>1. CASE Publish(q)
      <4>1. q # p /\ rpc[p] \in {"load", "probe"}
        BY <2>1, <3>1 DEF Publish, Goto, TypeOK
      <4>2. Refreshing(p) /\ Refreshing(q)
        BY <3>1, <4>1 DEF Publish, Refreshing
      <4> QED BY <2>1, <4>1, <4>2 DEF LockHeld
    <3>2. CASE ~Publish(q)
      <4>1. UNCHANGED <<snapshot, age>>
        BY <3>2 DEF RefreshStep, RefreshStart, RefreshLock, ListStart,
           ListTryLock, ListRecheck, LoadRegistry, LoadFails, ProbeOk,
           ProbeFails, Unlock
      <4>2. snapshot_is_stale' = snapshot_is_stale
        BY <4>1 DEF snapshot_is_stale
      <4>3. CASE rpc[p] \in {"load", "probe"}
        BY <2>2, <4>2, <4>3
      <4>4. CASE rpc[p] \notin {"load", "probe"}
        <5>1. CASE ListRecheck(q)
          BY <2>1, <4>2, <4>4, <5>1 DEF ListRecheck, Goto, TypeOK
        <5>2. CASE ~ListRecheck(q)
          BY <2>1, <3>2, <4>4, <5>2
             DEF RefreshStep, RefreshStart, RefreshLock, ListStart, ListTryLock,
                 LoadRegistry, LoadFails, ProbeOk, ProbeFails, Unlock, Goto, TypeOK
        <5> QED BY <5>1, <5>2
      <4> QED BY <4>3, <4>4
    <3> QED BY <3>1, <3>2
  <2>5. CASE \E c \in Caller : CallStep(c)
    <3>1. UNCHANGED meshVars
      BY <2>5, CallsLeaveMesh
    <3> QED BY <2>2, <3>1 DEF meshVars, snapshot_is_stale
  <2>6. CASE UNCHANGED vars
    BY <2>2, <2>6 DEF vars, snapshot_is_stale
  <2> QED BY <2>3, <2>4, <2>5, <2>6 DEF Next
<1> QED BY <1>1, <1>2, Invariant, PTL DEF Spec

-----------------------------------------------------------------------------
(* Safety of the calls *)

\* No call runs at first.
LEMMA InitCalls == Init => CallInv
BY DEF Init, CallInv, Idle, NoEntry

\* Only the caller's own steps touch its record.
LEMMA CallInvStep ==
    ASSUME IInv, CallInv, NEW c \in Caller, CallStep(c)
    PROVE  CallInv'
<1> DEFINE r == call[c]
           q == call'[c]
<1>1. /\ TypeOK /\ SnapshotConsistent
      /\ r \in Call /\ r.entry.image \in BOOLEAN /\ r.sent \in Nat
      /\ r.pc # "idle" => r.skill \in Skill
      /\ snapshot.manifest \in Manifest /\ snapshot' = snapshot
  BY CallsLeaveMesh DEF IInv, TypeOK, Call, Entry, Snapshot, meshVars
<1>2. \A d \in Caller : d # c => call'[d] = call[d]
  BY <1>1 DEF TypeOK, CallStep, Dispatch, OpenStream, OpenPost, Resolve, Decide,
              LocalFirst, PostOk, PostFails, LocalAfter, Return, Advance,
              NoToken, Finish, Decided, Set
<1> DEFINE P(x) ==
      /\ x.pc \notin {"local_after", "done"} => x.result = "none"
      /\ x.pc \notin {"http", "local_after", "done"} => x.sent = 0
      /\ x.pc \in {"decide", "local_first", "http", "local_after"}
           => x.health # Absent
      /\ x.pc \in {"local_first", "local_after"} => x.entry.image
      /\ x.pc = "http" => x.sent <= IF x.entry.image THEN 1 ELSE 0
      /\ x.pc = "local_after" => x.sent <= 2 /\ x.result # "unreachable"
      /\ x.sent <= IF x.entry.image THEN 3 ELSE 1
      /\ x.pc = "resolve" /\ HttpOnlyDown(snapshot, x.skill) => x.down_seen
      /\ x.pc = "decide" /\ ~x.entry.image /\ x.health.status = "down"
           => x.down_seen
      /\ x.result = "unreachable" => x.down_seen
<1>3. P(r)
  BY DEF CallInv
<1>4. SUFFICES P(q)
  <2>1. \A x : HttpOnlyDown(snapshot', x) = HttpOnlyDown(snapshot, x)
    BY <1>1
  <2> QED BY <1>2, <2>1 DEF CallInv
<1>5. ASSUME NEW l \in CallPC, NEW x \in Result, NEW n \in Nat, Advance(c, l, x, n)
      PROVE  /\ q.pc = l /\ q.result = x /\ q.sent = r.sent + n
             /\ q.entry = r.entry /\ q.health = r.health
             /\ q.down_seen = r.down_seen
  BY <1>1, <1>5 DEF Advance, Set, TypeOK, Call
<1>6. ASSUME NEW l \in CallPC, NoToken(c, l)
      PROVE  /\ q.pc = l /\ q.result = "auth_error" /\ q.sent = r.sent
             /\ q.entry = r.entry /\ q.health = r.health
             /\ q.down_seen = r.down_seen
  BY <1>1, <1>6 DEF NoToken, Set, TypeOK, Call
<1>7. ASSUME NEW x \in Result, Finish(c, x)
      PROVE  /\ q.pc = "done" /\ q.result = x /\ q.sent = r.sent
             /\ q.entry = r.entry /\ q.health = r.health
             /\ q.down_seen = r.down_seen
  BY <1>1, <1>7 DEF Finish, Set, TypeOK, Call
<1>8. CASE \E s \in Skill : Dispatch(c, s)
  <2>1. /\ q.pc \in {"open", "resolve"} /\ q.result = "none" /\ q.sent = 0
        /\ ~q.entry.image
    BY <1>1, <1>8 DEF Dispatch, Set, Idle, NoEntry, TypeOK
  <2>2. q.pc = "resolve" /\ HttpOnlyDown(snapshot, q.skill) => q.down_seen
    BY <1>1, <1>8 DEF Dispatch, Set, Idle, TypeOK
  <2> QED BY <2>1, <2>2
<1>9. CASE Return(c)
  <2>1. q = Idle
    BY <1>1, <1>9 DEF Return, Set, TypeOK
  <2> QED BY <2>1 DEF Idle, NoEntry
<1>10. CASE OpenStream(c)
  <2>1. r.pc = "open"
    BY <1>10 DEF OpenStream
  <2>2. CASE Finish(c, "not_found") \/ Finish(c, "streaming_not_enabled")
    BY <1>3, <1>7, <2>1, <2>2 DEF Result
  <2>3. CASE Set(c, [r EXCEPT !.pc = "open_post",
                              !.entry = snapshot.manifest[r.skill]])
    <3>1. q.pc = "open_post" /\ q.result = r.result /\ q.sent = r.sent
      BY <1>1, <2>3 DEF Set, TypeOK, Call
    <3> QED BY <1>3, <2>1, <3>1
  <2> QED BY <1>10, <2>2, <2>3 DEF OpenStream
<1>11. CASE OpenPost(c)
  <2>1. r.pc = "open_post"
    BY <1>11 DEF OpenPost
  <2>2. /\ q.pc = "done" /\ q.result \in {"stream", "http_error", "auth_error"}
        /\ q.sent \in Nat /\ q.sent <= r.sent + 1
        /\ q.entry = r.entry /\ q.health = r.health
    <3>1. CASE Advance(c, "done", "stream", 1)
      BY <1>1, <1>5, <3>1 DEF CallPC, Result
    <3>2. CASE \E n \in 0 .. 1 : Advance(c, "done", "http_error", n)
      BY <1>1, <1>5, <3>2 DEF CallPC, Result
    <3>3. CASE NoToken(c, "done")
      BY <1>1, <1>6, <3>3 DEF CallPC
    <3> QED BY <1>11, <3>1, <3>2, <3>3 DEF OpenPost
  <2>3. r.sent = 0
    BY <1>3, <2>1
  <2> QED BY <1>1, <2>2, <2>3
<1>12. CASE Resolve(c)
  <2>1. r.pc = "resolve" /\ r.skill \in Skill
    BY <1>1, <1>12 DEF Resolve
  <2>2. CASE snapshot.manifest[r.skill] = Absent
    BY <1>3, <1>7, <1>12, <2>1, <2>2 DEF Resolve, Result
  <2>3. CASE snapshot.manifest[r.skill] # Absent
    <3>1. Set(c, [r EXCEPT !.pc = "decide",
                           !.entry = snapshot.manifest[r.skill],
                           !.health = snapshot.health[r.skill]])
      BY <1>12, <2>3 DEF Resolve
    <3>2. /\ q.pc = "decide" /\ q.result = r.result /\ q.sent = r.sent
          /\ q.entry = snapshot.manifest[r.skill]
          /\ q.health = snapshot.health[r.skill]
          /\ q.down_seen = r.down_seen
      BY <1>1, <3>1 DEF Set, TypeOK, Call
    <3>3. snapshot.health[r.skill] # Absent
      BY <1>1, <2>1, <2>3 DEF SnapshotConsistent, Cycle!Coherent
    <3>4. ~q.entry.image /\ q.health.status = "down" => q.down_seen
      BY <1>3, <2>1, <2>3, <3>2, <3>3 DEF HttpOnlyDown
    <3> QED BY <1>3, <2>1, <3>2, <3>3, <3>4
  <2> QED BY <2>2, <2>3
<1>13. CASE Decide(c)
  <2> DEFINE open == breaker_is_open(r.skill)
             down == r.health # Absent /\ r.health.status = "down"
  <2>1. r.pc = "decide" /\ r.health # Absent
    BY <1>3, <1>13 DEF Decide
  <2>2. CASE open /\ r.entry.image
    <3>1. Set(c, [r EXCEPT !.pc = "local_first", !.down_seen = FALSE])
      BY <1>13, <2>2 DEF Decide, Decided
    <3>2. /\ q.pc = "local_first" /\ q.result = r.result /\ q.sent = r.sent
          /\ q.entry = r.entry /\ q.health = r.health
      BY <1>1, <3>1 DEF Set, TypeOK, Call
    <3> QED BY <1>3, <2>1, <2>2, <3>2
  <2>3. CASE ~(open /\ r.entry.image) /\ ~r.entry.image /\ down
    <3>1. Finish(c, "unreachable")
      BY <1>13, <2>3 DEF Decide
    <3> QED BY <1>3, <1>7, <2>1, <2>3, <3>1 DEF Result
  <2>4. CASE ~(open /\ r.entry.image) /\ ~(~r.entry.image /\ down)
    <3>1. Set(c, [r EXCEPT !.pc = "http", !.down_seen = FALSE])
      BY <1>13, <2>4 DEF Decide, Decided
    <3>2. /\ q.pc = "http" /\ q.result = r.result /\ q.sent = r.sent
          /\ q.entry = r.entry /\ q.health = r.health
      BY <1>1, <3>1 DEF Set, TypeOK, Call
    <3> QED BY <1>3, <2>1, <3>2
  <2> QED BY <2>2, <2>3, <2>4
<1>14. CASE LocalFirst(c)
  <2>1. r.pc = "local_first"
    BY <1>14 DEF LocalFirst
  <2>2. /\ q.pc \in {"done", "http"} /\ q.result \in {"local", r.result}
        /\ q.sent \in Nat /\ q.sent <= 1
        /\ q.entry = r.entry /\ q.health = r.health
        /\ q.pc = "http" => q.result = r.result
    <3>1. r.sent = 0 /\ r.result = "none"
      BY <1>3, <2>1
    <3>2. CASE Advance(c, "done", "local", 1)
      BY <1>5, <3>1, <3>2 DEF CallPC, Result
    <3>3. CASE \E n \in 0 .. 1 : Advance(c, "http", r.result, n)
      BY <1>5, <3>1, <3>3 DEF CallPC, Result
    <3> QED BY <1>14, <3>2, <3>3 DEF LocalFirst
  <2> QED BY <1>3, <2>1, <2>2
<1>15. CASE PostOk(c)
  <2>1. r.pc = "http"
    BY <1>15 DEF PostOk
  <2>2. PICK x \in {"ok", "skill_error"} : Advance(c, "done", x, 1)
    BY <1>15 DEF PostOk
  <2>3. /\ q.pc = "done" /\ q.result = x /\ q.sent = r.sent + 1
        /\ q.entry = r.entry /\ q.health = r.health
    BY <1>5, <2>2 DEF Result, CallPC
  <2> QED BY <1>1, <1>3, <2>1, <2>3
<1>16. CASE PostFails(c)
  <2> DEFINE next == IF r.entry.image THEN "local_after" ELSE "done"
  <2>1. r.pc = "http"
    BY <1>16 DEF PostFails
  <2>2. /\ q.pc = next /\ q.result \in {"http_error", "auth_error"}
        /\ q.sent \in Nat /\ q.sent <= r.sent + 1
        /\ q.entry = r.entry /\ q.health = r.health
    <3>1. next \in CallPC
      BY DEF CallPC
    <3>2. NoToken(c, next) \/ \E n \in 0 .. 1 : Advance(c, next, "http_error", n)
      BY <1>16 DEF PostFails
    <3> HIDE DEF next
    <3>3. CASE NoToken(c, next)
      BY <1>1, <1>6, <3>1, <3>3
    <3>4. CASE \E n \in 0 .. 1 : Advance(c, next, "http_error", n)
      <4>1. PICK n \in 0 .. 1 : Advance(c, next, "http_error", n)
        BY <3>4
      <4>2. n \in Nat /\ "http_error" \in Result
        BY DEF Result
      <4>3. /\ q.pc = next /\ q.result = "http_error" /\ q.sent = r.sent + n
            /\ q.entry = r.entry /\ q.health = r.health
        BY <1>5, <3>1, <4>1, <4>2
      <4> QED BY <1>1, <4>3
    <3> QED BY <3>2, <3>3, <3>4
  <2> QED BY <1>1, <1>3, <2>1, <2>2
<1>17. CASE LocalAfter(c)
  <2>1. r.pc = "local_after"
    BY <1>17 DEF LocalAfter
  <2>2. /\ q.pc = "done" /\ q.result \in {"local", r.result}
        /\ q.sent \in Nat /\ q.sent <= r.sent + 1
        /\ q.entry = r.entry /\ q.health = r.health
    <3>1. r.result \in Result
      BY <1>1 DEF Call
    <3>2. CASE Advance(c, "done", "local", 1)
      BY <1>1, <1>5, <3>2 DEF CallPC, Result
    <3>3. CASE \E n \in 0 .. 1 : Advance(c, "done", r.result, n)
      BY <1>1, <1>5, <3>1, <3>3 DEF CallPC
    <3> QED BY <1>17, <3>2, <3>3 DEF LocalAfter
  <2> QED BY <1>1, <1>3, <2>1, <2>2
<1> QED
  BY <1>8, <1>9, <1>10, <1>11, <1>12, <1>13, <1>14, <1>15, <1>16, <1>17 DEF CallStep

\* A snapshot that is published is noted by the calls that have yet to decide.
LEMMA CallInvPublish ==
    ASSUME TypeOK, CallInv, NEW p \in Proc, Publish(p)
    PROVE  CallInv'
<1> SUFFICES ASSUME NEW c \in Caller
             PROVE  LET r == call'[c]
                    IN  /\ r.pc \notin {"local_after", "done"} => r.result = "none"
                        /\ r.pc \notin {"http", "local_after", "done"} => r.sent = 0
                        /\ r.pc \in {"decide", "local_first", "http", "local_after"}
                             => r.health # Absent
                        /\ r.pc \in {"local_first", "local_after"} => r.entry.image
                        /\ r.pc = "http" =>
                             r.sent <= IF r.entry.image THEN 1 ELSE 0
                        /\ r.pc = "local_after" =>
                             r.sent <= 2 /\ r.result # "unreachable"
                        /\ r.sent <= IF r.entry.image THEN 3 ELSE 1
                        /\ r.pc = "resolve" /\ HttpOnlyDown(snapshot', r.skill)
                             => r.down_seen
                        /\ r.pc = "decide" /\ ~r.entry.image
                             /\ r.health.status = "down" => r.down_seen
                        /\ r.result = "unreachable" => r.down_seen
  BY DEF CallInv
<1>1. call'[c] = Witness(call[c], snapshot') /\ call[c] \in Call
  BY DEF Publish, TypeOK
<1> QED BY <1>1, WitnessTyped DEF CallInv

\* Every step preserves the invariant of the calls.
LEMMA NextCalls == IInv /\ CallInv /\ [Next]_vars => CallInv'
<1> SUFFICES ASSUME IInv, CallInv, [Next]_vars PROVE CallInv'
  OBVIOUS
<1>1. CASE \E c \in Caller : CallStep(c)
  BY <1>1, CallInvStep
<1>2. CASE UNCHANGED <<snapshot, call>>
  <2>1. \A x : HttpOnlyDown(snapshot', x) = HttpOnlyDown(snapshot, x)
    BY <1>2
  <2> QED BY <1>2, <2>1 DEF CallInv
<1>3. ASSUME NEW p \in Proc, RefreshStep(p)
      PROVE  Publish(p) \/ UNCHANGED <<snapshot, call>>
  BY <1>3 DEF RefreshStep, RefreshStart, RefreshLock, ListStart, ListTryLock,
         ListRecheck, LoadRegistry, LoadFails, ProbeOk, ProbeFails, Unlock
<1>4. ASSUME NEW p \in Proc, Publish(p)
      PROVE  CallInv'
  BY <1>4, CallInvPublish DEF IInv
<1> QED BY <1>1, <1>2, <1>3, <1>4 DEF Next, Tick, vars

\* At every place of a call the attempts behind it are bounded by its route, and
\* the entry and health it carries are those of one snapshot it has noted.
THEOREM CallsInvariant == Spec => []CallInv
<1>1. Init => CallInv
  BY InitCalls
<1>2. IInv /\ CallInv /\ [Next]_vars => CallInv'
  BY NextCalls
<1> QED BY <1>1, <1>2, Invariant, PTL DEF Spec

\* For a call that fails fast there was a snapshot, published between its dispatch
\* and its decision or current at the former, that had its skill Down and without
\* an image, whatever refreshes swap in meanwhile.
THEOREM FastFail == Spec => []FastFailJustified
<1>1. CallInv => FastFailJustified
  BY DEF CallInv, FastFailJustified
<1> QED BY <1>1, CallsInvariant, PTL

\* No interleaving makes one call run its tool more often than its route says.
THEOREM BoundedExecutions == Spec => []ExecutionBound
<1>1. CallInv => ExecutionBound
  BY DEF CallInv, ExecutionBound
<1> QED BY <1>1, CallsInvariant, PTL
=============================================================================
