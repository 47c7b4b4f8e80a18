------------------------- MODULE OutboundAuth_proofs -------------------------
(***************************************************************************)
(* Proofs about OutboundAuth, for any callers, times and bounds that obey  *)
(* OutboundAuthAssumption.                                                 *)
(***************************************************************************)
EXTENDS OutboundAuth, TLAPS

Requests == [pc : RequestPC, kind : Kind, https : BOOLEAN, header : Header,
             issued : Time \cup {None}]

LEMMA NoRequestType == NoRequest \in Requests
  BY DEF NoRequest, Requests, RequestPC, Kind, Header

\* The request of one caller is replaced by one of the type.
LEMMA SetType ==
  ASSUME req \in [Caller -> Requests], NEW c \in Caller, NEW r \in Requests,
         Set(c, r)
  PROVE  /\ req' \in [Caller -> Requests]
         /\ req'[c] = r
         /\ \A d \in Caller \ {c} : req'[d] = req[d]
  BY DEF Set

\* A request with another place is one of the type and keeps its other fields.
LEMMA PlaceField ==
  ASSUME NEW r \in Requests, NEW pc \in {"lock", "azure", "fetch", "sent", "failed"}
  PROVE  /\ [r EXCEPT !.pc = pc] \in Requests
         /\ [r EXCEPT !.pc = pc].pc = pc
         /\ [r EXCEPT !.pc = pc].issued = r.issued
         /\ [r EXCEPT !.pc = pc].kind = r.kind
         /\ [r EXCEPT !.pc = pc].header = r.header
         /\ [r EXCEPT !.pc = pc].https = r.https
  BY DEF Requests, RequestPC

LEMMA NewRequest ==
  ASSUME NEW kind \in Kind, NEW https \in BOOLEAN
  PROVE  /\ [NoRequest EXCEPT !.kind = kind, !.https = https] \in Requests
         /\ [NoRequest EXCEPT !.kind = kind, !.https = https].kind = kind
         /\ [NoRequest EXCEPT !.kind = kind, !.https = https].issued = None
         /\ [NoRequest EXCEPT !.kind = kind, !.https = https].header = "none"
  <1>1. NoRequest.issued = None /\ NoRequest.header = "none"
    BY DEF NoRequest
  <1> QED BY <1>1, NoRequestType DEF Requests

LEMMA InitInv == Init => AuthInv
  <1> SUFFICES ASSUME Init PROVE AuthInv
    OBVIOUS
  <1> USE OutboundAuthAssumption
  <1>1. TypeOK
    BY NoRequestType DEF Init, TypeOK, Time, Requests, Config
  <1>2. LockIsFetch /\ FetchIsDue /\ AzureComesSecond /\ TokenAges
    BY DEF Init, LockIsFetch, FetchIsDue, AzureComesSecond, TokenAges, NoRequest
  <1>3. QueueIsWaiting
    <2>1. Len(queue) = 0 /\ Waiting = {}
      BY DEF Init, NoRequest, Waiting
    <2> QED BY <2>1 DEF QueueIsWaiting, Listed
  <1> QED BY <1>1, <1>2, <1>3 DEF AuthInv

\* A queue of callers that are all different gets longer by one that is not in it,
\* and shorter by its head.
LEMMA QueueGrows ==
  ASSUME NEW q \in Seq(Caller), NEW c \in Caller,
         \A i, j \in 1 .. Len(q) : q[i] = q[j] => i = j,
         c \notin Listed(q)
  PROVE  LET a == Append(q, c)
         IN  /\ Listed(a) = Listed(q) \cup {c}
             /\ \A i, j \in 1 .. Len(a) : a[i] = a[j] => i = j
  <1> DEFINE a == Append(q, c)
  <1>1. /\ Len(q) \in Nat /\ Len(a) = Len(q) + 1 /\ a[Len(q) + 1] = c
        /\ \A i \in 1 .. Len(q) : a[i] = q[i]
    OBVIOUS
  <1> HIDE DEF a
  <1>2. \A i \in 1 .. Len(a) : i \in 1 .. Len(q) \/ i = Len(q) + 1
    BY <1>1
  <1>3. 1 .. Len(q) \subseteq 1 .. Len(a) /\ Len(q) + 1 \in 1 .. Len(a)
    BY <1>1
  <1>4. Listed(a) = Listed(q) \cup {c}
    BY <1>1, <1>2, <1>3 DEF Listed
  <1>5. ASSUME NEW i \in 1 .. Len(a), NEW j \in 1 .. Len(a), a[i] = a[j] PROVE i = j
    BY <1>1, <1>2, <1>5 DEF Listed
  <1> QED BY <1>4, <1>5 DEF a

LEMMA QueueShrinks ==
  ASSUME NEW q \in Seq(Caller), q # <<>>,
         \A i, j \in 1 .. Len(q) : q[i] = q[j] => i = j
  PROVE  LET b == Tail(q)
         IN  /\ b \in Seq(Caller)
             /\ Listed(b) = Listed(q) \ {Head(q)}
             /\ \A i, j \in 1 .. Len(b) : b[i] = b[j] => i = j
  <1> DEFINE b == Tail(q)
  <1>1. /\ b \in Seq(Caller) /\ Len(q) \in Nat \ {0} /\ Len(b) = Len(q) - 1
        /\ Head(q) = q[1] /\ \A i \in 1 .. Len(b) : b[i] = q[i + 1]
    OBVIOUS
  <1> HIDE DEF b
  <1>2. \A i \in 1 .. Len(b) : i + 1 \in 1 .. Len(q) /\ i + 1 # 1
    BY <1>1
  <1>3. \A k \in 1 .. Len(q) : k # 1 => k - 1 \in 1 .. Len(b) /\ b[k - 1] = q[k]
    <2> SUFFICES ASSUME NEW k \in 1 .. Len(q), k # 1
                 PROVE  k - 1 \in 1 .. Len(b) /\ b[k - 1] = q[k]
      OBVIOUS
    <2>1. k - 1 \in 1 .. Len(b) /\ (k - 1) + 1 = k
      BY <1>1
    <2>2. b[k - 1] = q[(k - 1) + 1]
      BY <1>1, <2>1
    <2> QED BY <2>1, <2>2
  <1>4. {b[i] : i \in 1 .. Len(b)} \subseteq {q[i] : i \in 1 .. Len(q)} \ {Head(q)}
    <2> SUFFICES ASSUME NEW i \in 1 .. Len(b)
                 PROVE  b[i] \in {q[k] : k \in 1 .. Len(q)} \ {Head(q)}
      OBVIOUS
    <2>1. b[i] = q[i + 1] /\ i + 1 \in 1 .. Len(q) /\ i + 1 # 1 /\ 1 \in 1 .. Len(q)
      BY <1>1, <1>2
    <2>2. q[i + 1] # q[1]
      BY <2>1
    <2> QED BY <1>1, <2>1, <2>2
  <1>5. {q[i] : i \in 1 .. Len(q)} \ {Head(q)} \subseteq {b[i] : i \in 1 .. Len(b)}
    BY <1>1, <1>3
  <1>6. ASSUME NEW i \in 1 .. Len(b), NEW j \in 1 .. Len(b), b[i] = b[j] PROVE i = j
    <2>1. i + 1 = j + 1
      BY <1>1, <1>2, <1>6
    <2> QED BY <1>1, <2>1
  <1> QED BY <1>1, <1>4, <1>5, <1>6 DEF b, Listed

\* Who waits, and the queue, after one request is replaced.
LEMMA QueueStep ==
  ASSUME QueueIsWaiting, queue \in Seq(Caller), req \in [Caller -> Requests],
         NEW c \in Caller, NEW r \in Requests, Set(c, r),
         \/ queue' = queue /\ (req[c].pc = "lock" <=> r.pc = "lock")
         \/ queue' = Append(queue, c) /\ req[c].pc # "lock" /\ r.pc = "lock"
         \/ NextInLine(c) /\ r.pc # "lock"
  PROVE  queue' \in Seq(Caller) /\ QueueIsWaiting'
  <1>1. /\ req' \in [Caller -> Requests]
        /\ req'[c] = r
        /\ \A d \in Caller \ {c} : req'[d] = req[d]
    BY SetType
  <1>2. CASE queue' = queue /\ (req[c].pc = "lock" <=> r.pc = "lock")
    <2>1. Waiting' = Waiting
      BY <1>1, <1>2 DEF Waiting
    <2> QED BY <1>2, <2>1 DEF QueueIsWaiting
  <1>3. CASE queue' = Append(queue, c) /\ req[c].pc # "lock" /\ r.pc = "lock"
    <2>1. Waiting' = Waiting \cup {c} /\ c \notin Waiting
      BY <1>1, <1>3 DEF Waiting
    <2>2. /\ Listed(queue') = Listed(queue) \cup {c}
          /\ \A i, j \in 1 .. Len(queue') : queue'[i] = queue'[j] => i = j
      BY <1>3, <2>1, QueueGrows DEF QueueIsWaiting
    <2> QED BY <1>3, <2>1, <2>2 DEF QueueIsWaiting
  <1>4. CASE NextInLine(c) /\ r.pc # "lock"
    <2>1. /\ req[c].pc = "lock" /\ queue # <<>> /\ Head(queue) = c
          /\ queue' = Tail(queue)
      BY <1>4 DEF NextInLine
    <2>2. Waiting' = Waiting \ {c}
      BY <1>1, <1>4 DEF Waiting
    <2>3. /\ queue' \in Seq(Caller)
          /\ Listed(queue') = Listed(queue) \ {c}
          /\ \A i, j \in 1 .. Len(queue') : queue'[i] = queue'[j] => i = j
      <3>1. \A i, j \in 1 .. Len(queue) : queue[i] = queue[j] => i = j
        BY DEF QueueIsWaiting
      <3> QED BY <2>1, <3>1, QueueShrinks
    <2> QED BY <2>2, <2>3 DEF QueueIsWaiting
  <1> QED BY <1>2, <1>3, <1>4

\* What an action writes is one request and some of lock, cache and queue. What
\* is known of the other callers survives if the mutex stays with its holder or
\* is taken or given back by c, and no fetch is under way when the cache changes.
LEMMA StepInv ==
  ASSUME AuthInv, UNCHANGED <<config, now>>,
         NEW c \in Caller, NEW r \in Requests, Set(c, r),
         \/ queue' = queue /\ (req[c].pc = "lock" <=> r.pc = "lock")
         \/ queue' = Append(queue, c) /\ req[c].pc # "lock" /\ r.pc = "lock"
         \/ NextInLine(c) /\ r.pc # "lock",
         \/ lock' = lock /\ (req[c].pc = "fetch" <=> r.pc = "fetch")
         \/ lock = None /\ lock' = c /\ r.pc = "fetch"
         \/ lock = c /\ lock' = None /\ r.pc # "fetch",
         \/ cache' = cache
         \/ /\ lock = c /\ lock' = None
            /\ r.issued # None
            /\ cache' = [token |-> r.issued, fetched_at |-> now]
            /\ r.issued <= now /\ now - r.issued <= Delay,
         r.pc = "fetch" /\ req[c].pc # "fetch" => ~fresh,
         r.pc = "fetch" /\ r.issued # None => r.issued <= now /\ now - r.issued <= Delay,
         r.pc \in {"idle", "lock"} => r.issued = None,
         r.pc = "azure" => r.header = "none" /\ (r.kind = "skill" => ~config.gcloud)
  PROVE  AuthInv'
  <1> USE OutboundAuthAssumption
  <1>0. /\ config \in Config
        /\ now \in Time
        /\ lock \in Caller \cup {None}
        /\ queue \in Seq(Caller)
        /\ cache \in [token : Time \cup {None}, fetched_at : Time \cup {None}]
        /\ req \in [Caller -> Requests]
        /\ LockIsFetch /\ TokenAges /\ FetchIsDue /\ AzureComesSecond
        /\ QueueIsWaiting
    BY DEF AuthInv, TypeOK, Requests
  <1>q. queue' \in Seq(Caller) /\ QueueIsWaiting'
    BY <1>0, QueueStep
  <1>1. /\ req' \in [Caller -> Requests]
        /\ req'[c] = r
        /\ \A d \in Caller \ {c} : req'[d] = req[d]
    BY <1>0, SetType
  <1>2. r.issued \in Time \cup {None}
    BY DEF Requests
  <1>3. TypeOK'
    <2>1. cache' \in [token : Time \cup {None}, fetched_at : Time \cup {None}]
      BY <1>0, <1>2
    <2>2. lock' \in Caller \cup {None}
      BY <1>0
    <2> QED BY <1>0, <1>1, <1>q, <2>1, <2>2 DEF TypeOK, Requests
  <1>4. LockIsFetch'
    BY <1>0, <1>1 DEF LockIsFetch
  <1>5. TokenAges'
    <2>1. /\ cache'.token = None <=> cache'.fetched_at = None
          /\ cache'.token # None =>
               /\ cache'.token <= cache'.fetched_at /\ cache'.fetched_at <= now
               /\ cache'.fetched_at - cache'.token <= Delay
      <3>1. CASE cache' = cache
        BY <3>1, <1>0 DEF TokenAges
      <3>2. CASE /\ r.issued # None
                 /\ cache' = [token |-> r.issued, fetched_at |-> now]
                 /\ r.issued <= now /\ now - r.issued <= Delay
        BY <3>2, <1>0, <1>2 DEF Time
      <3> QED BY <3>1, <3>2
    <2>2. \A d \in Caller : req'[d].pc = "fetch" /\ req'[d].issued # None =>
                             req'[d].issued <= now /\ now - req'[d].issued <= Delay
      BY <1>0, <1>1 DEF TokenAges
    <2>3. \A d \in Caller : req'[d].pc \in {"idle", "lock"} => req'[d].issued = None
      BY <1>0, <1>1 DEF TokenAges
    <2> QED BY <2>1, <2>2, <2>3 DEF TokenAges
  <1>6. FetchIsDue'
    <2> SUFFICES ASSUME NEW d \in Caller, req'[d].pc = "fetch" PROVE ~fresh'
      BY DEF FetchIsDue
    <2>1. CASE cache' = cache
      <3>1. fresh' <=> fresh
        BY <2>1 DEF fresh
      <3>2. CASE d = c
        BY <3>1, <3>2, <1>0, <1>1 DEF FetchIsDue
      <3>3. CASE d # c
        BY <3>1, <3>3, <1>0, <1>1 DEF FetchIsDue
      <3> QED BY <3>2, <3>3
    <2>2. CASE lock = c /\ lock' = None
      BY <2>2, <1>4 DEF LockIsFetch
    <2> QED BY <2>1, <2>2
  <1>7. AzureComesSecond'
    BY <1>0, <1>1 DEF AzureComesSecond
  <1> QED BY <1>q, <1>3, <1>4, <1>5, <1>6, <1>7 DEF AuthInv

LEMMA TickInv == ASSUME AuthInv, Tick PROVE AuthInv'
  <1> USE OutboundAuthAssumption
  <1>1. TypeOK'
    BY DEF AuthInv, TypeOK, Tick, Time
  <1>2. LockIsFetch' /\ AzureComesSecond'
    BY DEF AuthInv, LockIsFetch, AzureComesSecond, Tick
  <1>3. now \in Nat /\ now' = now + 1 /\ UNCHANGED <<lock, cache, req>>
    BY DEF AuthInv, TypeOK, Tick, Time
  <1>4. /\ cache.fetched_at \in Nat \cup {None} /\ cache.token \in Nat \cup {None}
        /\ \A c \in Caller : req[c].issued \in Nat \cup {None}
    BY DEF AuthInv, TypeOK, Time
  <1>5. TokenAges'
    BY <1>3, <1>4 DEF AuthInv, TokenAges, Tick
  <1>6. FetchIsDue'
    <2>1. fresh' => fresh
      BY <1>3, <1>4 DEF fresh
    <2> QED BY <2>1, <1>3 DEF AuthInv, FetchIsDue
  <1>7. QueueIsWaiting'
    BY DEF AuthInv, Tick, QueueIsWaiting, Waiting
  <1> QED BY <1>1, <1>2, <1>5, <1>6, <1>7 DEF AuthInv

LEMMA BeginWrites ==
  ASSUME req \in [Caller -> Requests], NEW c \in Caller,
         NEW kind \in Kind, NEW https \in BOOLEAN, Begin(c, kind, https)
  PROVE  req'[c].pc # "sent"
  <1> DEFINE r == [NoRequest EXCEPT !.kind = kind, !.https = https]
  <1>1. r \in Requests
    BY NewRequest
  <1> HIDE DEF r
  <1>2. [r EXCEPT !.pc = "lock"].pc # "sent" /\ [r EXCEPT !.pc = "azure"].pc # "sent"
    BY <1>1 DEF Requests
  <1>3. Set(c, [r EXCEPT !.pc = "lock"]) \/ Set(c, [r EXCEPT !.pc = "azure"])
    BY DEF Begin, r
  <1> QED BY <1>2, <1>3 DEF Set

\* Every step of a caller is one of StepInv.
LEMMA CallerInv == ASSUME AuthInv, NEW c \in Caller, CallerStep(c) PROVE AuthInv'
  <1> USE OutboundAuthAssumption
  <1>0. /\ config \in Config
        /\ now \in Time
        /\ queue \in Seq(Caller)
        /\ cache \in [token : Time \cup {None}, fetched_at : Time \cup {None}]
        /\ req \in [Caller -> Requests] /\ req[c] \in Requests
        /\ LockIsFetch /\ TokenAges /\ FetchIsDue /\ AzureComesSecond
    BY DEF AuthInv, TypeOK, Requests
  <1>1. CASE \E kind \in Kind, https \in BOOLEAN : Begin(c, kind, https)
    <2>1. PICK kind \in Kind, https \in BOOLEAN : Begin(c, kind, https)
      BY <1>1
    <2> DEFINE r == [NoRequest EXCEPT !.kind = kind, !.https = https]
    <2>2. r \in Requests /\ r.kind = kind /\ r.issued = None /\ r.header = "none"
      BY NewRequest
    <2>3. CASE kind = "skill" /\ config.gcloud
      <3> DEFINE q == [r EXCEPT !.pc = "lock"]
      <3>1. q \in Requests /\ q.pc = "lock" /\ q.issued = None
        BY <2>2, PlaceField
      <3>2. /\ Set(c, q) /\ queue' = Append(queue, c) /\ req[c].pc = "idle"
            /\ UNCHANGED <<config, now, lock, cache>>
        BY <2>1, <2>3 DEF Begin
      <3> HIDE DEF q, r
      <3> QED BY <1>0, <3>1, <3>2, StepInv
    <2>4. CASE ~(kind = "skill" /\ config.gcloud)
      <3> DEFINE q == [r EXCEPT !.pc = "azure"]
      <3>1. q \in Requests /\ q.pc = "azure" /\ q.kind = kind /\ q.header = "none"
        BY <2>2, PlaceField
      <3>2. /\ Set(c, q) /\ req[c].pc = "idle"
            /\ UNCHANGED <<config, now, lock, queue, cache>>
        BY <2>1, <2>4 DEF Begin
      <3> HIDE DEF q, r
      <3> QED BY <1>0, <2>4, <3>1, <3>2, StepInv
    <2> QED BY <2>3, <2>4
  <1>2. CASE TokenCached(c)
    <2> DEFINE r == [req[c] EXCEPT !.pc = "sent", !.header = "gcloud",
                                   !.issued = cache.token]
    <2>1. r \in Requests /\ r.pc = "sent"
      BY <1>0 DEF Requests, RequestPC, Header
    <2>2. /\ Set(c, r) /\ req[c].pc = "lock" /\ NextInLine(c)
          /\ UNCHANGED <<config, now, lock, cache>>
      BY <1>2 DEF TokenCached, NextInLine
    <2> HIDE DEF r
    <2> QED BY <1>0, <2>1, <2>2, StepInv
  <1>3. CASE FetchStart(c)
    <2> DEFINE r == [req[c] EXCEPT !.pc = "fetch"]
    <2>1. r \in Requests /\ r.pc = "fetch" /\ r.issued = req[c].issued
      BY <1>0, PlaceField
    <2>2. /\ Set(c, r) /\ req[c].pc = "lock" /\ lock = None /\ lock' = c /\ ~fresh
          /\ NextInLine(c)
          /\ UNCHANGED <<config, now, cache>>
      BY <1>3 DEF FetchStart, NextInLine
    <2>3. r.issued = None
      BY <1>0, <2>1, <2>2 DEF TokenAges
    <2> HIDE DEF r
    <2> QED BY <1>0, <2>1, <2>2, <2>3, StepInv
  <1>4. CASE GcloudIssues(c)
    <2> DEFINE r == [req[c] EXCEPT !.issued = now]
    <2>1. r \in Requests /\ r.pc = req[c].pc /\ r.issued = now
      BY <1>0 DEF Requests
    <2>2. /\ Set(c, r) /\ req[c].pc = "fetch"
          /\ UNCHANGED <<config, now, lock, queue, cache>>
      BY <1>4 DEF GcloudIssues
    <2>3. now <= now /\ now - now <= Delay
      BY <1>0 DEF Time
    <2> HIDE DEF r
    <2> QED BY <1>0, <2>1, <2>2, <2>3, StepInv
  <1>5. CASE FetchOk(c)
    <2> DEFINE r == [req[c] EXCEPT !.pc = "sent", !.header = "gcloud"]
    <2>1. r \in Requests /\ r.pc = "sent" /\ r.issued = req[c].issued
      BY <1>0 DEF Requests, RequestPC, Header
    <2>2. /\ Set(c, r) /\ req[c].pc = "fetch" /\ req[c].issued # None
          /\ cache' = [token |-> req[c].issued, fetched_at |-> now]
          /\ lock' = None
          /\ UNCHANGED <<config, now, queue>>
      BY <1>5 DEF FetchOk
    <2>3. lock = c
      BY <1>0, <2>2 DEF LockIsFetch
    <2>4. r.issued <= now /\ now - r.issued <= Delay
      BY <1>0, <2>1, <2>2 DEF TokenAges
    <2> HIDE DEF r
    <2> QED BY <1>0, <2>1, <2>2, <2>3, <2>4, StepInv
  <1>6. CASE FetchFails(c)
    <2> DEFINE r == [req[c] EXCEPT !.pc = "failed", !.issued = None]
    <2>1. r \in Requests /\ r.pc = "failed"
      BY <1>0 DEF Requests, RequestPC
    <2>2. /\ Set(c, r) /\ req[c].pc = "fetch" /\ lock' = None
          /\ UNCHANGED <<config, now, queue, cache>>
      BY <1>6 DEF FetchFails
    <2>3. lock = c
      BY <1>0, <2>2 DEF LockIsFetch
    <2> HIDE DEF r
    <2> QED BY <1>0, <2>1, <2>2, <2>3, StepInv
  <1>7. CASE AzureHeader(c)
    <2>1. PICK r \in Requests : Set(c, r) /\ r.pc \in {"sent", "failed"}
      <3>1. /\ [req[c] EXCEPT !.pc = "sent"] \in Requests
            /\ [req[c] EXCEPT !.pc = "sent"].pc = "sent"
        BY <1>0, PlaceField
      <3>3. /\ [req[c] EXCEPT !.pc = "failed"] \in Requests
            /\ [req[c] EXCEPT !.pc = "failed"].pc = "failed"
        BY <1>0, PlaceField
      <3>2. /\ [req[c] EXCEPT !.pc = "sent", !.header = "azure"] \in Requests
            /\ [req[c] EXCEPT !.pc = "sent", !.header = "azure"].pc = "sent"
        BY <1>0 DEF Requests, RequestPC, Header
      <3> QED BY <1>7, <3>1, <3>2, <3>3 DEF AzureHeader
    <2>2. req[c].pc = "azure" /\ UNCHANGED <<config, now, lock, queue, cache>>
      BY <1>7 DEF AzureHeader
    <2> QED BY <1>0, <2>1, <2>2, StepInv
  <1>8. CASE Done(c)
    <2>1. NoRequest.pc = "idle" /\ NoRequest.issued = None
      BY DEF NoRequest
    <2>2. /\ Set(c, NoRequest) /\ req[c].pc \in {"sent", "failed"}
          /\ UNCHANGED <<config, now, lock, queue, cache>>
      BY <1>8 DEF Done
    <2> QED BY <1>0, <2>1, <2>2, NoRequestType, StepInv
  <1> QED BY <1>1, <1>2, <1>3, <1>4, <1>5, <1>6, <1>7, <1>8 DEF CallerStep

\* The types, the mutex held exactly while gcloud runs, and what is known of the
\* ages of tokens: the invariant the other theorems rest on.
THEOREM Invariant == Spec => []AuthInv
  <1>1. AuthInv /\ [Next]_vars => AuthInv'
    <2>1. ASSUME AuthInv, Next PROVE AuthInv'
      BY <2>1, TickInv, CallerInv DEF Next
    <2>2. ASSUME AuthInv, UNCHANGED vars PROVE AuthInv'
      BY <2>2 DEF vars, AuthInv, TypeOK, LockIsFetch, TokenAges, FetchIsDue,
                  AzureComesSecond, QueueIsWaiting, Waiting, fresh
    <2> QED BY <2>1, <2>2
  <1> QED BY InitInv, <1>1, PTL DEF Spec

\* Whoever waits for the token waits for a gcloud that runs or for its turn at a mutex
\* that is free: no caller holds the mutex and waits, and the queue has no gap. With
\* the assumption that gcloud ends, this is why Served holds (bearer_token).
THEOREM TheMutexMoves == Spec => []MutexMoves
  <1>1. AuthInv => MutexMoves
    <2> SUFFICES ASSUME AuthInv, NEW w \in Waiting
                 PROVE  \E c \in Caller : HolderEnds(c) \/ HeadTakes(c)
      BY DEF MutexMoves
    <2>1. lock \in Caller \cup {None} /\ queue \in Seq(Caller)
      BY DEF AuthInv, TypeOK
    <2>2. CASE lock \in Caller
      BY <2>2 DEF AuthInv, LockIsFetch, HolderEnds
    <2>3. CASE lock = None
      <3>1. PICK i \in 1 .. Len(queue) : queue[i] = w
        BY DEF AuthInv, QueueIsWaiting, Listed
      <3>2. 1 \in 1 .. Len(queue) /\ Head(queue) = queue[1]
        BY <2>1, <3>1
      <3>3. Head(queue) \in Waiting
        BY <3>2 DEF AuthInv, QueueIsWaiting, Listed
      <3> QED BY <2>3, <3>3 DEF Waiting, HeadTakes
    <2> QED BY <2>1, <2>2, <2>3
  <1> QED BY <1>1, Invariant, PTL

\* Only these actions send a request. Azure's branch alone sends one without a
\* header, and only where none is due.
LEMMA SendsWithHeader ==
  ASSUME AuthInv, NoAnonymousSend, NEW c \in Caller, CallerStep(c)
  PROVE  NoAnonymousSend'
  <1>0. req \in [Caller -> Requests] /\ req[c] \in Requests
    BY DEF AuthInv, TypeOK, Requests
  <1> DEFINE Due(r) == /\ ~should_authenticate(r.https)
                       /\ r.kind = "skill" => ~config.gcloud
  <1>1. config' = config /\ \A d \in Caller \ {c} : req'[d] = req[d]
    BY <1>0 DEF CallerStep, Begin, TokenCached, FetchStart, GcloudIssues, FetchOk,
                FetchFails, AzureHeader, Done, Set
  <1>2. ASSUME req'[c].pc = "sent", req'[c].header = "none" PROVE Due(req'[c])
    <2>1. CASE \E kind \in Kind, https \in BOOLEAN : Begin(c, kind, https)
      BY <1>0, <1>2, <2>1, BeginWrites
    <2>2. CASE TokenCached(c) \/ FetchOk(c)
      BY <1>0, <1>2, <2>2 DEF TokenCached, FetchOk, Set, Requests
    <2>3. CASE FetchStart(c) \/ FetchFails(c)
      BY <1>0, <1>2, <2>3 DEF FetchStart, FetchFails, Set, Requests
    <2>6. CASE Done(c)
      BY <1>0, <1>2, <2>6 DEF Done, Set, NoRequest
    <2>4. CASE GcloudIssues(c)
      BY <1>0, <1>2, <2>4 DEF GcloudIssues, Set, Requests
    <2>5. CASE AzureHeader(c)
      <3>1. /\ ~should_authenticate(req[c].https)
            /\ req'[c] = [req[c] EXCEPT !.pc = "sent"]
            /\ req[c].pc = "azure"
        BY <1>0, <1>2, <2>5 DEF AzureHeader, Set, Requests
      <3>2. req'[c].https = req[c].https /\ req'[c].kind = req[c].kind
        BY <1>0, <3>1 DEF Requests
      <3> QED BY <3>1, <3>2 DEF AuthInv, AzureComesSecond
    <2> QED BY <2>1, <2>2, <2>3, <2>4, <2>5, <2>6 DEF CallerStep
  <1>3. \A https : should_authenticate(https)' <=> should_authenticate(https)
    BY <1>1 DEF should_authenticate
  <1> QED BY <1>1, <1>2 DEF NoAnonymousSend, Anonymous, should_authenticate

\* Where a credential is due, a request is sent with one or not at all.
THEOREM AuthenticatedOrFailed == Spec => []NoAnonymousSend
  <1>1. Init => NoAnonymousSend
    BY DEF Init, NoAnonymousSend, Anonymous, NoRequest
  <1>2. AuthInv /\ NoAnonymousSend /\ [Next]_vars => NoAnonymousSend'
    <2>1. ASSUME NoAnonymousSend, Tick \/ UNCHANGED vars PROVE NoAnonymousSend'
      BY <2>1 DEF Tick, vars, NoAnonymousSend, Anonymous, should_authenticate
    <2> QED BY <2>1, SendsWithHeader DEF Next
  <1> QED BY <1>1, <1>2, Invariant, PTL DEF Spec

\* The cache changes only when a gcloud ends, and one runs only when the cached
\* token is out of date.
THEOREM FetchesAreSpaced == Spec => SpacedFetches
  <1>1. AuthInv /\ [Next]_vars =>
          (cache' # cache /\ cache.fetched_at # None
             => cache'.fetched_at - cache.fetched_at >= TTL)
    <2> SUFFICES ASSUME AuthInv, Next, cache' # cache, cache.fetched_at # None
                 PROVE  cache'.fetched_at - cache.fetched_at >= TTL
      BY DEF vars
    <2>1. PICK c \in Caller : FetchOk(c)
      BY DEF Next, Tick, CallerStep, Begin, TokenCached, FetchStart, GcloudIssues,
             FetchFails, AzureHeader, Done
    <2>2. cache'.fetched_at = now /\ ~fresh
      BY <2>1 DEF FetchOk, AuthInv, FetchIsDue
    <2>3. now \in Int /\ cache.fetched_at \in Int /\ TTL \in Int
      BY OutboundAuthAssumption DEF AuthInv, TypeOK, Time
    <2> QED BY <2>2, <2>3 DEF fresh
  <1> QED BY <1>1, Invariant, PTL DEF Spec, SpacedFetches

\* A cached token is younger than TTL + Delay, and a new one than Delay.
THEOREM NoExpiredToken == Spec => TokensUsable
  <1>1. AuthInv /\ [Next]_vars =>
          \A c \in Caller :
            req[c].pc # "sent" /\ req'[c].pc = "sent" /\ req'[c].header = "gcloud"
              => req'[c].issued # None /\ now - req'[c].issued <= Validity
    <2> SUFFICES ASSUME AuthInv, Next, NEW c \in Caller, req[c].pc # "sent",
                        req'[c].pc = "sent", req'[c].header = "gcloud"
                 PROVE  req'[c].issued # None /\ now - req'[c].issued <= Validity
      BY DEF vars
    <2>0. req \in [Caller -> Requests] /\ req[c] \in Requests /\ now \in Nat
      BY DEF AuthInv, TypeOK, Requests, Time
    <2>1. PICK d \in Caller : CallerStep(d)
      BY DEF Next, Tick
    <2>2. d = c
      BY <2>0, <2>1 DEF CallerStep, Begin, TokenCached, FetchStart, GcloudIssues,
                        FetchOk, FetchFails, AzureHeader, Done, Set
    <2>3. TokenCached(c) \/ FetchOk(c) \/ AzureHeader(c)
      <3>1. CASE \E kind \in Kind, https \in BOOLEAN : Begin(c, kind, https)
        BY <2>0, <3>1, BeginWrites
      <3>2. CASE FetchStart(c) \/ GcloudIssues(c) \/ FetchFails(c)
        BY <2>0, <3>2 DEF FetchStart, GcloudIssues, FetchFails, Set, Requests
      <3>3. CASE Done(c)
        BY <2>0, <3>3 DEF Done, Set, NoRequest
      <3> QED BY <2>1, <2>2, <3>1, <3>2, <3>3 DEF CallerStep
    <2>4. CASE TokenCached(c)
      <3>1. req'[c].issued = cache.token
        BY <2>0, <2>4 DEF TokenCached, Set, Requests
      <3>2. /\ cache.fetched_at # None /\ now - cache.fetched_at < TTL
            /\ cache.fetched_at \in Time \cup {None} /\ cache.token \in Time \cup {None}
        BY <2>4 DEF TokenCached, fresh, AuthInv, TypeOK
      <3>3. cache.token # None /\ cache.fetched_at - cache.token <= Delay
        BY <3>2 DEF AuthInv, TokenAges
      <3> QED BY <2>0, <3>1, <3>2, <3>3, OutboundAuthAssumption DEF Time
    <2>5. CASE FetchOk(c)
      <3>1. req'[c].issued = req[c].issued /\ req[c].issued # None /\ req[c].pc = "fetch"
        BY <2>0, <2>5 DEF FetchOk, Set, Requests
      <3>2. now - req[c].issued <= Delay /\ req[c].issued \in Nat
        BY <2>0, <3>1 DEF AuthInv, TokenAges, Requests, Time
      <3> QED BY <2>0, <3>1, <3>2, OutboundAuthAssumption
    <2>6. CASE AzureHeader(c)
      <3>1. req[c].pc = "azure" /\ req[c].header = "none"
        BY <2>6 DEF AzureHeader, AuthInv, AzureComesSecond
      <3>2. /\ [req[c] EXCEPT !.pc = "sent"].header = "none"
            /\ [req[c] EXCEPT !.pc = "sent", !.header = "azure"].header = "azure"
            /\ [req[c] EXCEPT !.pc = "failed"].header = "none"
        BY <2>0, <3>1 DEF Requests
      <3>3. req'[c].header # "gcloud"
        BY <2>0, <2>6, <3>2 DEF AzureHeader, Set
      <3> QED BY <3>3
    <2> QED BY <2>3, <2>4, <2>5, <2>6
  <1> QED BY <1>1, Invariant, PTL DEF Spec, TokensUsable
=============================================================================
