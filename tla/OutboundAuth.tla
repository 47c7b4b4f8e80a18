---------------------------- MODULE OutboundAuth ----------------------------
(***************************************************************************)
(* The Authorization header of an outbound request: the gcloud identity    *)
(* token, cached under a tokio mutex that is held while gcloud runs        *)
(* (Authenticator), and the Azure AD token behind it (AzureAuthBroker) in  *)
(* crates/oxidized-mcp-core/src/auth.rs, as resolve_auth_header            *)
(* (router.rs) asks them for a skill and RegistryLoader::load_url          *)
(* (registry.rs) for the registry.                                         *)
(*                                                                         *)
(* A gcloud token is named by the time at which it was issued.             *)
(***************************************************************************)
EXTENDS Integers, Sequences

CONSTANTS
    Caller,
    None,
    TTL,        \* GCLOUD_ID_TOKEN_TTL, 55 min
    Validity,   \* how long Google accepts the token, 60 min
    Delay,      \* bound on the time from the issue of a token to the end of
                \* the gcloud that prints it
    MaxTime     \* bound on the clock

ASSUME OutboundAuthAssumption ==
    /\ None \notin Caller /\ None \notin Int
    /\ TTL \in Nat /\ Validity \in Nat /\ Delay \in Nat /\ MaxTime \in Nat
    /\ TTL + Delay <= Validity

\* AuthMode::resolve and AzureAuthBroker::from_env: a credential is built only
\* when Azure is enabled and no static token was found, and may fail to build.
Config == {g \in [gcloud : BOOLEAN, enabled : BOOLEAN, static : BOOLEAN,
                  credential : BOOLEAN] :
             g.credential => g.enabled /\ ~g.static}

\* "skill" goes through resolve_auth_header, "registry" through load_url.
Kind == {"skill", "registry"}
RequestPC == {"idle", "lock", "fetch", "azure", "sent", "failed"}
Header == {"none", "gcloud", "azure"}
Time == 0 .. MaxTime

VARIABLES
    config,
    now,
    lock,      \* who holds the mutex of GcloudTokenState
    queue,     \* who waits for it, first come first served
    cache,     \* GcloudTokenState: the token and when it was stored
    req        \* a request per caller; `issued` is the token it got

vars == <<config, now, lock, queue, cache, req>>

NoRequest == [pc |-> "idle", kind |-> "skill", https |-> FALSE,
              header |-> "none", issued |-> None]

Init ==
    /\ config \in Config
    /\ now = 0
    /\ lock = None
    /\ queue = <<>>
    /\ cache = [token |-> None, fetched_at |-> None]
    /\ req = [c \in Caller |-> NoRequest]

\* Bug: the age of the token is not looked at.
fresh_forever == cache.fetched_at # None

\* One clock times the cache and the validity. The code's Instant stands still
\* while the system is suspended and the token's validity does not: a suspend
\* is not modelled.
fresh == cache.fetched_at # None /\ now - cache.fetched_at < TTL

Set(c, r) == req' = [req EXCEPT ![c] = r]

\* A skill's request asks gcloud first if it is the mode; the registry's never.
Begin(c, kind, https) ==
    /\ req[c].pc = "idle"
    /\ LET r == [NoRequest EXCEPT !.kind = kind, !.https = https]
       IN  IF kind = "skill" /\ config.gcloud
           THEN /\ Set(c, [r EXCEPT !.pc = "lock"])
                /\ queue' = Append(queue, c)
           ELSE /\ Set(c, [r EXCEPT !.pc = "azure"])
                /\ UNCHANGED queue
    /\ UNCHANGED <<config, now, lock, cache>>

\* The caller at the head of the queue gets the mutex.
NextInLine(c) ==
    /\ req[c].pc = "lock" /\ lock = None
    /\ queue # <<>> /\ Head(queue) = c
    /\ queue' = Tail(queue)

\* A fresh token is answered at once, and the mutex is free again.
TokenCached(c) ==
    /\ NextInLine(c)
    /\ fresh
    /\ Set(c, [req[c] EXCEPT !.pc = "sent", !.header = "gcloud",
                             !.issued = cache.token])
    /\ UNCHANGED <<config, now, lock, cache>>

\* Bug: gcloud runs after the mutex is given back.
UnlockedFetchStart(c) ==
    /\ NextInLine(c)
    /\ ~fresh
    /\ Set(c, [req[c] EXCEPT !.pc = "fetch"])
    /\ UNCHANGED <<config, now, lock, cache>>

\* Otherwise gcloud is started with the mutex held.
FetchStart(c) ==
    /\ NextInLine(c)
    /\ ~fresh
    /\ lock' = c
    /\ Set(c, [req[c] EXCEPT !.pc = "fetch"])
    /\ UNCHANGED <<config, now, cache>>

\* Google issues the token that gcloud is going to print.
GcloudIssues(c) ==
    /\ req[c].pc = "fetch" /\ req[c].issued = None
    /\ Set(c, [req[c] EXCEPT !.issued = now])
    /\ UNCHANGED <<config, now, lock, queue, cache>>

FetchOk(c) ==
    /\ req[c].pc = "fetch" /\ req[c].issued # None
    /\ cache' = [token |-> req[c].issued, fetched_at |-> now]
    /\ lock' = None
    /\ Set(c, [req[c] EXCEPT !.pc = "sent", !.header = "gcloud"])
    /\ UNCHANGED <<config, now, queue>>

\* Bug: the error is swallowed and the request goes out without a header.
AnonymousFetchFails(c) ==
    /\ req[c].pc = "fetch"
    /\ lock' = None
    /\ Set(c, [req[c] EXCEPT !.pc = "sent", !.issued = None])
    /\ UNCHANGED <<config, now, queue, cache>>

\* Bug: gcloud is tried again until it works, with the mutex held.
RetryingFetchFails(c) ==
    /\ req[c].pc = "fetch"
    /\ Set(c, [req[c] EXCEPT !.issued = None])
    /\ UNCHANGED <<config, now, lock, queue, cache>>

\* gcloud cannot be run, exits with an error or prints nothing. The cache is
\* left alone and the next in line tries again.
FetchFails(c) ==
    /\ req[c].pc = "fetch"
    /\ lock' = None
    /\ Set(c, [req[c] EXCEPT !.pc = "failed", !.issued = None])
    /\ UNCHANGED <<config, now, queue, cache>>

should_authenticate(https) == https /\ (config.enabled \/ config.static)

\* Outside the match set of Azure the request is anonymous. A static token
\* answers; without a credential there is an error; a credential may fail.
AzureHeader(c) ==
    /\ req[c].pc = "azure"
    /\ \/ /\ ~should_authenticate(req[c].https)
          /\ Set(c, [req[c] EXCEPT !.pc = "sent"])
       \/ /\ should_authenticate(req[c].https)
          /\ config.static \/ config.credential
          /\ Set(c, [req[c] EXCEPT !.pc = "sent", !.header = "azure"])
       \/ /\ should_authenticate(req[c].https)
          /\ ~config.static
          /\ Set(c, [req[c] EXCEPT !.pc = "failed"])
    /\ UNCHANGED <<config, now, lock, queue, cache>>

\* The request is answered, or its error is.
Done(c) ==
    /\ req[c].pc \in {"sent", "failed"}
    /\ Set(c, NoRequest)
    /\ UNCHANGED <<config, now, lock, queue, cache>>

\* A token that is issued is printed and read within Delay.
Tick ==
    /\ now < MaxTime
    /\ \A c \in Caller : req[c].pc = "fetch" /\ req[c].issued # None
                             => now - req[c].issued < Delay
    /\ now' = now + 1
    /\ UNCHANGED <<config, lock, queue, cache, req>>

CallerStep(c) ==
    \/ \E kind \in Kind, https \in BOOLEAN : Begin(c, kind, https)
    \/ TokenCached(c)
    \/ FetchStart(c)
    \/ GcloudIssues(c)
    \/ FetchOk(c)
    \/ FetchFails(c)
    \/ AzureHeader(c)
    \/ Done(c)

Next == Tick \/ \E c \in Caller : CallerStep(c)

Spec == Init /\ [][Next]_vars

\* The runtime polls whoever gets the mutex. That gcloud ends is assumed: it
\* has no timeout.
Fairness ==
    \A c \in Caller : /\ WF_vars(TokenCached(c) \/ FetchStart(c))
                      /\ WF_vars(FetchOk(c) \/ FetchFails(c))

LiveSpec == Spec /\ Fairness

-----------------------------------------------------------------------------
(* Properties *)

\* Every variable keeps its shape.
TypeOK ==
    /\ config \in Config
    /\ now \in Time
    /\ lock \in Caller \cup {None}
    /\ queue \in Seq(Caller)
    /\ cache \in [token : Time \cup {None}, fetched_at : Time \cup {None}]
    /\ req \in [Caller -> [pc : RequestPC, kind : Kind, https : BOOLEAN,
                           header : Header, issued : Time \cup {None}]]

\* The mutex is held exactly by the caller whose gcloud is running, so at most
\* one runs (bearer_token holds it across the fetch).
LockIsFetch == \A c \in Caller : lock = c <=> req[c].pc = "fetch"

\* Whoever waits for the mutex stands in its queue, once, and nobody else does.
Waiting == {c \in Caller : req[c].pc = "lock"}
Listed(q) == {q[i] : i \in 1 .. Len(q)}
QueueIsWaiting ==
    /\ Waiting = Listed(queue)
    /\ \A i, j \in 1 .. Len(queue) : queue[i] = queue[j] => i = j

\* What is known of a token: it is as old as its issue, was stored within Delay
\* of it, and a request waiting for gcloud has one only if it was issued.
TokenAges ==
    /\ cache.token = None <=> cache.fetched_at = None
    /\ cache.token # None =>
         /\ cache.token <= cache.fetched_at /\ cache.fetched_at <= now
         /\ cache.fetched_at - cache.token <= Delay
    /\ \A c \in Caller : req[c].pc = "fetch" /\ req[c].issued # None =>
         req[c].issued <= now /\ now - req[c].issued <= Delay
    /\ \A c \in Caller : req[c].pc \in {"idle", "lock"} => req[c].issued = None

\* While gcloud runs the cached token is out of date.
FetchIsDue == \A c \in Caller : req[c].pc = "fetch" => ~fresh

\* A skill's request turns to Azure only when gcloud is not the mode, and comes
\* there without a header.
AzureComesSecond ==
    \A c \in Caller : req[c].pc = "azure" =>
        /\ req[c].header = "none"
        /\ req[c].kind = "skill" => ~config.gcloud

AuthInv ==
    /\ TypeOK /\ LockIsFetch /\ QueueIsWaiting
    /\ TokenAges /\ FetchIsDue /\ AzureComesSecond

\* Nobody waits for a mutex that stays where it is: its holder's gcloud may end at
\* any time, and when it is free the head of the queue is a caller that takes it.
HolderEnds(c) == lock = c /\ req[c].pc = "fetch"
HeadTakes(c) == lock = None /\ req[c].pc = "lock" /\ Head(queue) = c
MutexMoves ==
    Waiting # {} => \E c \in Caller : HolderEnds(c) \/ HeadTakes(c)

\* A request goes out without a header only where none is due: "not as an
\* anonymous request the cluster Gateway would then reject" (the doc of
\* resolve_auth_header), and a registry that wants the Azure token gets it or
\* is not asked.
Anonymous(c) == req[c].pc = "sent" /\ req[c].header = "none"
NoAnonymousSend ==
    \A c \in Caller : Anonymous(c) =>
        /\ ~should_authenticate(req[c].https)
        /\ req[c].kind = "skill" => ~config.gcloud

\* Callers that waited behind a fetch share its token: two tokens are stored no
\* sooner after each other than the TTL, whatever queued up meanwhile.
SpacedFetches ==
    [][cache' # cache /\ cache.fetched_at # None
         => cache'.fetched_at - cache.fetched_at >= TTL]_vars

\* No request is sent with a token that is over: the TTL leaves room for the
\* time between the issue of a token and its storage.
TokensUsable ==
    [][\A c \in Caller :
         req[c].pc # "sent" /\ req'[c].pc = "sent" /\ req'[c].header = "gcloud"
           => req'[c].issued # None /\ now - req'[c].issued <= Validity]_vars

\* If every gcloud ends, whoever asks for a token gets an answer, behind any
\* number of failed fetches of others.
Served == \A c \in Caller : req[c].pc \in {"lock", "fetch"}
                                ~> req[c].pc \notin {"lock", "fetch"}
=============================================================================
