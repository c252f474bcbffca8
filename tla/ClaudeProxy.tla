------------------------------ MODULE ClaudeProxy ------------------------------
(***************************************************************************)
(* claude_proxy/server.py: one asyncio process that holds the credentials. *)
(* A handler owns the event loop from one await to the next.  The keychain *)
(* reads are synchronous subprocesses, so `loop` is the request that has   *)
(* the loop blocked.  What it forwards to (Anthropic, and LiteLLM on the   *)
(* local path) is external, and so are the keychain and the clock.         *)
(***************************************************************************)
EXTENDS Common, Sequences

CONSTANTS
    Requests,             \* slots for HTTP requests, each used once
    Asks,                 \* the requests clients make (see AskShape)
    Configs,              \* settings the process may start with (see ConfigShape)
    Tokens,               \* OAuth tokens the keychain may come to hold
    Retries,              \* RETRY_429_ATTEMPTS
    BaseDelay, MaxDelay,  \* RETRY_429_BASE_DELAY, RETRY_429_MAX_DELAY
    TTL,                  \* _TOKEN_TTL
    ReadMax,              \* bound: the keychain subprocess is killed by then
    MaxChanges            \* bound: how often the keychain changes

\* `large` is _estimate_tokens() > ROUTE_LONG_MAX; `auth` is whether the client
\* sent a credential of its own; `json` is whether the body parses.
AskShape == [endpoint : {"messages", "subscription", "apikey", "health"},
             large : BOOLEAN, stream : BOOLEAN, auth : BOOLEAN, json : BOOLEAN]

\* CLAUDE_PROXY_LARGE_CTX_MODE, CLAUDE_AUTH_MODE, and whether the environment
\* has ANTHROPIC_API_KEY.
ConfigShape == [largeCtx : {"passthrough", "apikey"},
                authMode : {"subscription", "apikey"}, envKey : BOOLEAN]

ASSUME ProxyAssumption ==
    /\ Asks \subseteq AskShape /\ Configs \subseteq ConfigShape
    /\ Retries \in Nat /\ BaseDelay \in Nat /\ MaxDelay \in Nat
    /\ TTL \in Nat \ {0} /\ ReadMax \in Nat /\ MaxChanges \in Nat
    /\ None \notin Requests \cup Tokens /\ None \notin {"nokey", "key", "envkey"} /\ None \notin Asks
    /\ Tokens \cap {"client", "none", "key", "envkey"} = {}

VARIABLES
    now,
    config,      \* what the process read at start-up
    vault,       \* the keychain: the OAuth token or None, whether there is a key,
                 \* and how often either has changed
    tokenCache,  \* _token_cache
    keyCache,    \* _api_key_cache
    loop,        \* the request blocking the loop in a keychain read, or None
    req,         \* the handlers
    tokenHeld,   \* history: when the keychain last held each token
    keyHeld      \* history: when the keychain last held the key

caches == <<tokenCache, keyCache>>
world == <<now, vault, tokenHeld, keyHeld>>
vars == <<world, config, caches, loop, req>>

Credentials == Tokens \cup {"client", "none", "key", "envkey"}
Places == {"none", "token", "key", "wait", "sleep", "body", "done"}
UpstreamStatuses == {200, 401, 429}   \* a success, a refusal, the quota
Statuses == {0, 400, 500} \cup UpstreamStatuses

Bodies == {"none", "whole", "cut", "available", "unavailable"}

\* A handler: what it was asked, where it is, when it began, its clock read, the
\* credential it sends, its attempt, the statuses it was answered with, when its
\* sleep ends, its connection, and what it hands back.
HandlerShape ==
    [ask : Asks \cup {None}, at : Places, began : Nat, clock : Nat, cred : Credentials,
     attempt : 0..Retries, answers : Seq(UpstreamStatuses), wake : Nat,
     conn : {"none", "open", "closed"}, status : Statuses, body : Bodies]

\* Nothing in a behaviour is this long ago.
Never == -(TTL + 1)

Unused == [ask |-> None, at |-> "none", began |-> 0, clock |-> 0, cred |-> "none",
           attempt |-> 0, answers |-> <<>>, wake |-> 0,
           conn |-> "none", status |-> 0, body |-> "none"]

Init ==
    /\ now = 0
    /\ config \in Configs
    /\ vault \in [token : Tokens \cup {None}, key : BOOLEAN, changes : {0}]
    /\ tokenCache = [token |-> None, expires |-> 0]
    /\ keyCache = [key |-> None, expires |-> 0]
    /\ loop = None
    /\ req = [r \in Requests |-> Unused]
    /\ tokenHeld = [t \in Tokens |-> IF vault.token = t THEN 0 ELSE Never]
    /\ keyHeld = IF vault.key THEN 0 ELSE Never

----------------------------------------------------------------------------
(* Handlers *)

\* r is at `place` and the loop is free to run it.
At(r, place) == req[r].at = place /\ loop \in {None, r}

\* The handler returns; its locals are gone.
End(rec, status) ==
    [rec EXCEPT !.at = "done", !.clock = 0, !.cred = "none", !.conn = "closed", !.status = status]

\* The headers are built and the request leaves for the upstream.
Send(rec, cred) == [rec EXCEPT !.at = "wait", !.clock = 0, !.cred = cred, !.conn = "open"]

\* The handler of a request `a`, with its body read.  From here to the next
\* await, or to the keychain read, it is not interrupted.
Started(a) == [Unused EXCEPT !.ask = a, !.began = now]
Starts(r, a, endpoint) == At(r, "none") /\ a.endpoint = endpoint /\ a.json

\* The body is not JSON: 400 on every POST.
Refuse(r, a) ==
    /\ At(r, "none") /\ a.endpoint # "health" /\ ~a.json
    /\ req' = [req EXCEPT ![r] = End(Started(a), 400)]
    /\ UNCHANGED <<world, config, caches, loop>>

\* _build_upstream_headers(): the client's own credential, or the environment's key.
UpstreamCredential(a) ==
    IF config.largeCtx = "passthrough"
    THEN IF a.auth THEN "client" ELSE "none"
    ELSE IF config.envKey THEN "envkey" ELSE None

\* POST /v1/messages, _route_local(): translated and handed to LiteLLM, with no
\* credential.
RouteLocal(r, a) ==
    /\ Starts(r, a, "messages") /\ ~a.large
    /\ req' = [req EXCEPT ![r] = Send(Started(a), "none")]
    /\ UNCHANGED <<world, config, caches, loop>>

\* POST /v1/messages, _route_upstream(): to Anthropic as it came, with
\* UpstreamCredential(), or 500 when that raises.
RouteUpstream(r, a) ==
    /\ Starts(r, a, "messages") /\ a.large
    /\ LET cred == UpstreamCredential(a)
       IN  req' = [req EXCEPT ![r] =
             IF cred = None THEN End(Started(a), 500) ELSE Send(Started(a), cred)]
    /\ UNCHANGED <<world, config, caches, loop>>

\* POST /subscription/v1/messages with CLAUDE_AUTH_MODE=apikey.
SubscriptionByKey(r, a) ==
    /\ Starts(r, a, "subscription") /\ config.authMode = "apikey"
    /\ req' = [req EXCEPT ![r] =
         IF config.envKey THEN Send(Started(a), "envkey") ELSE End(Started(a), 500)]
    /\ UNCHANGED <<world, config, caches, loop>>

\* _get_subscription_token(): a hit, or the start of a keychain read that
\* blocks the loop; the lifetime will count from the clock read before it.
\* Mutant: <= for <.
TokenFreshInclusive == tokenCache.token # None /\ now <= tokenCache.expires

TokenFresh == tokenCache.token # None /\ now < tokenCache.expires

SubscriptionToken(r, a) ==
    /\ Starts(r, a, "subscription") /\ config.authMode = "subscription"
    /\ IF TokenFresh
       THEN /\ req' = [req EXCEPT ![r] = Send(Started(a), tokenCache.token)]
            /\ UNCHANGED loop
       ELSE /\ req' = [req EXCEPT ![r] = [Started(a) EXCEPT !.at = "token", !.clock = now]]
            /\ loop' = r
    /\ UNCHANGED <<world, config, caches>>

StoreToken(r) ==
    /\ At(r, "token") /\ vault.token # None
    /\ tokenCache' = [token |-> vault.token, expires |-> req[r].clock + TTL]
    /\ req' = [req EXCEPT ![r] = Send(@, vault.token)]
    /\ loop' = None
    /\ UNCHANGED <<world, config, keyCache>>

\* An entry without a token, a locked keychain or a timeout raises: 500, and
\* the cache keeps what it had.
NoToken(r) ==
    /\ At(r, "token")
    /\ req' = [req EXCEPT ![r] = End(@, 500)]
    /\ loop' = None
    /\ UNCHANGED <<world, config, caches>>

\* What a caller of _get_api_key() does with its answer: /health reports it,
\* /apikey forwards with it or answers 401.
WithKey(rec, key) ==
    IF rec.ask.endpoint = "health"
    THEN [End(rec, 200) EXCEPT !.body = IF key = "nokey" THEN "unavailable" ELSE "available"]
    ELSE IF key = "nokey" THEN End(rec, 401) ELSE Send(rec, key)

KeyFresh == keyCache.key # None /\ now < keyCache.expires

NeedKey(r, a) ==
    /\ Starts(r, a, "apikey") \/ Starts(r, a, "health")
    /\ IF KeyFresh
       THEN /\ req' = [req EXCEPT ![r] = WithKey(Started(a), keyCache.key)]
            /\ UNCHANGED loop
       ELSE /\ req' = [req EXCEPT ![r] = [Started(a) EXCEPT !.at = "key", !.clock = now]]
            /\ loop' = r
    /\ UNCHANGED <<world, config, caches>>

\* Whatever fails in the read leaves the environment's key; a miss (the code's empty
\* string) is cached too.
KeysRead == {IF config.envKey THEN "envkey" ELSE "nokey"} \cup (IF vault.key THEN {"key"} ELSE {})

StoreKey(r) ==
    /\ At(r, "key")
    /\ \E key \in KeysRead :
         /\ keyCache' = [key |-> key, expires |-> req[r].clock + TTL]
         /\ req' = [req EXCEPT ![r] = WithKey(@, key)]
    /\ loop' = None
    /\ UNCHANGED <<world, config, tokenCache>>

----------------------------------------------------------------------------
(* _forward_messages(), _route_upstream() and _route_local() *)

\* Only the subscription and apikey endpoints go through the 429 loop.
InRetryLoop(rec) == rec.ask.endpoint \in {"subscription", "apikey"}

\* _retry_delay(): a numeric Retry-After or, without one, exponential backoff;
\* clamped.  A Retry-After that is a date counts as none.
RetryDelay(attempt, retryAfter) ==
    LET asked == IF retryAfter = None THEN BaseDelay * 2 ^ attempt
                 ELSE IF retryAfter < 0 THEN 0 ELSE retryAfter
    IN  IF asked < MaxDelay THEN asked ELSE MaxDelay

\* Mutant: the last attempt sleeps and retries too.
MayRetryTooOften(rec, status) == status = 429 /\ InRetryLoop(rec) /\ rec.attempt <= Retries

MayRetry(rec, status) == status = 429 /\ InRetryLoop(rec) /\ rec.attempt < Retries

\* Returning from inside `async with client.stream(...)` closes the response
\* before the server iterates the StreamingResponse's generator.
ConnAfterReturn == "closed"

\* What a handler does with an answer it does not retry.  A 200 that was asked
\* to stream becomes a StreamingResponse; any other answer is read whole and
\* handed back.
Answered(rec, status) ==
    LET a == [rec EXCEPT !.answers = Append(@, status)]
    IN  IF status = 200 /\ a.ask.stream
        THEN [End(a, 200) EXCEPT !.at = "body", !.conn = ConnAfterReturn]
        ELSE [End(a, status) EXCEPT !.body = "whole"]

\* LiteLLM answers _route_local().
LocalAnswer(r, status) ==
    /\ At(r, "wait") /\ req[r].ask.endpoint = "messages" /\ ~req[r].ask.large
    /\ req' = [req EXCEPT ![r] = Answered(@, status)]
    /\ UNCHANGED <<world, config, caches, loop>>

\* Anthropic answers _route_upstream(): every status is handed back, a 429 too.
UpstreamAnswer(r, status) ==
    /\ At(r, "wait") /\ req[r].ask.endpoint = "messages" /\ req[r].ask.large
    /\ req' = [req EXCEPT ![r] = Answered(@, status)]
    /\ UNCHANGED <<world, config, caches, loop>>

\* Anthropic answers _forward_messages() with anything but a 429 that is retried.
ForwardAnswer(r, status) ==
    /\ At(r, "wait") /\ InRetryLoop(req[r]) /\ ~MayRetry(req[r], status)
    /\ req' = [req EXCEPT ![r] = Answered(@, status)]
    /\ UNCHANGED <<world, config, caches, loop>>

\* A 429 with attempts left: drain, leave the response, sleep.
BackOff(r, retryAfter) ==
    /\ At(r, "wait") /\ MayRetry(req[r], 429)
    /\ LET q == req[r]
           d == RetryDelay(q.attempt, retryAfter)
       IN  req' = [req EXCEPT ![r] = [q EXCEPT !.at = "sleep", !.conn = "closed",
                     !.answers = Append(@, 429), !.wake = now + d]]
    /\ UNCHANGED <<world, config, caches, loop>>

\* httpx raises (connect error, 360 s timeout): nothing catches it, FastAPI
\* answers 500, on whichever attempt.
UpstreamFails(r) ==
    /\ At(r, "wait")
    /\ req' = [req EXCEPT ![r] = End(@, 500)]
    /\ UNCHANGED <<world, config, caches, loop>>

\* asyncio.sleep() is over; the headers are those built before the loop.
NextAttempt(r) ==
    /\ At(r, "sleep") /\ req[r].wake <= now
    /\ req' = [req EXCEPT ![r].at = "wait", ![r].wake = 0, ![r].attempt = @ + 1, ![r].conn = "open"]
    /\ UNCHANGED <<world, config, caches, loop>>

\* Whether the generator gets to the end of the body.  httpx refuses to read a closed
\* response; and were it open, _stream_openai_to_anthropic() would still decode the
\* lines of LiteLLM's answer, which aiter_lines() gives it as text, and raise at once.
Readable(rec) == rec.conn = "open" /\ ~(rec.ask.endpoint = "messages" /\ ~rec.ask.large)

\* The server iterates the generator.
StreamBody(r) ==
    /\ At(r, "body")
    /\ req' = [req EXCEPT ![r].at = "done",
                          ![r].body = IF Readable(req[r]) THEN "whole" ELSE "cut",
                          ![r].conn = "closed"]
    /\ UNCHANGED <<world, config, caches, loop>>

----------------------------------------------------------------------------
(* The world *)

\* Bound: a keychain read takes at most ReadMax.
Tick ==
    /\ now < MaxTime
    /\ loop # None => now - req[loop].clock < ReadMax
    /\ now' = now + 1
    /\ tokenHeld' = [t \in Tokens |-> IF vault.token = t THEN now + 1 ELSE tokenHeld[t]]
    /\ keyHeld' = IF vault.key THEN now + 1 ELSE keyHeld
    /\ UNCHANGED <<vault, config, caches, loop, req>>

\* The token is removed or replaced by a new one.
Rotate(t) ==
    /\ t # vault.token /\ (t # None => tokenHeld[t] = Never)
    /\ vault.changes < MaxChanges
    /\ vault' = [vault EXCEPT !.token = t, !.changes = @ + 1]
    /\ tokenHeld' = IF t = None THEN tokenHeld ELSE [tokenHeld EXCEPT ![t] = now]
    /\ UNCHANGED <<now, keyHeld, config, caches, loop, req>>

\* The key is added to the keychain, or removed.
ToggleKey ==
    /\ vault.changes < MaxChanges
    /\ vault' = [vault EXCEPT !.key = ~@, !.changes = @ + 1]
    /\ keyHeld' = IF vault.key THEN keyHeld ELSE now
    /\ UNCHANGED <<now, tokenHeld, config, caches, loop, req>>

RetryAfters == {None, -1, MaxDelay + 1}

Handler(r) ==
    \/ \E a \in Asks : \/ Refuse(r, a) \/ RouteLocal(r, a) \/ RouteUpstream(r, a)
                      \/ SubscriptionByKey(r, a) \/ SubscriptionToken(r, a) \/ NeedKey(r, a)
    \/ StoreToken(r) \/ NoToken(r) \/ StoreKey(r) \/ NextAttempt(r) \/ StreamBody(r)

Upstream(r) ==
    \/ \E status \in UpstreamStatuses :
         LocalAnswer(r, status) \/ UpstreamAnswer(r, status) \/ ForwardAnswer(r, status)
    \/ \E header \in RetryAfters : BackOff(r, header)
    \/ UpstreamFails(r)

Next ==
    \/ \E r \in Requests : Handler(r) \/ Upstream(r)
    \/ (\E t \in Tokens \cup {None} : Rotate(t)) \/ ToggleKey
    \/ Tick

Spec == Init /\ [][Next]_vars

----------------------------------------------------------------------------
(* Properties *)

\* Every variable has its type, and the loop is blocked by the handler that is
\* inside a keychain read, and by no other.
TypeOK ==
    /\ now \in 0..MaxTime
    /\ config \in Configs
    /\ vault \in [token : Tokens \cup {None}, key : BOOLEAN, changes : 0..MaxChanges]
    /\ tokenCache \in [token : Tokens \cup {None}, expires : Nat]
    /\ keyCache \in [key : {None, "nokey", "key", "envkey"}, expires : Nat]
    /\ loop \in Requests \cup {None}
    /\ req \in [Requests -> HandlerShape]
    /\ \A r \in Requests : req[r].at \in {"token", "key"} <=> loop = r
    /\ tokenHeld \in [Tokens -> Int] /\ keyHeld \in Int

\* The 429 loop (_forward_messages): at most Retries + 1 requests leave for
\* Anthropic, only a 429 is ever followed by another, a 429 is handed to LiteLLM
\* -- whose fallback to a local model it triggers -- only when the budget is
\* spent, what is handed back is the last answer, and Retry-After cannot make
\* the client wait for more than MaxDelay an attempt.
RetryDiscipline ==
    \A r \in Requests :
        LET q == req[r]  n == Len(q.answers)
        IN  /\ n <= Retries + 1 /\ (n > 1 => InRetryLoop(q))
            /\ \A i \in 1..(n - 1) : q.answers[i] = 429
            /\ q.at = "done" /\ n > 0 => q.status \in {500, q.answers[n]}
            /\ q.at = "done" /\ q.status = 429 /\ InRetryLoop(q) => n = Retries + 1
            /\ q.at = "sleep" => q.wake <= now + MaxDelay

\* The credential a request leaves with was in the keychain less than a TTL
\* before the request began: rotation is noticed within _TOKEN_TTL, however
\* long the reads take; retries add their own time to that, since the headers
\* are built once.  And a /health that says there is a key knows it as recently.
CredentialRecent ==
    \A r \in Requests :
        LET q == req[r]
            used == IF q.at = "wait" THEN q.cred
                    ELSE IF q.body = "available" /\ ~config.envKey THEN "key" ELSE "none"
        IN  /\ used \in Tokens => tokenHeld[used] > q.began - TTL
            /\ used = "key" => keyHeld > q.began - TTL

\* The header of claude_proxy/server.py: streaming "is transparently proxied on
\* all paths".  A streamed answer that has ended has all of its body.
StreamsAreProxied ==
    \A r \in Requests : req[r].at = "done" /\ req[r].status = 200 => req[r].body # "cut"

============================================================================
