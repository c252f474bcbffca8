------------------------------ MODULE SizeRouting ------------------------------
(***************************************************************************)
(* How long a request is, and where its length sends it.                   *)
(* router/route_by_size.py: _estimate_tokens() with the lazily loaded      *)
(* tokenizer that worker threads share, the size rules of decide_tier()    *)
(* and decide_tier_cline(), _try_turbo_escalation(); the backends of       *)
(* router/backend_registry.py.  Lengths are in units of a tenth of         *)
(* ROUTE_LONG_MAX or so; the fractions are the code's.                     *)
(***************************************************************************)
EXTENDS Common, Sequences, SequencesExt

CONSTANTS
    Workers,        \* threads with a request each
    RouteLongMax,   \* ROUTE_LONG_MAX
    Sizes,          \* lengths of requests, as they are and as the heuristic has them
    Windows         \* max_context of the turbo backends, by name

ASSUME SizeAssumption ==
    /\ RouteLongMax \in Nat /\ Sizes \subseteq Nat /\ Windows \in [TurboModels -> Nat]
    /\ None \notin Workers /\ None \notin TurboModels

VARIABLES
    encoder,    \* _TIKTOKEN_ENCODER: is it there
    disabled,   \* _TIKTOKEN_DISABLED
    lock,       \* _TIKTOKEN_LOCK: who holds it
    turboOn,    \* TURBO_ENABLED
    work,       \* each worker's request
    loads       \* history: how often the tokenizer was loaded

sizeVars == <<encoder, disabled, lock, turboOn, work, loads>>

Band == RouteLongMax \div 5              \* ROUTER_BOUNDARY_BAND
SaturationLimit == (RouteLongMax * 85) \div 100
Shrunk(tokens) == (tokens * 65) \div 100   \* context_compression.compress()

Distance(a, b) == IF a > b THEN a - b ELSE b - a

\* Mutant: the edges of the band are outside it.
NearExclusive(tokens) == RouteLongMax > 0 /\ Distance(tokens, RouteLongMax) < Band

NearTierBoundary(tokens) == RouteLongMax > 0 /\ Distance(tokens, RouteLongMax) <= Band

\* What the heuristic says of a text, and what the tokenizer would: any two lengths.
Requests ==
    [at : {"estimate"}, cline : BOOLEAN, heuristic : Sizes, true : Sizes,
     estimate : {0}, gaveUp : {FALSE}, model : {None}]

Work == [Workers -> Requests]

SizeInit ==
    /\ encoder = FALSE /\ disabled \in BOOLEAN /\ lock = None
    /\ turboOn \in BOOLEAN
    /\ work \in Work
    /\ loads = 0

\* The estimate is made; gaveUp (history) if it should have been exact and is not.
Estimated(w, tokens, without) ==
    work' = [work EXCEPT ![w].at = "decide", ![w].estimate = tokens, ![w].gaveUp = without]

\* enc.encode() counts the tokens, or raises and the heuristic stands.
Encoded(w) == Estimated(w, work[w].true, FALSE) \/ Estimated(w, work[w].heuristic, TRUE)

\* Off the boundary, or without a tokenizer: chars / 3.6.
Heuristic(w) ==
    /\ work[w].at = "estimate"
    /\ ~NearTierBoundary(work[w].heuristic) \/ disabled
    /\ Estimated(w, work[w].heuristic, NearTierBoundary(work[w].heuristic))
    /\ UNCHANGED <<encoder, disabled, lock, turboOn, loads>>

Tokenize(w) ==
    /\ work[w].at = "estimate"
    /\ NearTierBoundary(work[w].heuristic) /\ ~disabled /\ encoder
    /\ Encoded(w)
    /\ UNCHANGED <<encoder, disabled, lock, turboOn, loads>>

\* The tokenizer is not there: wait for the lock.
WantEncoder(w) ==
    /\ work[w].at = "estimate"
    /\ NearTierBoundary(work[w].heuristic) /\ ~disabled /\ ~encoder
    /\ work' = [work EXCEPT ![w].at = "lock"]
    /\ UNCHANGED <<encoder, disabled, lock, turboOn, loads>>

\* With the lock, the encoder is looked for again; _TIKTOKEN_DISABLED is not.
Lock(w) ==
    /\ work[w].at = "lock" /\ lock = None
    /\ IF encoder THEN Encoded(w) /\ UNCHANGED lock
                  ELSE lock' = w /\ work' = [work EXCEPT ![w].at = "load"]
    /\ UNCHANGED <<encoder, disabled, turboOn, loads>>

\* import tiktoken: it works, or nobody will try again that has not begun to.
Load(w) ==
    /\ work[w].at = "load" /\ lock' = None
    /\ \/ encoder' = TRUE /\ loads' = loads + 1 /\ Encoded(w) /\ UNCHANGED disabled
       \/ encoder' = FALSE /\ disabled' = TRUE /\ Estimated(w, work[w].heuristic, TRUE) /\ UNCHANGED loads
    /\ UNCHANGED turboOn

\* backend-registry.yaml: tier_order.
TierOrder == <<"local-long-128k", "local-turbo-256k", "local-turbo-512k">>

\* The first turbo tier of the order that holds the tokens.
PickTurboBackend(tokens) ==
    LET fits == {i \in DOMAIN TierOrder : TierOrder[i] \in TurboModels /\ tokens <= Windows[TierOrder[i]]}
    IN  IF turboOn /\ fits # {} THEN TierOrder[Min(fits)] ELSE None

\* Where the length sends the request: decide_tier() above ROUTE_LONG_MAX,
\* decide_tier_cline() above the saturation limit, by way of the turbo backends.
Routed(cline, tokens) ==
    IF ~cline THEN IF tokens > RouteLongMax THEN "claude-code" ELSE "local-long"
    ELSE IF tokens <= SaturationLimit THEN "local-long"
    ELSE IF PickTurboBackend(Shrunk(tokens)) # None THEN PickTurboBackend(Shrunk(tokens)) ELSE "claude-code"

Decide(w) ==
    /\ work[w].at = "decide"
    /\ work' = [work EXCEPT ![w].at = "done", ![w].model = Routed(work[w].cline, work[w].estimate)]
    /\ UNCHANGED <<encoder, disabled, lock, turboOn, loads>>

Estimate(w) == Heuristic(w) \/ Tokenize(w) \/ WantEncoder(w) \/ Lock(w) \/ Load(w) \/ Decide(w)

SizeNext == \E w \in Workers : Estimate(w)

SizeSpec == SizeInit /\ [][SizeNext]_sizeVars

----------------------------------------------------------------------------
(* Properties *)

\* Which side of ROUTE_LONG_MAX a request was sent to: to Claude for its length
\* alone, or, of a Cline turn, to local-long although it is longer.
Misplaced(r) ==
    IF r.cline THEN r.model = "local-long" /\ r.true > RouteLongMax
               ELSE (r.model = "claude-code") # (r.true > RouteLongMax)

\* "Outside the band, we trust the heuristic": whatever it says and whichever thread
\* finds the tokenizer missing, a request on the wrong side of the line got there by an
\* error of the heuristic's that is wider than the whole band, or because the tokenizer
\* was not to be had or failed on its text.  Inside the band nothing else misplaces one.
RightSideOfTheLine ==
    \A w \in Workers : work[w].at = "done" /\ Misplaced(work[w]) =>
        work[w].gaveUp \/ Distance(work[w].heuristic, work[w].true) > Band

\* Threads that miss the tokenizer together load it once.
LoadedOnce == loads <= 1

\* A request is sent where its true length belongs, by an estimate that is made exact
\* where it could err, with a tokenizer that racing threads load once.
SizedRight == RightSideOfTheLine /\ LoadedOnce

\* route_by_size.py:239-242: "context-saturated requests are first compressed ... and,
\* if the compressed token count fits a local turbo backend ..., routed there", so that
\* a turbo backend gets what it can hold.  (The hook compresses nothing: the request
\* goes on at its full length, here one that was counted exactly.)
TurboHolds ==
    \A w \in Workers : work[w].at = "done" /\ work[w].estimate = work[w].true /\ work[w].model \in TurboModels
        => work[w].true <= Windows[work[w].model]
============================================================================
