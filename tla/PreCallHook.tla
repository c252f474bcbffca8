----------------------------- MODULE PreCallHook -----------------------------
(***************************************************************************)
(* router/route_by_size.py: SizeBasedRouter.async_pre_call_hook(), with    *)
(* the sticky table (StickyEscalation), the reachability cache             *)
(* (OfflineVerdict) and the API-key health cache it composes, the key      *)
(* cache of claude_proxy/server.py behind that one, and what the ledger    *)
(* later records of the turn.                                              *)
(*                                                                         *)
(* The hook runs on one event loop and gives it up in one place only, the  *)
(* await in _api_key_available().  `loop` is the request that holds it;    *)
(* the world -- time, the network, the operator, the keychain -- moves     *)
(* between any two steps, held or not.                                     *)
(***************************************************************************)
EXTENDS StickyEscalation, OfflineVerdict

CONSTANTS
    Requests,   \* request slots
    Asks,       \* what a request may ask for (see AskShape)
    KeyTTL,     \* _APIKEY_HEALTH_TTL
    ProxyTTL,   \* claude-proxy's _TOKEN_TTL
    HealthMax,  \* bound: httpx gives up on /health by then
    Moving      \* bound: the parts of the world that change in a run

\* The names the YAML gives a Cursor mirror, with the prefix gpt-.
Mirrored == {"hybrid-auto"} \cup LocalAliases \cup (ClaudeAliases \ {"claude-fable-5"})

\* A requested alias is a YAML name, or its mirror.  `task` is the Cline task, or
\* None for any other client and for a Cline request in which no task is found:
\* the prompt is then described by `kind` and `oversized`.
AskShape ==
    [alias : {"hybrid-auto"} \cup LocalAliases \cup Models, mirror : BOOLEAN,
     task : Tasks \cup {None}, kind : Kinds, oversized : BOOLEAN,
     choice : {"haiku", "sonnet", "opus", "fable"}, tools : BOOLEAN]

ASSUME HookAssumption ==
    /\ Asks \subseteq AskShape
    /\ \A ask \in Asks : ask.mirror => ask.alias \in Mirrored
    /\ None \notin Requests /\ None \notin Models
    /\ HealthMax \in Nat /\ KeyTTL \in Nat /\ HealthMax < KeyTTL
    /\ ProxyTTL \in Nat \ {0}
    /\ Moving \subseteq {"network", "setting", "strict", "key"}

VARIABLES
    setting,   \* OFFLINE
    strict,    \* OFFLINE_STRICT
    network,   \* is api.anthropic.com:443 reachable?
    keyHeld,   \* is there an API key in the keychain or the environment?
    cache,     \* offline_mode._cache
    keyCache,  \* _apikey_health_cache
    proxyKey,  \* claude-proxy's _api_key_cache
    req,       \* each request's `data`, metadata and place in the hook
    loop,      \* the request the event loop is running, or None
    lastUp,    \* history: the last time Claude was reachable
    lastKey    \* history: the last time there was a key

table == <<sticky, route, ridden>>
world == <<setting, strict, network, keyHeld, lastUp, lastKey>>
hookVars == <<now, table, world, cache, keyCache, proxyKey, req, loop>>

Places == {"free", "routed", "awaiting", "answered", "escalated", "checked",
           "sent", "rejected", "done"}

\* Nobody's request.
NoAsk == [alias |-> "local-long", mirror |-> FALSE, task |-> None, kind |-> "plain",
          oversized |-> FALSE, choice |-> "haiku", tools |-> FALSE]

Free == [at |-> "free", ask |-> NoAsk, model |-> "local-long", mirror |-> FALSE,
         explicit |-> FALSE, routed |-> None, decision |-> None, asked |-> 0, key |-> FALSE,
         downgraded |-> FALSE, thinking |-> FALSE, marked |-> FALSE, fellBack |-> FALSE]

\* A request: its place in the hook, what it asked, the model and whether that
\* still has its prefix, explicit_claude, what routing chose (history: None for a
\* name), metadata.route_decision, when and how /health was asked, and what later
\* steps and the ledger note of it.
Turns == [at : Places, ask : Asks \cup {NoAsk}, model : Models \cup LocalAliases,
          mirror : BOOLEAN, explicit : BOOLEAN, routed : Models \cup {None},
          decision : Models \cup {None}, asked : Nat, key : BOOLEAN, downgraded : BOOLEAN, thinking : BOOLEAN,
          marked : BOOLEAN, fellBack : BOOLEAN]

KeyVerdicts == [available : BOOLEAN, expires : Nat]
NoKeyYet == [available |-> FALSE, expires |-> 0]

HookTypeOK ==
    /\ TypeOK
    /\ setting \in OfflineSettings
    /\ strict \in BOOLEAN /\ network \in BOOLEAN /\ keyHeld \in BOOLEAN
    /\ cache \in Verdicts \cup {NoVerdict}
    /\ keyCache \in KeyVerdicts /\ proxyKey \in KeyVerdicts
    /\ req \in [Requests -> Turns]
    /\ \A r \in Requests : req[r].at \in {"routed", "escalated", "checked"} <=> loop = r
    /\ loop \in Requests \cup {None}
    /\ lastUp \in Nat /\ lastKey \in Nat

HookInit ==
    /\ Init
    /\ setting \in OfflineSettings /\ ("setting" \notin Moving => setting = "auto")
    /\ strict \in BOOLEAN /\ ("strict" \notin Moving => ~strict)
    /\ network \in BOOLEAN /\ ("network" \notin Moving => network)
    /\ keyHeld \in BOOLEAN /\ ("key" \notin Moving => ~keyHeld)
    /\ cache = NoVerdict
    /\ keyCache = NoKeyYet /\ proxyKey = NoKeyYet
    /\ req = [r \in Requests |-> Free]
    /\ loop = None
    /\ lastUp = 0 /\ lastKey = 0

-----------------------------------------------------------------------------
(* Model names *)

\* The gpt- names the hook rewrites to their canonical alias on arrival.
Stripped == {"hybrid-auto", "local-long", "local-agent", "claude-code",
             "claude-haiku-4-5", "claude-sonnet-5", "claude-opus-4-8"}

KeepsMirror(ask) == ask.mirror /\ ask.alias \notin Stripped

\* offline_mode.is_claude_model(): with or without the gpt- prefix.
IsClaude(model) == model \in ClaudeAliases

\* explicit_claude: the name asked for, not the one routing made of it.
NamesClaude(ask) == IsClaude(ask.alias) /\ ~KeepsMirror(ask)

\* _ESCALATION_MODELS
ChoiceModel(choice) ==
    CASE choice = "haiku"  -> "claude-code"
      [] choice = "sonnet" -> "claude-sonnet-5"
      [] choice = "opus"   -> "claude-opus-4-8"
      [] choice = "fable"  -> "claude-fable-5"

\* "haiku" in _resolved_claude_model(name), with CLAUDE_CODE_MODEL at its default.
ResolvesToHaiku(model) == model \in {"claude-code", "claude-haiku-4-5"}

\* Names with an entry under router_settings.fallbacks.
HasFallback == {"claude-code", "claude-sonnet-5", "claude-opus-4-8"}

-----------------------------------------------------------------------------
(* Steps of the hook, each holding the event loop *)

Goes(r, step) == req' = [req EXCEPT ![r] = step]

At(r, place) == req[r].at = place /\ loop = r

\* One call of is_offline() by the hook; single-threaded, so in one step.
Consult(offline) ==
    \/ IsFresh(cache, now) /\ offline = ~cache.online /\ UNCHANGED cache
    \/ /\ ~IsFresh(cache, now)
       /\ offline = ~Reachable(setting, network)
       /\ cache' = [online |-> ~offline, ts |-> now]

\* decide_tier(): a model tag, complexity, then size -- [local] is not complex,
\* so the size rule still applies to it.
DecideTier(ask, offline) ==
    LET model == IF ask.kind \in OverrideAliases THEN ask.kind
                 ELSE IF ask.kind = "complex" \/ ask.oversized THEN "claude-code"
                 ELSE "local-long"
    IN IF offline THEN Fallback ELSE model

\* Mutant: explicit_claude is taken from the model after routing.
ArrivedByModel(ask, model, decision) ==
    [Free EXCEPT !.at = "routed", !.ask = ask, !.model = model,
                 !.mirror = KeepsMirror(ask), !.explicit = IsClaude(model),
                 !.routed = decision, !.decision = decision]

Arrived(ask, model, decision) ==
    [Free EXCEPT !.at = "routed", !.ask = ask, !.model = model,
                 !.mirror = KeepsMirror(ask), !.explicit = NamesClaude(ask),
                 !.routed = decision, !.decision = decision]

\* A new request takes the loop: gpt- prefix stripped, no routing to do.
NamedModel(r, ask) ==
    /\ ask.alias # "hybrid-auto"
    /\ Goes(r, Arrived(ask, ask.alias, None))
    /\ UNCHANGED <<now, table, cache>>

\* hybrid-auto from Cline: decide_tier_cline() on the task.
HybridCline(r, ask) ==
    /\ ask.alias = "hybrid-auto" /\ ask.task # None
    /\ \E offline \in BOOLEAN :
         /\ Consult(offline)
         /\ DecideTierCline(ask.task, offline)
    /\ Goes(r, Arrived(ask, route'.model, route'.model))

\* hybrid-auto from anyone else, or from Cline without a task: decide_tier() on
\* the prompt.
HybridOther(r, ask) ==
    /\ ask.alias = "hybrid-auto" /\ ask.task = None
    /\ \E offline \in BOOLEAN :
         /\ Consult(offline)
         /\ LET model == DecideTier(ask, offline) IN Goes(r, Arrived(ask, model, model))
    /\ UNCHANGED <<now, table>>

Route(r, ask) ==
    /\ loop = None
    /\ req[r].at = "free"
    /\ NamedModel(r, ask) \/ HybridCline(r, ask) \/ HybridOther(r, ask)
    /\ loop' = r
    /\ UNCHANGED <<world, keyCache, proxyKey>>

\* Mutant: the escalation header counts on every tier.
WantsKeyAnyTier(r) == req[r].ask.choice # "haiku"

\* The escalation header counts only on the claude-code tier.
WantsKey(r) == req[r].model = "claude-code" /\ ~req[r].mirror /\ req[r].ask.choice # "haiku"

\* What _api_key_available() said decides between the choice and claude-code.
Escalated(q, available) ==
    IF available
    THEN [q EXCEPT !.at = "escalated", !.model = ChoiceModel(q.ask.choice),
                   !.decision = ChoiceModel(q.ask.choice)]
    ELSE [q EXCEPT !.at = "escalated"]

NoEscalation(r) ==
    /\ At(r, "routed")
    /\ ~WantsKey(r)
    /\ Goes(r, [req[r] EXCEPT !.at = "escalated"])
    /\ UNCHANGED <<now, table, world, cache, keyCache, proxyKey, loop>>

KeyCacheHit(r) ==
    /\ At(r, "routed")
    /\ WantsKey(r)
    /\ now < keyCache.expires
    /\ Goes(r, Escalated(req[r], keyCache.available))
    /\ UNCHANGED <<now, table, world, cache, keyCache, proxyKey, loop>>

\* The one await: the loop is free for other requests until /health answers.
AskHealth(r) ==
    /\ At(r, "routed")
    /\ WantsKey(r)
    /\ now >= keyCache.expires
    /\ Goes(r, [req[r] EXCEPT !.at = "awaiting", !.asked = now])
    /\ loop' = None
    /\ UNCHANGED <<now, table, world, cache, keyCache, proxyKey>>

\* _get_api_key() in claude-proxy: a hit and a miss, cached alike, are answered
\* from the cache; otherwise the keychain is read and its answer kept.
ProxyLooksUp(available) ==
    \/ now < proxyKey.expires /\ available = proxyKey.available /\ UNCHANGED proxyKey
    \/ /\ now >= proxyKey.expires
       /\ available = keyHeld
       /\ proxyKey' = [available |-> keyHeld, expires |-> now + ProxyTTL]

\* Mutant: a failed /health call is not turned into "no key".
HealthAnswersOnlyYes(r, available) ==
    /\ req[r].at = "awaiting"
    /\ available /\ ProxyLooksUp(TRUE)
    /\ Goes(r, [req[r] EXCEPT !.at = "answered", !.key = available])
    /\ UNCHANGED <<now, table, world, cache, keyCache, loop>>

\* claude-proxy answers, or anything goes wrong and reads as "no key".
HealthAnswers(r, available) ==
    /\ req[r].at = "awaiting"
    /\ ProxyLooksUp(available) \/ (~available /\ UNCHANGED proxyKey)
    /\ Goes(r, [req[r] EXCEPT !.at = "answered", !.key = available])
    /\ UNCHANGED <<now, table, world, cache, keyCache, loop>>

\* Mutant: the lifetime counts from the answer.
ResumeStampsLate(r) ==
    /\ req[r].at = "answered"
    /\ loop = None
    /\ keyCache' = [available |-> req[r].key, expires |-> now + KeyTTL]
    /\ Goes(r, Escalated(req[r], req[r].key))
    /\ loop' = r
    /\ UNCHANGED <<now, table, world, cache, proxyKey>>

\* The coroutine resumes; the entry's lifetime counts from before the await.
Resume(r) ==
    /\ req[r].at = "answered"
    /\ loop = None
    /\ keyCache' = [available |-> req[r].key, expires |-> req[r].asked + KeyTTL]
    /\ Goes(r, Escalated(req[r], req[r].key))
    /\ loop' = r
    /\ UNCHANGED <<now, table, world, cache, proxyKey>>

\* Mutant: a routed turn skips the chokepoint, as routing has looked already.
ChokepointSkipsRouted(r) ==
    /\ At(r, "escalated")
    /\ ~IsClaude(req[r].model) \/ req[r].decision # None
    /\ Goes(r, [req[r] EXCEPT !.at = "checked"])
    /\ UNCHANGED <<now, table, world, cache, keyCache, proxyKey, loop>>

\* maybe_downgrade(), by name: nothing to do for a model that is not Claude.
ChokepointLocal(r) ==
    /\ At(r, "escalated")
    /\ ~IsClaude(req[r].model)
    /\ Goes(r, [req[r] EXCEPT !.at = "checked"])
    /\ UNCHANGED <<now, table, world, cache, keyCache, proxyKey, loop>>

ChokepointOnline(r) ==
    /\ At(r, "escalated")
    /\ IsClaude(req[r].model)
    /\ Consult(FALSE)
    /\ Goes(r, [req[r] EXCEPT !.at = "checked"])
    /\ UNCHANGED <<now, table, world, keyCache, proxyKey, loop>>

\* Offline: the model becomes local-long; metadata.route_decision stays.
ChokepointDowngrade(r) ==
    /\ At(r, "escalated")
    /\ IsClaude(req[r].model)
    /\ Consult(TRUE)
    /\ ~(req[r].explicit /\ strict)
    /\ Goes(r, [req[r] EXCEPT !.at = "checked", !.model = Fallback,
                              !.mirror = FALSE, !.downgraded = TRUE])
    /\ UNCHANGED <<now, table, world, keyCache, proxyKey, loop>>

\* Offline and strict: OfflineStrictReject leaves the hook.
ChokepointReject(r) ==
    /\ At(r, "escalated")
    /\ IsClaude(req[r].model)
    /\ Consult(TRUE)
    /\ req[r].explicit /\ strict
    /\ Goes(r, [req[r] EXCEPT !.at = "rejected"])
    /\ loop' = None
    /\ UNCHANGED <<now, table, world, keyCache, proxyKey>>

\* Mutant: the gpt- prefix is not stripped.
RedirectedExact(q) ==
    IF q.ask.tools /\ q.model \in NonToolNative /\ ~q.mirror
    THEN [q EXCEPT !.model = "local-long", !.decision = "local-long"]
    ELSE q

\* _maybe_redirect_tools_to_native(), which strips a gpt- prefix for itself.
Redirected(q) ==
    IF q.ask.tools /\ q.model \in NonToolNative
    THEN [q EXCEPT !.model = "local-long", !.mirror = FALSE, !.decision = "local-long"]
    ELSE q

\* Adaptive thinking is set on a Claude model unless it resolves to Haiku.
Thinking(q) ==
    [q EXCEPT !.thinking = IsClaude(q.model) /\ ~ResolvesToHaiku(q.model)]

\* The rest of the hook, with no await and no probe, up to its return.
Finish(r) ==
    /\ At(r, "checked")
    /\ Goes(r, [Thinking(Redirected(req[r])) EXCEPT !.at = "sent"])
    /\ loop' = None
    /\ UNCHANGED <<now, table, world, cache, keyCache, proxyKey>>

-----------------------------------------------------------------------------
(* After the hook *)

\* Mutant: only a fallback that would show tool calls as text is marked.
MarkedIfRisky(decision, served) == decision # None /\ served \in NonToolNative

\* _annotate_router_fallback(): the tier decided is not the tier that served.
Marked(decision, served) == decision # None /\ TierOf(decision) # TierOf(served)

\* LiteLLM serves the request, or after its retries the group's fallback
\* (external), and _record() writes the row.
Serve(r, fellBack) ==
    /\ req[r].at = "sent"
    /\ fellBack => req[r].model \in HasFallback
    /\ LET served == IF fellBack THEN "local-long" ELSE req[r].model IN
       Goes(r, [req[r] EXCEPT !.at = "done", !.model = served, !.fellBack = fellBack,
                              !.marked = Marked(req[r].decision, served)])
    /\ UNCHANGED <<now, table, world, cache, keyCache, proxyKey, loop>>

Leave(r) ==
    /\ req[r].at \in {"done", "rejected"}
    /\ Goes(r, Free)
    /\ UNCHANGED <<now, table, world, cache, keyCache, proxyKey, loop>>

-----------------------------------------------------------------------------
(* The world *)

Up == Reachable(setting, network)

\* Time passes anywhere but between the chokepoint and the hook's return, and
\* not past the moment /health times out.
HookTick ==
    /\ Tick
    /\ loop # None => req[loop].at # "checked"
    /\ \A r \in Requests :
         req[r].at \in {"awaiting", "answered"} => now - req[r].asked < HealthMax
    /\ lastUp' = IF Up THEN now' ELSE lastUp
    /\ lastKey' = IF keyHeld THEN now' ELSE lastKey
    /\ UNCHANGED <<setting, strict, network, keyHeld, cache, keyCache, proxyKey, req, loop>>

\* The network, the operator's OFFLINE and OFFLINE_STRICT, the keychain.
WorldMoves ==
    /\ \/ /\ "network" \in Moving
          /\ network' = ~network
          /\ UNCHANGED <<setting, strict, keyHeld>>
       \/ /\ "setting" \in Moving
          /\ setting' \in OfflineSettings \ {setting}
          /\ UNCHANGED <<network, strict, keyHeld>>
       \/ /\ "strict" \in Moving
          /\ strict' = ~strict
          /\ UNCHANGED <<setting, network, keyHeld>>
       \/ /\ "key" \in Moving
          /\ keyHeld' = ~keyHeld
          /\ UNCHANGED <<setting, strict, network>>
    /\ lastUp' = IF Up \/ Up' THEN now ELSE lastUp
    /\ lastKey' = IF keyHeld \/ keyHeld' THEN now ELSE lastKey
    /\ UNCHANGED <<now, table, cache, keyCache, proxyKey, req, loop>>

\* What the coroutine of request r does next.
HookStep(r) ==
    \/ NoEscalation(r) \/ KeyCacheHit(r) \/ AskHealth(r)
    \/ (\E available \in BOOLEAN : HealthAnswers(r, available))
    \/ ChokepointLocal(r) \/ ChokepointOnline(r)
    \/ ChokepointDowngrade(r) \/ ChokepointReject(r)
    \/ Finish(r)

\* /apikey/v1/messages, or /health asked by somebody else or too late.
ProxyServesOthers ==
    /\ \E available \in BOOLEAN : ProxyLooksUp(available)
    /\ UNCHANGED <<now, table, world, cache, keyCache, req, loop>>

HookNext ==
    \/ \E r \in Requests :
          \/ \E ask \in Asks : Route(r, ask)
          \/ HookStep(r)
          \/ Resume(r)
          \/ \E fellBack \in BOOLEAN : Serve(r, fellBack)
          \/ Leave(r)
    \/ ProxyServesOthers
    \/ HookTick
    \/ WorldMoves

HookSpec == HookInit /\ [][HookNext]_hookVars

\* A coroutine that is ready runs; the loop's ready queue is first in, first
\* out, so a resumed one is not passed over for ever; /health answers or
\* times out.
HookFairness ==
    \A r \in Requests : WF_hookVars(HookStep(r)) /\ SF_hookVars(Resume(r))

FairHookSpec == HookSpec /\ HookFairness

-----------------------------------------------------------------------------
(* Properties *)

Sends(r) == req[r].at = "checked" /\ req'[r].at = "sent"

\* A turn leaves for Claude only if Claude was reachable less than OnlineTTL
\* ago, however long it waited in the hook, whatever routing decided, under
\* whichever name it came in.
ClaudeOnlyIfRecentlyUp ==
    [][\A r \in Requests : Sends(r) /\ IsClaude(req'[r].model)
                            => now - lastUp < OnlineTTL]_hookVars

\* The escalation choice goes to a key-billed model only if there was a key no
\* longer ago than the two caches in a row allow, each strictly younger than
\* its lifetime -- also when several turns ask /health at the same time and
\* their answers come back in any order.
EscalatesOnRecentKey ==
    [][\A r \in Requests :
          /\ req[r].at \in {"routed", "answered"} /\ req'[r].at = "escalated"
          /\ req'[r].model # req[r].model
          => now - lastKey <= (KeyTTL - 1) + (ProxyTTL - 1)]_hookVars

\* A turn goes to the Claude model its client named or routing chose, or, from
\* claude-code alone, to the one its escalation header names: whatever the steps
\* in between made of it, the header lifts neither a local turn nor one that was
\* given another Claude model, and hybrid-auto takes a [local] task to none.
Requested(q) == IF q.ask.alias = "hybrid-auto" THEN q.routed ELSE q.ask.alias

ClaudeIsAskedFor ==
    \A r \in Requests : req[r].at = "sent" /\ IsClaude(req[r].model) =>
        /\ \/ req[r].model = Requested(req[r])
           \/ Requested(req[r]) = "claude-code" /\ req[r].model = ChoiceModel(req[r].ask.choice)
        /\ req[r].ask.alias = "hybrid-auto" /\ req[r].ask.task # None
             => KindOf[req[r].ask.task] # "local"

\* What the turn's prompt asks for.
KindAsked(ask) == IF ask.task = None THEN ask.kind ELSE KindOf[ask.task]

\* A turn of a prompt that names no model and calls for none.
AsksForNothing(ask) == ask.alias = "hybrid-auto" /\ KindAsked(ask) \in {"plain", "local"}

\* Strict mode tells a client that named a Claude model from a turn that the
\* router took to Claude: whoever named one, by mirror too, is never moved to
\* another model while OFFLINE_STRICT is set, and a turn that was only routed
\* there -- saturated, failed, oversized -- is never refused.
StrictRefusesByName ==
    [][\A r \in Requests : req[r].at = "escalated" =>
          /\ req'[r].downgraded => ~(strict /\ IsClaude(req[r].ask.alias))
          /\ req'[r].at = "rejected" => strict /\ ~AsksForNothing(req[r].ask)]_hookVars

\* A turn with tools is never sent to, nor served by, a model that writes its
\* tool calls as text.
ToolsReachNativeTier ==
    \A r \in Requests :
        req[r].at \in {"sent", "done"} /\ req[r].ask.tools => req[r].model \notin NonToolNative

\* A LiteLLM fallback of a routed turn is never silent in the ledger.
FallbackVisible ==
    \A r \in Requests : req[r].at = "done" /\ req[r].fellBack /\ req[r].decision # None
                         => req[r].marked

\* Every turn that enters the hook leaves it: sent or refused.
EveryTurnDecided ==
    \A r \in Requests : req[r].at = "routed" ~> req[r].at \in {"sent", "rejected"}

-----------------------------------------------------------------------------
(* What comments and docs say of the program, and it does not do *)

\* _annotate_router_fallback()'s comment: decided Claude and served locally
\* means "a router fallback fired".
MarkerMeansFallback ==
    \A r \in Requests : req[r].at = "done" /\ req[r].marked => req[r].fellBack

TagNamesClaude(ask) == ask.alias = "hybrid-auto" /\ KindAsked(ask) \in OverrideAliases

\* docs/offline-mode.md on strict mode: an explicit Claude request, "or a leading
\* [claude]/[opus]/[sonnet]/[haiku] tag", is refused "instead of being silently
\* downgraded".
StrictCoversTags ==
    [][\A r \in Requests : req[r].at = "escalated" /\ req'[r].downgraded =>
          ~(strict /\ TagNamesClaude(req[r].ask))]_hookVars

\* decide_tier_cline()'s comment: a tag that offline mode does not honour leaves
\* no mark, so that it takes effect properly when the network is back.
TagWaitsForNetwork ==
    \A r \in Requests : LET task == req[r].ask.task IN
        req[r].at = "checked" /\ req[r].downgraded /\ task # None
        /\ route.task = task /\ route.by = "override" => sticky[task] = None
=============================================================================
