-------------------------- MODULE PreCallHook_proofs --------------------------
(***************************************************************************)
(* Proofs about PreCallHook, for any requests, tasks and lifetimes, and    *)
(* about OverGeneration, its last stage, for any parameters of a request.  *)
(* What holds of the sticky table is StickyEscalation_proofs' IInv.        *)
(***************************************************************************)
EXTENDS PreCallHook, StickyEscalation_proofs, OverGeneration, SequenceTheorems, FiniteSetTheorems

\* A request on its way to the upstream.
UnderWay == {"routed", "awaiting", "answered", "escalated", "checked", "sent"}

\* The Claude model a turn is on was named or chosen, or is the header's in the
\* place of claude-code; and the turn's task is not tagged [local].
AskedFor(q) ==
    /\ \/ q.model = Requested(q)
       \/ Requested(q) = "claude-code" /\ q.model = ChoiceModel(q.ask.choice)
    /\ q.ask.alias = "hybrid-auto" /\ q.ask.task # None => KindOf[q.ask.task] # "local"

\* What a request carries from one step of the hook to the next: up to its
\* escalation the model that was asked for, and none that was taken away from it;
\* a Claude model only if it was asked for, and a decision that was made is then
\* for Claude as well; and what the last steps make of it.
Decided(q) ==
    /\ q.at # "free" => q.ask \in Asks /\ q.explicit = NamesClaude(q.ask)
    /\ q.at \in UnderWay /\ IsClaude(q.model) =>
         /\ AskedFor(q)
         /\ q.decision # None => IsClaude(q.decision)
    /\ q.at \in {"routed", "awaiting", "answered"} => q.model = Requested(q)
    /\ q.at \in {"routed", "awaiting", "answered", "escalated"} => ~q.downgraded
    /\ q.at \in {"awaiting", "answered"} => q.model = "claude-code"
    /\ q.at \in {"sent", "done"} /\ q.ask.tools => q.model \notin NonToolNative
    /\ q.at = "done" /\ q.fellBack /\ q.decision # None => q.marked

\* What is known of the world as of some time: /health was asked at most
\* HealthMax ago, a yes is at most a ProxyTTL older than the question, and a
\* Claude model that passed the chokepoint was reachable within OnlineTTL.
Timed(q) ==
    /\ q.at \in {"awaiting", "answered"} => q.asked <= now /\ now <= q.asked + HealthMax
    /\ q.at = "answered" /\ q.key => q.asked < lastKey + ProxyTTL
    /\ q.at = "checked" /\ IsClaude(q.model) => now < lastUp + OnlineTTL

\* The histories follow the world, and no cache says yes for longer after the
\* last time it was so than the lifetimes allow.
Recent ==
    /\ lastUp <= now /\ (Up => lastUp = now)
    /\ lastKey <= now /\ (keyHeld => lastKey = now)
    /\ cache # NoVerdict /\ cache.online => cache.ts <= lastUp
    /\ proxyKey.available => proxyKey.expires <= lastKey + ProxyTTL
    /\ keyCache.available => keyCache.expires < lastKey + ProxyTTL + KeyTTL

HookIInv ==
    /\ IInv
    /\ HookTypeOK
    /\ \A r \in Requests : Decided(req[r]) /\ Timed(req[r])
    /\ Recent

Holding == {"routed", "escalated", "checked"}

----------------------------------------------------------------------------
(* The operators of the model *)

LEMMA HookConstants ==
  /\ OnlineTTL \in Nat /\ OfflineTTL \in Nat /\ KeyTTL \in Nat /\ ProxyTTL \in Nat /\ HealthMax \in Nat
  /\ HealthMax < KeyTTL /\ ProxyTTL # 0 /\ OnlineTTL # 0
  /\ MaxTime \in Nat /\ None \notin Requests /\ None \notin Models
  BY HookAssumption, TTLAssumption, MaxTimeAssumption

LEMMA AsksAre ==
  ASSUME NEW ask \in Asks
  PROVE  /\ ask.alias \in {"hybrid-auto"} \cup LocalAliases \cup Models
         /\ ask.task \in Tasks \cup {None} /\ ask.kind \in Kinds /\ ask.oversized \in BOOLEAN
         /\ ask.choice \in {"haiku", "sonnet", "opus", "fable"} /\ ask.tools \in BOOLEAN
         /\ ask.mirror \in BOOLEAN /\ (ask.mirror => ask.alias \in Mirrored)
  BY HookAssumption DEF AskShape

\* Which names are whose.
LEMMA Names ==
  /\ Fallback \in Models /\ ~IsClaude(Fallback) /\ Fallback \notin NonToolNative /\ Fallback = "local-long"
  /\ "claude-code" \in Models /\ IsClaude("claude-code")
  /\ OverrideAliases \subseteq Models /\ \A m \in OverrideAliases : IsClaude(m)
  /\ \A m \in NonToolNative : ~IsClaude(m)
  /\ \A m \in HasFallback : IsClaude(m)
  BY DEF Fallback, Models, ClaudeAliases, OverrideAliases, NonToolNative, IsClaude, HasFallback

LEMMA ChoicesAreClaude ==
  ASSUME NEW choice \in {"haiku", "sonnet", "opus", "fable"}
  PROVE  ChoiceModel(choice) \in Models /\ IsClaude(ChoiceModel(choice))
  BY DEF ChoiceModel, Models, IsClaude, ClaudeAliases, OverrideAliases

\* Every mirror of a Claude model loses its prefix on arrival, so the name a
\* client gave is told from the name routing made.
LEMMA MirrorsAreStripped ==
  ASSUME NEW ask \in Asks, IsClaude(ask.alias)
  PROVE  NamesClaude(ask)
  BY AsksAre DEF NamesClaude, KeepsMirror, Stripped, Mirrored, IsClaude, ClaudeAliases, OverrideAliases,
     LocalAliases, NonToolNative

\* decide_tier() answers a model the YAML names.
LEMMA DecideTierModel ==
  ASSUME NEW ask \in Asks, NEW offline \in BOOLEAN
  PROVE  DecideTier(ask, offline) \in Models
  BY Names DEF DecideTier, Fallback

LEMMA FreeTurn == Free \in Turns
  BY DEF Free, Turns, NoAsk, Places, LocalAliases, Models

LEMMA ArrivedTurn ==
  ASSUME NEW ask \in Asks, NEW model \in Models \cup LocalAliases, NEW decision \in Models \cup {None}
  PROVE  /\ Arrived(ask, model, decision) \in Turns
         /\ Arrived(ask, model, decision).at = "routed" /\ Arrived(ask, model, decision).ask = ask
         /\ Arrived(ask, model, decision).model = model /\ Arrived(ask, model, decision).decision = decision
         /\ Arrived(ask, model, decision).explicit = NamesClaude(ask)
         /\ Arrived(ask, model, decision).routed = decision
         /\ ~Arrived(ask, model, decision).downgraded
<1>1. KeepsMirror(ask) \in BOOLEAN /\ NamesClaude(ask) \in BOOLEAN
  BY AsksAre DEF KeepsMirror, NamesClaude, IsClaude
<1>2. "routed" \in Places
  BY DEF Places
<1>3. Arrived(ask, model, decision) \in Turns
  BY <1>1, <1>2, FreeTurn DEF Arrived, Turns
<1>4. QED
  BY <1>3 DEF Arrived, Free

----------------------------------------------------------------------------
(* Initial states and steps *)

LEMMA InitHookIInv == HookInit => HookIInv
<1> SUFFICES ASSUME HookInit PROVE HookIInv
  OBVIOUS
<1>1. IInv
  BY InitIInv DEF HookInit
<1>2. now = 0 /\ lastUp = 0 /\ lastKey = 0 /\ loop = None /\ \A r \in Requests : req[r] = Free
  BY DEF HookInit, Init
<1>3. Free.at = "free"
  BY DEF Free
<1>4. HookTypeOK
  <2>1. req \in [Requests -> Turns]
    BY FreeTurn DEF HookInit
  <2>2. \A r \in Requests : req[r].at \in {"routed", "escalated", "checked"} <=> loop = r
    BY <1>2, <1>3, HookConstants
  <2>3. /\ cache \in Verdicts \cup {NoVerdict} /\ keyCache \in KeyVerdicts /\ proxyKey \in KeyVerdicts
        /\ setting \in OfflineSettings /\ strict \in BOOLEAN /\ network \in BOOLEAN /\ keyHeld \in BOOLEAN
    BY DEF HookInit, NoKeyYet, KeyVerdicts
  <2>4. QED
    BY <1>1, <1>2, <2>1, <2>2, <2>3 DEF HookTypeOK, IInv
<1>5. Decided(Free) /\ Timed(Free)
  BY <1>3 DEF Decided, Timed, UnderWay
<1>6. Recent
  BY <1>2 DEF HookInit, NoKeyYet, Recent
<1>7. QED
  BY <1>1, <1>2, <1>4, <1>5, <1>6 DEF HookIInv

\* A step of one request, in which the world stands still.
LEMMA RequestStep ==
  ASSUME HookIInv, IInv', Recent', UNCHANGED <<now, world>>, NEW r \in Requests, NEW q \in Turns,
         req' = [req EXCEPT ![r] = q], Decided(q), Timed(q),
         cache' \in Verdicts \cup {NoVerdict}, keyCache' \in KeyVerdicts, proxyKey' \in KeyVerdicts,
         loop' \in Requests \cup {None}, q.at \in Holding <=> loop' = r,
         \A s \in Requests : s # r => (loop' = s <=> loop = s)
  PROVE  HookIInv'
<1>0. /\ HookTypeOK /\ req \in [Requests -> Turns] /\ req' \in [Requests -> Turns]
      /\ \A s \in Requests : req'[s] = IF s = r THEN q ELSE req[s]
      /\ \A s \in Requests : req[s].at \in Holding <=> loop = s
      /\ \A s \in Requests : Decided(req[s]) /\ Timed(req[s])
  BY DEF HookIInv, HookTypeOK, Holding
<1>1. \A s \in Requests : req'[s].at \in Holding <=> loop' = s
  BY <1>0
<1>2. HookTypeOK'
  BY <1>0, <1>1 DEF HookTypeOK, Holding, IInv, world
<1>3. ASSUME NEW s \in Requests PROVE Decided(req[s])'
  BY <1>0 DEF Decided, AskedFor, Requested
<1>4. ASSUME NEW s \in Requests PROVE Timed(req[s])'
  BY <1>0 DEF Timed, world
<1>5. QED
  BY <1>2, <1>3, <1>4 DEF HookIInv

\* A step that leaves the caches and the world alone.
LEMMA RecentStays ==
  ASSUME Recent, UNCHANGED <<now, world, cache, keyCache, proxyKey>>
  PROVE  Recent'
  BY DEF Recent, world, Up

\* is_offline(): what it answers, and what it leaves in its cache.
LEMMA ConsultIsRecent ==
  ASSUME HookIInv, NEW offline \in BOOLEAN, Consult(offline), UNCHANGED <<now, world>>
  PROVE  /\ cache' \in Verdicts \cup {NoVerdict}
         /\ cache' # NoVerdict /\ cache'.online => cache'.ts <= lastUp
         /\ ~offline => now < lastUp + OnlineTTL
<1>1. /\ now \in Nat /\ lastUp \in Nat /\ cache \in Verdicts \cup {NoVerdict}
      /\ (Up => lastUp = now)
      /\ cache # NoVerdict /\ cache.online => cache.ts <= lastUp
  BY HookConstants DEF HookIInv, HookTypeOK, TypeOK, Recent
<1>2. CASE IsFresh(cache, now) /\ offline = ~cache.online /\ UNCHANGED cache
  <2>1. cache # NoVerdict /\ now - cache.ts < TTL(cache.online) /\ cache \in Verdicts
    BY <1>1, <1>2 DEF IsFresh
  <2>2. cache.ts \in Nat /\ cache.online \in BOOLEAN
    BY <2>1 DEF Verdicts
  <2>3. cache.online => TTL(cache.online) = OnlineTTL
    BY DEF TTL
  <2>4. ~offline => cache.online
    BY <1>2, <2>2
  <2>5. ~offline => now < lastUp + OnlineTTL
    BY <1>1, <2>1, <2>2, <2>3, <2>4, HookConstants
  <2>6. cache' = cache
    BY <1>2
  <2>7. cache' # NoVerdict /\ cache'.online => cache'.ts <= lastUp
    BY <1>1, <2>6
  <2>8. QED
    BY <1>1, <2>5, <2>6, <2>7
<1>3. CASE /\ ~IsFresh(cache, now) /\ offline = ~Reachable(setting, network)
           /\ cache' = [online |-> ~offline, ts |-> now]
  <2>1. cache' \in Verdicts
    BY <1>1, <1>3 DEF Verdicts
  <2>2. ~offline => lastUp = now
    BY <1>1, <1>3 DEF Up
  <2>3. (cache'.online => ~offline) /\ cache'.ts = now
    BY <1>3
  <2>4. cache'.online => cache'.ts <= lastUp
    BY <1>1, <2>2, <2>3
  <2>5. ~offline => now < lastUp + OnlineTTL
    BY <1>1, <2>2, HookConstants
  <2>6. QED
    BY <2>1, <2>4, <2>5
<1>4. QED
  BY <1>2, <1>3 DEF Consult

\* _get_api_key() in claude-proxy: a yes was true within ProxyTTL.
LEMMA ProxyIsRecent ==
  ASSUME HookIInv, NEW available \in BOOLEAN, ProxyLooksUp(available), UNCHANGED <<now, world>>
  PROVE  /\ proxyKey' \in KeyVerdicts
         /\ proxyKey'.available => proxyKey'.expires <= lastKey + ProxyTTL
         /\ available => now < lastKey + ProxyTTL
<1>1. /\ now \in Nat /\ lastKey \in Nat /\ keyHeld \in BOOLEAN /\ proxyKey \in KeyVerdicts
      /\ (keyHeld => lastKey = now)
      /\ proxyKey.available => proxyKey.expires <= lastKey + ProxyTTL
  BY HookConstants DEF HookIInv, HookTypeOK, TypeOK, Recent
<1>2. proxyKey.expires \in Nat /\ proxyKey.available \in BOOLEAN
  BY <1>1 DEF KeyVerdicts
<1>3. CASE now < proxyKey.expires /\ available = proxyKey.available /\ UNCHANGED proxyKey
  BY <1>1, <1>2, <1>3, HookConstants
<1>4. CASE /\ now >= proxyKey.expires /\ available = keyHeld
           /\ proxyKey' = [available |-> keyHeld, expires |-> now + ProxyTTL]
  <2>1. now + ProxyTTL \in Nat
    BY <1>1, HookConstants
  <2>2. proxyKey' \in KeyVerdicts /\ proxyKey'.available = keyHeld /\ proxyKey'.expires = now + ProxyTTL
    BY <1>1, <1>4, <2>1 DEF KeyVerdicts
  <2>3. QED
    BY <1>1, <1>4, <2>2, HookConstants
<1>5. QED
  BY <1>3, <1>4 DEF ProxyLooksUp

\* A step of the hook by the request that has the loop, or takes it.
LEMMA LoopStep ==
  ASSUME HookIInv, IInv', Recent', UNCHANGED <<now, world>>, NEW r \in Requests, NEW q \in Turns,
         req' = [req EXCEPT ![r] = q], Decided(q), Timed(q),
         cache' \in Verdicts \cup {NoVerdict}, keyCache' \in KeyVerdicts, proxyKey' \in KeyVerdicts,
         loop \in {None, r}, loop' = IF q.at \in Holding THEN r ELSE None
  PROVE  HookIInv'
<1>1. /\ loop' \in Requests \cup {None} /\ (q.at \in Holding <=> loop' = r)
      /\ \A s \in Requests : s # r => (loop' = s <=> loop = s)
  BY HookConstants
<1>2. QED
  BY <1>1, RequestStep

\* A step of a request that neither has the loop nor takes it.
LEMMA AsideStep ==
  ASSUME HookIInv, IInv', Recent', UNCHANGED <<now, world>>, NEW r \in Requests, NEW q \in Turns,
         req' = [req EXCEPT ![r] = q], Decided(q), Timed(q),
         cache' \in Verdicts \cup {NoVerdict}, keyCache' \in KeyVerdicts, proxyKey' \in KeyVerdicts,
         req[r].at \notin Holding, q.at \notin Holding, UNCHANGED loop
  PROVE  HookIInv'
<1>1. /\ loop \in Requests \cup {None} /\ (req[r].at \in Holding <=> loop = r)
  BY DEF HookIInv, HookTypeOK, Holding
<1>2. QED
  BY <1>1, RequestStep

\* What a caller may suppose of the state it starts from.
LEMMA HookFacts ==
  ASSUME HookIInv
  PROVE  /\ req \in [Requests -> Turns] /\ \A r \in Requests : req[r] \in Turns
         /\ \A r \in Requests : Decided(req[r]) /\ Timed(req[r])
         /\ now \in Nat /\ lastUp \in Nat /\ lastKey \in Nat
         /\ cache \in Verdicts \cup {NoVerdict} /\ keyCache \in KeyVerdicts /\ proxyKey \in KeyVerdicts
  BY HookConstants DEF HookIInv, HookTypeOK, TypeOK

LEMMA TableStays ==
  ASSUME IInv, UNCHANGED <<now, table>>
  PROVE  IInv'
  BY NextIInv DEF table, vars

\* Places where nothing but the name is checked.
LEMMA MovedTurn ==
  ASSUME NEW q \in Turns, Decided(q), q.at \in UnderWay,
         NEW place \in {"awaiting", "escalated", "checked"},
         place = "awaiting" => q.model = "claude-code" /\ q.at = "routed",
         place = "escalated" => q.at \in {"routed", "awaiting", "answered"}
  PROVE  /\ [q EXCEPT !.at = place] \in Turns /\ Decided([q EXCEPT !.at = place])
         /\ [q EXCEPT !.at = place].at = place /\ [q EXCEPT !.at = place].model = q.model
<1> DEFINE e == [q EXCEPT !.at = place]
<1>1. place \in Places
  BY DEF Places
<1>2. e \in Turns /\ e.at = place
  BY <1>1 DEF Turns
<1>3. /\ e.model = q.model /\ e.ask = q.ask /\ e.explicit = q.explicit /\ e.decision = q.decision
      /\ e.routed = q.routed /\ e.downgraded = q.downgraded
  BY DEF Turns
<1> HIDE DEF e
<1>4. Decided(e)
  BY <1>2, <1>3 DEF Decided, AskedFor, Requested, UnderWay
<1>5. QED
  BY <1>2, <1>3, <1>4 DEF e

\* A turn takes its escalation choice, or stays.
LEMMA EscalatedTurn ==
  ASSUME NEW q \in Turns, Decided(q), q.at \in {"routed", "answered"}, q.model = "claude-code",
         NEW available \in BOOLEAN
  PROVE  /\ Escalated(q, available) \in Turns /\ Decided(Escalated(q, available))
         /\ Escalated(q, available).at = "escalated"
<1>1. CASE ~available
  BY <1>1, MovedTurn DEF Escalated, UnderWay
<1>2. CASE available
  <2> DEFINE m == ChoiceModel(q.ask.choice)
             e == [q EXCEPT !.at = "escalated", !.model = m, !.decision = m]
  <2>0. q.ask \in Asks
    BY DEF Decided
  <2>1. m \in Models /\ IsClaude(m)
    BY <2>0, AsksAre, ChoicesAreClaude
  <2> HIDE DEF m
  <2>2. "escalated" \in Places
    BY DEF Places
  <2>3. e \in Turns
    BY <2>1, <2>2 DEF Turns
  <2>4. /\ e.at = "escalated" /\ e.model = m /\ e.ask = q.ask /\ e.explicit = q.explicit /\ e.decision = m
        /\ e.routed = q.routed /\ e.downgraded = q.downgraded
    BY DEF Turns
  <2> HIDE DEF e
  <2>5. m # None
    BY <2>1, HookConstants
  <2>6. q.explicit = NamesClaude(q.ask) /\ AskedFor(q) /\ Requested(q) = "claude-code" /\ ~q.downgraded
    BY Names DEF Decided, UnderWay
  <2>7. AskedFor(e)
    BY <2>4, <2>6 DEF AskedFor, Requested, m
  <2>8. Decided(e)
    BY <2>0, <2>1, <2>4, <2>6, <2>7 DEF Decided
  <2>9. QED
    BY <1>2, <2>3, <2>4, <2>8 DEF Escalated, e, m
<1>3. QED
  BY <1>1, <1>2

\* A new request: routed, or with a name of its own.
LEMMA ArrivedDecided ==
  ASSUME NEW ask \in Asks, NEW model \in Models \cup LocalAliases, NEW decision \in {None, model},
         decision \in Models \cup {None},
         decision = None <=> ask.alias # "hybrid-auto", decision = None => model = ask.alias,
         IsClaude(model) /\ decision # None => (ask.task # None => KindOf[ask.task] # "local")
  PROVE  /\ Arrived(ask, model, decision) \in Turns
         /\ Decided(Arrived(ask, model, decision)) /\ Timed(Arrived(ask, model, decision))
         /\ Arrived(ask, model, decision).at = "routed"
<1> DEFINE q == Arrived(ask, model, decision)
<1>1. /\ q \in Turns /\ q.at = "routed" /\ q.ask = ask /\ q.model = model /\ q.decision = decision
      /\ q.explicit = NamesClaude(ask) /\ q.routed = decision /\ ~q.downgraded
  BY ArrivedTurn
<1> HIDE DEF q
<1>0. q.model = Requested(q)
  BY <1>1 DEF Requested
<1>2. IsClaude(model) => AskedFor(q)
  BY <1>0, <1>1 DEF AskedFor
<1>3. Decided(q)
  BY <1>0, <1>1, <1>2 DEF Decided
<1>4. Timed(q)
  BY <1>1 DEF Timed
<1>5. QED
  BY <1>1, <1>3, <1>4 DEF q

\* What decide_tier_cline() returned last is of the task it was asked about.
LEMMA ClineRouted ==
  ASSUME HookIInv, NEW task \in Tasks, NEW offline \in BOOLEAN, DecideTierCline(task, offline)
  PROVE  /\ IInv' /\ UNCHANGED now /\ route'.model \in Models /\ route'.task = task
         /\ KindOf[task] = "local" => route'.model = "local-long"
<1>1. IInv'
  BY NextIInv DEF HookIInv, Next
<1>2. UNCHANGED now /\ route' \in Routes /\ route'.task = task
  <2>1. ASSUME NEW model \in Models, NEW by \in Causes \cup {"sticky", "local-tag", "default"},
               Return(task, model, by, offline)
        PROVE  route' \in Routes /\ route'.task = task
    BY <2>1 DEF Return, Routes
  <2>2. UNCHANGED now /\ \E model \in Models, by \in Causes \cup {"sticky", "local-tag", "default"} :
          Return(task, model, by, offline)
    <3> DEFINE P == \E model \in Models, by \in Causes \cup {"sticky", "local-tag", "default"} :
                      Return(task, model, by, offline)
    <3>1. StickyTurn(task, offline) \/ LocalTagTurn(task, offline) => P
      BY Names DEF StickyTurn, LocalTagTurn
    <3>2. OverrideTurn(task, offline) \/ ComplexTurn(task, offline) => P
      BY Names DEF OverrideTurn, ComplexTurn, Causes
    <3>3. FailureTurn(task, offline) \/ DefaultTurn(task, offline) => P
      BY Names DEF FailureTurn, DefaultTurn, Causes
    <3>4. ASSUME NEW turbo \in TurboModels \cup {None}, SaturatedTurn(task, turbo, offline) PROVE P
      <4>1. (IF turbo # None THEN turbo ELSE "claude-code") \in Models
        BY Names DEF Models
      <4>2. QED
        BY <3>4, <4>1 DEF SaturatedTurn, Causes
    <3>5. UNCHANGED now
      BY DEF DecideTierCline, StickyTurn, LocalTagTurn, OverrideTurn, ComplexTurn, SaturatedTurn,
         FailureTurn, DefaultTurn
    <3>6. QED
      BY <3>1, <3>2, <3>3, <3>4, <3>5 DEF DecideTierCline
  <2>3. QED
    BY <2>1, <2>2
<1>3. route'.model \in Models /\ (KindOf[task] = "local" => route'.model = "local-long")
  <2>1. route'.model \in Models /\ route' # None
    BY <1>2, NoneAssumption DEF Routes
  <2>2. QED
    BY <1>1, <1>2, <2>1 DEF IInv, LocalTagStaysLocal
<1>4. QED
  BY <1>1, <1>2, <1>3

LEMMA RouteStep ==
  ASSUME HookIInv, NEW r \in Requests, NEW ask \in Asks, Route(r, ask)
  PROVE  HookIInv'
<1>0. /\ loop = None /\ loop' = r /\ UNCHANGED <<world, keyCache, proxyKey>>
      /\ NamedModel(r, ask) \/ HybridCline(r, ask) \/ HybridOther(r, ask)
  BY DEF Route
<1>1. /\ keyCache' \in KeyVerdicts /\ proxyKey' \in KeyVerdicts /\ cache \in Verdicts \cup {NoVerdict}
  BY <1>0, HookFacts
<1>2. /\ IInv /\ Recent
  BY DEF HookIInv
<1>a. ASSUME NEW q \in Turns, Decided(q), Timed(q), q.at = "routed", req' = [req EXCEPT ![r] = q],
             IInv', UNCHANGED now, cache' \in Verdicts \cup {NoVerdict},
             cache' # NoVerdict /\ cache'.online => cache'.ts <= lastUp
      PROVE  HookIInv'
  <2>1. Recent'
    BY <1>0, <1>2, <1>a DEF Recent, world, Up
  <2>2. q.at \in Holding
    BY <1>a DEF Holding
  <2>3. QED
    BY <1>0, <1>1, <1>a, <2>1, <2>2, LoopStep
<1>b. cache # NoVerdict /\ cache.online => cache.ts <= lastUp
  BY <1>2 DEF Recent
<1>3. CASE NamedModel(r, ask)
  <2>1. ask.alias # "hybrid-auto" /\ Goes(r, Arrived(ask, ask.alias, None)) /\ UNCHANGED <<now, table, cache>>
    BY <1>3 DEF NamedModel
  <2>2. ask.alias \in Models \cup LocalAliases
    BY <2>1, AsksAre
  <2>3. IInv' /\ UNCHANGED <<now, cache>>
    BY <1>2, <2>1, TableStays
  <2> DEFINE q == Arrived(ask, ask.alias, None)
  <2>4. q \in Turns /\ Decided(q) /\ Timed(q) /\ q.at = "routed"
    BY <2>1, <2>2, ArrivedDecided
  <2>5. req' = [req EXCEPT ![r] = q]
    BY <2>1 DEF Goes
  <2> HIDE DEF q
  <2>6. QED
    BY <1>1, <1>a, <1>b, <2>3, <2>4, <2>5
<1>4. CASE HybridCline(r, ask)
  <2>1. PICK offline \in BOOLEAN : Consult(offline) /\ DecideTierCline(ask.task, offline)
    BY <1>4 DEF HybridCline
  <2>2. ask.alias = "hybrid-auto" /\ ask.task \in Tasks /\ Goes(r, Arrived(ask, route'.model, route'.model))
    BY <1>4, AsksAre DEF HybridCline
  <2>3. /\ IInv' /\ UNCHANGED now /\ route'.model \in Models
        /\ KindOf[ask.task] = "local" => route'.model = "local-long"
    BY <2>1, <2>2, ClineRouted
  <2> DEFINE model == route'.model  q == Arrived(ask, model, model)
  <2>6. IsClaude(model) => KindOf[ask.task] # "local"
    BY <2>3, Names DEF Fallback
  <2>7. model \in Models /\ model # None /\ req' = [req EXCEPT ![r] = q]
    BY <2>2, <2>3, HookConstants DEF Goes
  <2> HIDE DEF model
  <2>8. q \in Turns /\ Decided(q) /\ Timed(q) /\ q.at = "routed"
    BY <2>2, <2>6, <2>7, ArrivedDecided
  <2> HIDE DEF q
  <2>9. QED
    BY <1>0, <1>a, <2>1, <2>3, <2>7, <2>8, ConsultIsRecent
<1>5. CASE HybridOther(r, ask)
  <2>1. PICK offline \in BOOLEAN :
          /\ Consult(offline) /\ Goes(r, Arrived(ask, DecideTier(ask, offline), DecideTier(ask, offline)))
    BY <1>5 DEF HybridOther
  <2> DEFINE model == DecideTier(ask, offline)  q == Arrived(ask, model, model)
  <2>2. ask.alias = "hybrid-auto" /\ ask.task = None /\ UNCHANGED <<now, table>> /\ req' = [req EXCEPT ![r] = q]
    BY <1>5, <2>1 DEF HybridOther, Goes
  <2>3. IInv' /\ UNCHANGED now
    BY <1>2, <2>2, TableStays
  <2>4. model \in Models
    BY DecideTierModel
  <2> HIDE DEF model
  <2>5. q \in Turns /\ Decided(q) /\ Timed(q) /\ q.at = "routed"
    BY <2>2, <2>4, ArrivedDecided, HookConstants
  <2> HIDE DEF q
  <2>6. QED
    BY <1>0, <1>a, <2>1, <2>2, <2>3, <2>5, ConsultIsRecent
<1>6. QED
  BY <1>0, <1>3, <1>4, <1>5

\* The escalation header, and the key check it may cost.
LEMMA EscalationSteps ==
  ASSUME HookIInv, NEW r \in Requests,
         NoEscalation(r) \/ KeyCacheHit(r) \/ AskHealth(r)
  PROVE  HookIInv'
<1>0. /\ At(r, "routed") /\ UNCHANGED <<now, table, world, cache, keyCache, proxyKey>>
      /\ loop = r /\ req[r].at = "routed"
  BY DEF NoEscalation, KeyCacheHit, AskHealth, At
<1>1. /\ req[r] \in Turns /\ Decided(req[r]) /\ Timed(req[r]) /\ req \in [Requests -> Turns]
      /\ cache' \in Verdicts \cup {NoVerdict} /\ keyCache' \in KeyVerdicts /\ proxyKey' \in KeyVerdicts
      /\ keyCache \in KeyVerdicts /\ now \in Nat
  BY <1>0, HookFacts
<1>2. IInv' /\ Recent' /\ UNCHANGED <<now, world>>
  BY <1>0, TableStays, RecentStays DEF HookIInv
<1>3. CASE NoEscalation(r)
  <2> DEFINE q == [req[r] EXCEPT !.at = "escalated"]
  <2>1. req' = [req EXCEPT ![r] = q] /\ loop' = r
    BY <1>0, <1>3 DEF NoEscalation, Goes
  <2>2. q \in Turns /\ Decided(q) /\ q.at = "escalated"
    BY <1>0, <1>1, MovedTurn DEF UnderWay
  <2> HIDE DEF q
  <2>3. Timed(q) /\ q.at \in Holding
    BY <2>2 DEF Timed, Holding
  <2>4. QED
    BY <1>0, <1>1, <1>2, <2>1, <2>2, <2>3, LoopStep
<1>4. CASE KeyCacheHit(r)
  <2> DEFINE q == Escalated(req[r], keyCache.available)
  <2>1. req' = [req EXCEPT ![r] = q] /\ loop' = r /\ req[r].model = "claude-code"
    BY <1>0, <1>4 DEF KeyCacheHit, Goes, WantsKey
  <2>2. q \in Turns /\ Decided(q) /\ q.at = "escalated"
    BY <1>0, <1>1, <2>1, EscalatedTurn DEF KeyVerdicts
  <2> HIDE DEF q
  <2>3. Timed(q) /\ q.at \in Holding
    BY <2>2 DEF Timed, Holding
  <2>4. QED
    BY <1>0, <1>1, <1>2, <2>1, <2>2, <2>3, LoopStep
<1>5. CASE AskHealth(r)
  <2> DEFINE p == [req[r] EXCEPT !.at = "awaiting"]  q == [p EXCEPT !.asked = now]
  <2>1. req' = [req EXCEPT ![r] = q] /\ loop' = None
    BY <1>0, <1>5 DEF AskHealth, Goes
  <2>2. p \in Turns /\ Decided(p) /\ p.at = "awaiting"
    BY <1>0, <1>1, <1>5, MovedTurn DEF UnderWay, AskHealth, WantsKey
  <2> HIDE DEF p
  <2>3. /\ q \in Turns /\ q.at = "awaiting" /\ q.asked = now
        /\ q.ask = p.ask /\ q.model = p.model /\ q.decision = p.decision /\ q.explicit = p.explicit
        /\ q.routed = p.routed /\ q.downgraded = p.downgraded
    BY <1>1, <2>2 DEF Turns
  <2> HIDE DEF q
  <2>4. Decided(q)
    BY <2>2, <2>3 DEF Decided, AskedFor, Requested
  <2>5. Timed(q) /\ q.at \notin Holding
    BY <1>1, <2>3, HookConstants DEF Timed, Holding
  <2>6. QED
    BY <1>0, <1>1, <1>2, <2>1, <2>3, <2>4, <2>5, LoopStep
<1>6. QED
  BY <1>3, <1>4, <1>5

\* /health answers, or fails, and the loop takes the coroutine up again.
LEMMA AnswerSteps ==
  ASSUME HookIInv, NEW r \in Requests,
         Resume(r) \/ \E available \in BOOLEAN : HealthAnswers(r, available)
  PROVE  HookIInv'
<1>1. /\ req[r] \in Turns /\ Decided(req[r]) /\ Timed(req[r]) /\ req \in [Requests -> Turns]
      /\ cache \in Verdicts \cup {NoVerdict} /\ keyCache \in KeyVerdicts /\ proxyKey \in KeyVerdicts
      /\ now \in Nat /\ lastKey \in Nat /\ req[r].asked \in Nat /\ req[r].key \in BOOLEAN
  BY HookFacts DEF Turns
<1>2. IInv /\ Recent
  BY DEF HookIInv
<1>3. ASSUME NEW available \in BOOLEAN, HealthAnswers(r, available) PROVE HookIInv'
  <2> DEFINE q == [req[r] EXCEPT !.at = "answered", !.key = available]
  <2>1. /\ req[r].at = "awaiting" /\ req' = [req EXCEPT ![r] = q]
        /\ ProxyLooksUp(available) \/ (~available /\ UNCHANGED proxyKey)
        /\ UNCHANGED <<now, table, world, cache, keyCache, loop>>
    BY <1>3 DEF HealthAnswers, Goes
  <2>2. /\ proxyKey' \in KeyVerdicts
        /\ proxyKey'.available => proxyKey'.expires <= lastKey + ProxyTTL
        /\ available => now < lastKey + ProxyTTL
    BY <1>1, <1>2, <2>1, ProxyIsRecent DEF Recent
  <2>3. IInv' /\ Recent'
    <3>1. IInv'
      BY <1>2, <2>1, TableStays
    <3>2. Recent'
      BY <1>2, <2>1, <2>2 DEF Recent, world, Up
    <3>3. QED
      BY <3>1, <3>2
  <2>4. "answered" \in Places
    BY DEF Places
  <2>5. /\ q \in Turns /\ q.at = "answered" /\ q.key = available /\ q.asked = req[r].asked
        /\ q.ask = req[r].ask /\ q.model = req[r].model /\ q.decision = req[r].decision
        /\ q.explicit = req[r].explicit /\ q.routed = req[r].routed
        /\ q.downgraded = req[r].downgraded
    BY <1>1, <2>4 DEF Turns
  <2> HIDE DEF q
  <2>6. Decided(q)
    BY <1>1, <2>1, <2>5 DEF Decided, AskedFor, Requested, UnderWay
  <2>7. req[r].asked <= now /\ now <= req[r].asked + HealthMax
    BY <1>1, <2>1 DEF Timed
  <2>8. Timed(q)
    BY <1>1, <2>2, <2>5, <2>7, HookConstants DEF Timed
  <2>9. q.at \notin Holding /\ req[r].at \notin Holding
    BY <2>1, <2>5 DEF Holding
  <2>10. QED
    BY <1>1, <2>1, <2>2, <2>3, <2>5, <2>6, <2>8, <2>9, AsideStep
<1>4. CASE Resume(r)
  <2> DEFINE q == Escalated(req[r], req[r].key)
  <2>1. /\ req[r].at = "answered" /\ req' = [req EXCEPT ![r] = q] /\ loop = None /\ loop' = r
        /\ keyCache' = [available |-> req[r].key, expires |-> req[r].asked + KeyTTL]
        /\ UNCHANGED <<now, table, world, cache, proxyKey>>
    BY <1>4 DEF Resume, Goes
  <2>2. req[r].model = "claude-code"
    BY <1>1, <2>1 DEF Decided
  <2>3. q \in Turns /\ Decided(q) /\ q.at = "escalated"
    BY <1>1, <2>1, <2>2, EscalatedTurn
  <2> HIDE DEF q
  <2>4. Timed(q) /\ q.at \in Holding
    BY <2>3 DEF Timed, Holding
  <2>5. /\ keyCache' \in KeyVerdicts /\ keyCache'.available = req[r].key
        /\ keyCache'.expires = req[r].asked + KeyTTL
    BY <1>1, <2>1, HookConstants DEF KeyVerdicts
  <2>6. keyCache'.available => keyCache'.expires < lastKey + ProxyTTL + KeyTTL
    BY <1>1, <2>1, <2>5, HookConstants DEF Timed
  <2>7. IInv' /\ Recent'
    <3>1. IInv'
      BY <1>2, <2>1, TableStays
    <3>2. Recent'
      BY <1>2, <2>1, <2>6 DEF Recent, world, Up
    <3>3. QED
      BY <3>1, <3>2
  <2>8. QED
    BY <1>1, <2>1, <2>3, <2>4, <2>5, <2>7, LoopStep
<1>5. QED
  BY <1>3, <1>4

\* maybe_downgrade().
LEMMA ChokepointSteps ==
  ASSUME HookIInv, NEW r \in Requests,
         ChokepointLocal(r) \/ ChokepointOnline(r) \/ ChokepointDowngrade(r) \/ ChokepointReject(r)
  PROVE  HookIInv'
<1>0. /\ At(r, "escalated") /\ UNCHANGED <<now, table, world, keyCache, proxyKey>>
      /\ loop = r /\ req[r].at = "escalated"
  BY DEF ChokepointLocal, ChokepointOnline, ChokepointDowngrade, ChokepointReject, At
<1>1. /\ req[r] \in Turns /\ Decided(req[r]) /\ Timed(req[r]) /\ req \in [Requests -> Turns]
      /\ keyCache' \in KeyVerdicts /\ proxyKey' \in KeyVerdicts /\ cache \in Verdicts \cup {NoVerdict}
      /\ now \in Nat
  BY <1>0, HookFacts
<1>2. IInv' /\ Recent
  BY <1>0, TableStays DEF HookIInv
\* Whatever the chokepoint makes of the request, the cache it leaves is recent.
<1>a. ASSUME NEW q \in Turns, Decided(q), Timed(q), req' = [req EXCEPT ![r] = q],
             cache' \in Verdicts \cup {NoVerdict},
             cache' # NoVerdict /\ cache'.online => cache'.ts <= lastUp,
             loop' = IF q.at \in Holding THEN r ELSE None
      PROVE  HookIInv'
  <2>1. Recent'
    BY <1>0, <1>2, <1>a DEF Recent, world, Up
  <2>2. QED
    BY <1>0, <1>1, <1>2, <1>a, <2>1, LoopStep
<1> DEFINE c == [req[r] EXCEPT !.at = "checked"]
<1>3. c \in Turns /\ Decided(c) /\ c.at = "checked" /\ c.model = req[r].model
  BY <1>0, <1>1, MovedTurn DEF UnderWay
<1> HIDE DEF c
<1>4. CASE ChokepointLocal(r)
  <2>1. req' = [req EXCEPT ![r] = c] /\ UNCHANGED <<cache, loop>> /\ ~IsClaude(req[r].model)
    BY <1>4 DEF ChokepointLocal, Goes, c
  <2>2. Timed(c) /\ c.at \in Holding
    BY <1>3, <2>1 DEF Timed, Holding
  <2>3. cache' \in Verdicts \cup {NoVerdict} /\ (cache' # NoVerdict /\ cache'.online => cache'.ts <= lastUp)
    BY <1>1, <1>2, <2>1 DEF Recent
  <2>4. QED
    BY <1>0, <1>3, <1>a, <2>1, <2>2, <2>3
<1>5. CASE ChokepointOnline(r)
  <2>1. req' = [req EXCEPT ![r] = c] /\ UNCHANGED loop /\ Consult(FALSE)
    BY <1>5 DEF ChokepointOnline, Goes, c
  <2>2. /\ cache' \in Verdicts \cup {NoVerdict}
        /\ cache' # NoVerdict /\ cache'.online => cache'.ts <= lastUp
        /\ now < lastUp + OnlineTTL
    BY <1>0, <2>1, ConsultIsRecent
  <2>3. Timed(c) /\ c.at \in Holding
    BY <1>3, <2>2 DEF Timed, Holding
  <2>4. QED
    BY <1>0, <1>3, <1>a, <2>1, <2>2, <2>3
<1>6. CASE ChokepointDowngrade(r)
  <2> DEFINE q == [req[r] EXCEPT !.at = "checked", !.model = Fallback, !.mirror = FALSE, !.downgraded = TRUE]
  <2>1. req' = [req EXCEPT ![r] = q] /\ UNCHANGED loop /\ Consult(TRUE)
    BY <1>6 DEF ChokepointDowngrade, Goes
  <2>2. /\ cache' \in Verdicts \cup {NoVerdict}
        /\ cache' # NoVerdict /\ cache'.online => cache'.ts <= lastUp
    BY <1>0, <2>1, ConsultIsRecent
  <2>3. "checked" \in Places /\ Fallback \in Models \cup LocalAliases
    BY Names DEF Places
  <2>4. /\ q \in Turns /\ q.at = "checked" /\ q.model = Fallback
        /\ q.ask = req[r].ask /\ q.explicit = req[r].explicit
    BY <1>1, <2>3 DEF Turns
  <2> HIDE DEF q
  <2>5. Decided(q) /\ Timed(q) /\ q.at \in Holding
    BY <1>0, <1>1, <2>4, Names DEF Decided, Timed, Holding
  <2>6. QED
    BY <1>0, <1>a, <2>1, <2>2, <2>4, <2>5
<1>7. CASE ChokepointReject(r)
  <2> DEFINE q == [req[r] EXCEPT !.at = "rejected"]
  <2>1. req' = [req EXCEPT ![r] = q] /\ loop' = None /\ Consult(TRUE) /\ req[r].explicit
    BY <1>7 DEF ChokepointReject, Goes
  <2>2. /\ cache' \in Verdicts \cup {NoVerdict}
        /\ cache' # NoVerdict /\ cache'.online => cache'.ts <= lastUp
    BY <1>0, <2>1, ConsultIsRecent
  <2>3. "rejected" \in Places
    BY DEF Places
  <2>4. /\ q \in Turns /\ q.at = "rejected" /\ q.ask = req[r].ask /\ q.explicit = req[r].explicit
    BY <1>1, <2>3 DEF Turns
  <2> HIDE DEF q
  <2>5. Decided(q) /\ Timed(q) /\ q.at \notin Holding
    BY <1>0, <1>1, <2>1, <2>4 DEF Decided, Timed, Holding, UnderWay
  <2>6. QED
    BY <1>0, <1>a, <2>1, <2>2, <2>4, <2>5
<1>8. QED
  BY <1>4, <1>5, <1>6, <1>7

\* What the end of the hook makes of a turn.
LEMMA FinishedTurn ==
  ASSUME NEW q \in Turns, Decided(q), q.at = "checked"
  PROVE  LET f == [Thinking(Redirected(q)) EXCEPT !.at = "sent"]
         IN  /\ f \in Turns /\ f.at = "sent" /\ Decided(f) /\ Timed(f)
             /\ f.model = q.model \/ ~IsClaude(f.model)
<1> DEFINE d == Redirected(q)  e == Thinking(d)  f == [e EXCEPT !.at = "sent"]
<1>1. /\ d \in Turns /\ d.ask = q.ask /\ d.explicit = q.explicit /\ d.routed = q.routed
      /\ d.model = q.model \/ d.model = "local-long"
      /\ IsClaude(d.model) => d.model = q.model /\ d.decision = q.decision
      /\ d.ask.tools => d.model \notin NonToolNative
  <2>1. "local-long" \in Models /\ ~IsClaude("local-long") /\ "local-long" \notin NonToolNative
    BY Names
  <2>2. CASE q.ask.tools /\ q.model \in NonToolNative
    <3>1. d = [q EXCEPT !.model = "local-long", !.mirror = FALSE, !.decision = "local-long"]
      BY <2>2 DEF Redirected
    <3> HIDE DEF d
    <3>2. /\ d \in Turns /\ d.ask = q.ask /\ d.explicit = q.explicit /\ d.model = "local-long"
          /\ d.routed = q.routed
      BY <2>1, <3>1 DEF Turns
    <3>3. QED
      BY <2>1, <3>2
  <2>3. CASE ~(q.ask.tools /\ q.model \in NonToolNative)
    BY <2>3 DEF Redirected
  <2>4. QED
    BY <2>2, <2>3
<1> HIDE DEF d
<1>2. (IsClaude(d.model) /\ ~ResolvesToHaiku(d.model)) \in BOOLEAN
  OBVIOUS
<1>3. /\ e \in Turns /\ e.ask = d.ask /\ e.explicit = d.explicit /\ e.model = d.model
      /\ e.decision = d.decision /\ e.routed = d.routed
  BY <1>1, <1>2 DEF Thinking, Turns
<1> HIDE DEF e
<1>4. "sent" \in Places
  BY DEF Places
<1>5. /\ f \in Turns /\ f.at = "sent" /\ f.ask = q.ask /\ f.explicit = q.explicit
      /\ f.model = d.model /\ f.decision = d.decision /\ f.routed = q.routed
  BY <1>1, <1>3, <1>4 DEF Turns
<1> HIDE DEF f
<1>6. Decided(f)
  BY <1>1, <1>5 DEF Decided, AskedFor, Requested, UnderWay
<1>7. Timed(f)
  BY <1>5 DEF Timed
<1>8. f.model = q.model \/ ~IsClaude(f.model)
  BY <1>1, <1>5, Names
<1>9. QED
  BY <1>5, <1>6, <1>7, <1>8 DEF d, e, f

LEMMA FinishStep ==
  ASSUME HookIInv, NEW r \in Requests, Finish(r)
  PROVE  HookIInv'
<1> DEFINE q == [Thinking(Redirected(req[r])) EXCEPT !.at = "sent"]
<1>1. /\ req[r].at = "checked" /\ loop = r /\ loop' = None /\ req' = [req EXCEPT ![r] = q]
      /\ UNCHANGED <<now, table, world, cache, keyCache, proxyKey>>
  BY DEF Finish, Goes, At
<1>2. q \in Turns /\ q.at = "sent" /\ Decided(q) /\ Timed(q)
  BY <1>1, HookFacts, FinishedTurn
<1> HIDE DEF q
<1>3. /\ cache' \in Verdicts \cup {NoVerdict} /\ keyCache' \in KeyVerdicts /\ proxyKey' \in KeyVerdicts
      /\ q.at \notin Holding
  BY <1>1, <1>2, HookFacts DEF Holding
<1>4. IInv' /\ Recent'
  BY <1>1, TableStays, RecentStays DEF HookIInv
<1>5. QED
  BY <1>1, <1>2, <1>3, <1>4, LoopStep

\* LiteLLM serves the request, and the slot is free again.
LEMMA AfterSteps ==
  ASSUME HookIInv, NEW r \in Requests,
         Leave(r) \/ \E fellBack \in BOOLEAN : Serve(r, fellBack)
  PROVE  HookIInv'
<1>1. /\ req[r] \in Turns /\ Decided(req[r]) /\ Timed(req[r])
      /\ UNCHANGED <<now, table, world, cache, keyCache, proxyKey, loop>>
  BY HookFacts DEF Leave, Serve
<1>2. IInv' /\ Recent' /\ UNCHANGED <<now, world, loop>>
  BY <1>1, TableStays, RecentStays DEF HookIInv
<1>3. /\ cache' \in Verdicts \cup {NoVerdict} /\ keyCache' \in KeyVerdicts /\ proxyKey' \in KeyVerdicts
  BY <1>1, HookFacts
<1>4. CASE Leave(r)
  <2>1. req' = [req EXCEPT ![r] = Free] /\ req[r].at \notin Holding
    BY <1>4 DEF Leave, Goes, Holding
  <2>2. Free.at = "free" /\ Free \in Turns
    BY FreeTurn DEF Free
  <2>3. Decided(Free) /\ Timed(Free) /\ Free.at \notin Holding
    BY <2>2 DEF Decided, Timed, Holding, UnderWay
  <2>4. QED
    BY <1>2, <1>3, <2>1, <2>2, <2>3, AsideStep
<1>5. ASSUME NEW fellBack \in BOOLEAN, Serve(r, fellBack) PROVE HookIInv'
  <2> DEFINE served == IF fellBack THEN "local-long" ELSE req[r].model
             m == Marked(req[r].decision, served)
             q == [req[r] EXCEPT !.at = "done", !.model = served, !.fellBack = fellBack, !.marked = m]
  <2>1. /\ req[r].at = "sent" /\ (fellBack => req[r].model \in HasFallback)
        /\ req' = [req EXCEPT ![r] = q]
    BY <1>5 DEF Serve, Goes
  <2>2. /\ served \in Models \cup LocalAliases
        /\ served = "local-long" \/ served = req[r].model
        /\ fellBack => served = "local-long"
    BY <1>1, Names DEF Turns
  <2>3. m \in BOOLEAN
    BY DEF Marked
  <2>4. fellBack /\ req[r].decision # None => m
    <3>1. fellBack /\ req[r].decision # None => IsClaude(req[r].decision)
      BY <1>1, <2>1, Names DEF Decided, UnderWay
    <3>2. "local-long" \notin ClaudeAliases
      BY Names DEF IsClaude
    <3>3. QED
      BY <2>2, <3>1, <3>2 DEF Marked, TierOf, IsClaude
  <2> HIDE DEF m, served
  <2>5. "done" \in Places
    BY DEF Places
  <2>6. /\ q \in Turns /\ q.at = "done" /\ q.model = served /\ q.fellBack = fellBack /\ q.marked = m
        /\ q.ask = req[r].ask /\ q.explicit = req[r].explicit /\ q.decision = req[r].decision
    BY <1>1, <2>2, <2>3, <2>5 DEF Turns
  <2> HIDE DEF q
  <2>7. Decided(q)
    BY <1>1, <2>1, <2>2, <2>4, <2>6, Names DEF Decided, UnderWay
  <2>8. Timed(q) /\ q.at \notin Holding /\ req[r].at \notin Holding
    BY <2>1, <2>6 DEF Timed, Holding
  <2>9. QED
    BY <1>2, <1>3, <2>1, <2>6, <2>7, <2>8, AsideStep
<1>6. QED
  BY <1>4, <1>5

LEMMA Later ==
  ASSUME NEW t \in Nat, NEW u \in Nat, NEW v \in Nat, NEW d \in Nat, u <= v, t < u + d
  PROVE  t < v + d
  OBVIOUS

\* A step that is no request's own, and moves the world on.
LEMMA WorldStep ==
  ASSUME HookIInv, IInv', UNCHANGED <<req, loop, cache, keyCache>>,
         setting' \in OfflineSettings, strict' \in BOOLEAN, network' \in BOOLEAN, keyHeld' \in BOOLEAN,
         proxyKey' \in KeyVerdicts, proxyKey'.available => proxyKey'.expires <= lastKey' + ProxyTTL,
         lastUp' \in Nat, lastUp <= lastUp', lastUp' <= now', Up' => lastUp' = now',
         lastKey' \in Nat, lastKey <= lastKey', lastKey' <= now', keyHeld' => lastKey' = now',
         now' \in Nat, now <= now',
         now' # now => \A r \in Requests :
           /\ req[r].at # "checked"
           /\ req[r].at \in {"awaiting", "answered"} => now' <= req[r].asked + HealthMax
  PROVE  HookIInv'
<1>0. /\ req \in [Requests -> Turns] /\ \A r \in Requests : req[r] \in Turns
      /\ \A r \in Requests : Decided(req[r]) /\ Timed(req[r])
      /\ now \in Nat /\ lastUp \in Nat /\ lastKey \in Nat
      /\ cache \in Verdicts \cup {NoVerdict} /\ keyCache \in KeyVerdicts /\ Recent
  BY HookFacts DEF HookIInv
<1>1. HookTypeOK'
  BY DEF HookTypeOK, HookIInv, IInv
<1>2. ASSUME NEW r \in Requests PROVE Decided(req[r])'
  BY <1>0 DEF Decided, AskedFor, Requested
<1>3. ASSUME NEW r \in Requests PROVE Timed(req[r])'
  <2> DEFINE q == req[r]
  <2>1. q \in Turns /\ Timed(q) /\ req'[r] = q
    BY <1>0
  <2>2. q.asked \in Nat
    BY <2>1 DEF Turns
  <2> HIDE DEF q
  <2>3. q.at \in {"awaiting", "answered"} => q.asked <= now' /\ now' <= q.asked + HealthMax
    <3>1. q.at \in {"awaiting", "answered"} => q.asked <= now /\ now <= q.asked + HealthMax
      BY <2>1 DEF Timed
    <3>2. now' # now /\ q.at \in {"awaiting", "answered"} => now' <= q.asked + HealthMax
      BY DEF q
    <3>3. QED
      BY <1>0, <2>2, <3>1, <3>2, HookConstants
  <2>4. q.at = "answered" /\ q.key => q.asked < lastKey' + ProxyTTL
    BY <1>0, <2>1, <2>2, HookConstants DEF Timed
  <2>5. q.at = "checked" /\ IsClaude(q.model) => now' < lastUp' + OnlineTTL
    <3>1. q.at = "checked" => now' = now
      BY DEF q
    <3>2. q.at = "checked" /\ IsClaude(q.model) => now < lastUp + OnlineTTL
      BY <2>1 DEF Timed
    <3>3. now < lastUp + OnlineTTL => now < lastUp' + OnlineTTL
      <4>1. now \in Nat /\ lastUp \in Nat /\ OnlineTTL \in Nat
        BY <1>0, HookConstants
      <4>2. QED
        BY <4>1, Later
    <3>4. QED
      BY <3>1, <3>2, <3>3
  <2>6. Timed(q)'
    BY <2>1, <2>3, <2>4, <2>5 DEF Timed, q
  <2>7. QED
    BY <2>6 DEF q
<1>4. Recent'
  <2>1. cache # NoVerdict /\ cache.online => cache.ts <= lastUp'
    <3>1. cache # NoVerdict => cache.ts \in Nat
      BY <1>0 DEF Verdicts
    <3>2. QED
      BY <1>0, <3>1 DEF Recent
  <2>2. keyCache.available => keyCache.expires < lastKey' + ProxyTTL + KeyTTL
    <3>1. keyCache.expires \in Nat
      BY <1>0 DEF KeyVerdicts
    <3>2. QED
      BY <1>0, <3>1, HookConstants DEF Recent
  <2>3. QED
    BY <2>1, <2>2 DEF Recent
<1>5. QED
  BY <1>1, <1>2, <1>3, <1>4 DEF HookIInv

LEMMA HookTickStep ==
  ASSUME HookIInv, HookTick
  PROVE  HookIInv'
<1>0. /\ now \in Nat /\ lastUp \in Nat /\ lastKey \in Nat /\ proxyKey \in KeyVerdicts
      /\ Recent /\ HookTypeOK /\ IInv /\ \A r \in Requests : req[r] \in Turns
  BY HookFacts DEF HookIInv
<1>1. /\ now' = now + 1 /\ UNCHANGED <<setting, strict, network, keyHeld, cache, keyCache, proxyKey, req, loop>>
      /\ lastUp' = IF Up THEN now' ELSE lastUp
      /\ lastKey' = IF keyHeld THEN now' ELSE lastKey
  BY DEF HookTick, Tick
<1>2. IInv'
  BY <1>0, NextIInv DEF HookTick, Next
<1>3. Up' = Up
  BY <1>1 DEF Up
<1>4. /\ lastUp' \in Nat /\ lastUp <= lastUp' /\ lastUp' <= now' /\ (Up' => lastUp' = now')
      /\ lastKey' \in Nat /\ lastKey <= lastKey' /\ lastKey' <= now' /\ (keyHeld' => lastKey' = now')
  BY <1>0, <1>1, <1>3 DEF Recent
<1>5. /\ proxyKey' \in KeyVerdicts
      /\ proxyKey'.available => proxyKey'.expires <= lastKey' + ProxyTTL
  <2>1. proxyKey.expires \in Nat
    BY <1>0 DEF KeyVerdicts
  <2>2. proxyKey.available => proxyKey.expires <= lastKey + ProxyTTL
    BY <1>0 DEF Recent
  <2>3. QED
    BY <1>0, <1>1, <1>4, <2>1, <2>2, HookConstants
<1>6. ASSUME NEW r \in Requests
      PROVE  /\ req[r].at # "checked"
             /\ req[r].at \in {"awaiting", "answered"} => now' <= req[r].asked + HealthMax
  <2>1. req[r].at = "checked" => loop = r
    BY <1>0 DEF HookTypeOK
  <2>2. loop = r => req[r].at # "checked"
    BY HookConstants DEF HookTick
  <2>3. req[r].asked \in Nat
    BY <1>0 DEF Turns
  <2>4. req[r].at \in {"awaiting", "answered"} => now - req[r].asked < HealthMax
    BY DEF HookTick
  <2>5. req[r].at \in {"awaiting", "answered"} => now' <= req[r].asked + HealthMax
    BY <1>0, <1>1, <2>3, <2>4, HookConstants
  <2>6. QED
    BY <2>1, <2>2, <2>5
<1>7. /\ setting' \in OfflineSettings /\ strict' \in BOOLEAN /\ network' \in BOOLEAN /\ keyHeld' \in BOOLEAN
      /\ now' \in Nat /\ now <= now'
  BY <1>0, <1>1 DEF HookTypeOK
<1>8. QED
  BY <1>1, <1>2, <1>4, <1>5, <1>6, <1>7, WorldStep

\* Nothing but the world moves.
LEMMA WorldMovesStep ==
  ASSUME HookIInv, WorldMoves
  PROVE  HookIInv'
<1>0. /\ now \in Nat /\ lastUp \in Nat /\ lastKey \in Nat /\ proxyKey \in KeyVerdicts
      /\ Recent /\ HookTypeOK /\ IInv
  BY HookFacts DEF HookIInv
<1>1. /\ UNCHANGED <<now, table, cache, keyCache, proxyKey, req, loop>>
      /\ lastUp' = IF Up \/ Up' THEN now ELSE lastUp
      /\ lastKey' = IF keyHeld \/ keyHeld' THEN now ELSE lastKey
  BY DEF WorldMoves
<1>2. IInv'
  BY <1>0, <1>1, TableStays
<1>3. /\ setting' \in OfflineSettings /\ strict' \in BOOLEAN /\ network' \in BOOLEAN /\ keyHeld' \in BOOLEAN
  <2>1. setting \in OfflineSettings /\ strict \in BOOLEAN /\ network \in BOOLEAN /\ keyHeld \in BOOLEAN
    BY <1>0 DEF HookTypeOK
  <2>2. (~network) \in BOOLEAN /\ (~strict) \in BOOLEAN /\ (~keyHeld) \in BOOLEAN
    OBVIOUS
  <2>3. QED
    BY <2>1, <2>2 DEF WorldMoves
<1>4. /\ lastUp' \in Nat /\ lastUp <= lastUp' /\ lastUp' <= now' /\ (Up' => lastUp' = now')
      /\ lastKey' \in Nat /\ lastKey <= lastKey' /\ lastKey' <= now' /\ (keyHeld' => lastKey' = now')
  BY <1>0, <1>1 DEF Recent
<1>5. /\ proxyKey' \in KeyVerdicts
      /\ proxyKey'.available => proxyKey'.expires <= lastKey' + ProxyTTL
  <2>1. proxyKey.expires \in Nat
    BY <1>0 DEF KeyVerdicts
  <2>2. proxyKey.available => proxyKey.expires <= lastKey + ProxyTTL
    BY <1>0 DEF Recent
  <2>3. QED
    BY <1>0, <1>1, <1>4, <2>1, <2>2, HookConstants
<1>6. now' \in Nat /\ now <= now' /\ now' = now
  BY <1>0, <1>1
<1>7. QED
  BY <1>1, <1>2, <1>3, <1>4, <1>5, <1>6, WorldStep

LEMMA ProxyServesOthersStep ==
  ASSUME HookIInv, ProxyServesOthers
  PROVE  HookIInv'
<1>1. PICK available \in BOOLEAN : ProxyLooksUp(available)
  BY DEF ProxyServesOthers
<1>2. UNCHANGED <<now, table, world, cache, keyCache, req, loop>>
  BY DEF ProxyServesOthers
<1>3. /\ proxyKey' \in KeyVerdicts
      /\ proxyKey'.available => proxyKey'.expires <= lastKey + ProxyTTL
  BY <1>1, <1>2, ProxyIsRecent
<1>4. IInv'
  BY <1>2, TableStays DEF HookIInv
<1>5. /\ now \in Nat /\ lastUp \in Nat /\ lastKey \in Nat /\ Recent /\ HookTypeOK
  BY HookFacts DEF HookIInv
<1>6. UNCHANGED <<now, setting, strict, network, keyHeld, lastUp, lastKey>> /\ Up' = Up
  BY <1>2 DEF world, Up
<1>7. /\ setting' \in OfflineSettings /\ strict' \in BOOLEAN /\ network' \in BOOLEAN /\ keyHeld' \in BOOLEAN
  BY <1>5, <1>6 DEF HookTypeOK
<1>8. /\ lastUp' \in Nat /\ lastUp <= lastUp' /\ lastUp' <= now' /\ (Up' => lastUp' = now')
      /\ lastKey' \in Nat /\ lastKey <= lastKey' /\ lastKey' <= now' /\ (keyHeld' => lastKey' = now')
      /\ now' \in Nat /\ now <= now' /\ now' = now
  BY <1>5, <1>6 DEF Recent
<1>9. QED
  BY <1>2, <1>3, <1>4, <1>6, <1>7, <1>8, WorldStep

\* Every step of the hook, of the requests and of the world preserves the invariant.
LEMMA NextHookIInv == HookIInv /\ [HookNext]_hookVars => HookIInv'
<1> SUFFICES ASSUME HookIInv, [HookNext]_hookVars PROVE HookIInv'
  OBVIOUS
<1>1. ASSUME NEW r \in Requests, HookStep(r) PROVE HookIInv'
  BY <1>1, EscalationSteps, AnswerSteps, ChokepointSteps, FinishStep DEF HookStep
<1>2. CASE UNCHANGED hookVars
  <2>1. UNCHANGED <<now, table, world, cache, keyCache, proxyKey, req, loop>>
    BY <1>2 DEF hookVars
  <2>2. IInv' /\ Recent'
    BY <2>1, TableStays, RecentStays DEF HookIInv
  <2>3. HookTypeOK'
    BY <2>1, <2>2 DEF HookIInv, HookTypeOK, IInv, world
  <2>4. ASSUME NEW r \in Requests PROVE Decided(req[r])' /\ Timed(req[r])'
    BY <2>1 DEF HookIInv, Decided, Timed, AskedFor, Requested, world
  <2>5. QED
    BY <2>2, <2>3, <2>4 DEF HookIInv
<1>3. QED
  BY <1>1, <1>2, RouteStep, AnswerSteps, AfterSteps, ProxyServesOthersStep, HookTickStep, WorldMovesStep
  DEF HookNext

----------------------------------------------------------------------------
(* The theorems *)

\* Every variable of the hook has its type, and the event loop is held by the one
\* request that is between two steps of it with no await in between.
THEOREM HookTypeCorrect == HookSpec => []HookTypeOK
<1>1. HookIInv => HookTypeOK
  BY DEF HookIInv
<1>2. QED
  BY <1>1, InitHookIInv, NextHookIInv, PTL DEF HookSpec

\* async_pre_call_hook(): the Claude model a turn is sent to is the one its client
\* named or routing chose, or the header's in the place of claude-code, and a
\* [local] task under hybrid-auto is sent to none, whatever the await, the other
\* requests and the table do in between.
THEOREM ClaudeOnlyWhenAsked == HookSpec => []ClaudeIsAskedFor
<1>1. HookIInv => ClaudeIsAskedFor
  <2> SUFFICES ASSUME HookIInv, NEW r \in Requests, req[r].at = "sent", IsClaude(req[r].model)
               PROVE  AskedFor(req[r])
    BY DEF ClaudeIsAskedFor, AskedFor
  <2>1. QED
    BY HookFacts DEF Decided, UnderWay
<1>2. QED
  BY <1>1, InitHookIInv, NextHookIInv, PTL DEF HookSpec

\* _maybe_redirect_tools_to_native(), and a LiteLLM fallback after it, leave no
\* turn with tools on a tier that writes them as text.
THEOREM ToolsAreNative == HookSpec => []ToolsReachNativeTier
<1>1. HookIInv => ToolsReachNativeTier
  BY HookFacts DEF ToolsReachNativeTier, Decided
<1>2. QED
  BY <1>1, InitHookIInv, NextHookIInv, PTL DEF HookSpec

\* _annotate_router_fallback() marks every fallback of a routed turn.
THEOREM FallbacksAreVisible == HookSpec => []FallbackVisible
<1>1. HookIInv => FallbackVisible
  BY HookFacts DEF FallbackVisible, Decided
<1>2. QED
  BY <1>1, InitHookIInv, NextHookIInv, PTL DEF HookSpec

----------------------------------------------------------------------------
(* What a step may do *)

LEMMA RouteGoes ==
  ASSUME HookIInv, NEW r \in Requests, NEW ask \in Asks, Route(r, ask)
  PROVE  \E model \in Models \cup LocalAliases, decision \in Models \cup {None} :
           Goes(r, Arrived(ask, model, decision))
<1>1. CASE NamedModel(r, ask)
  <2>1. ask.alias \in Models \cup LocalAliases
    BY <1>1, AsksAre DEF NamedModel
  <2>2. QED
    BY <1>1, <2>1 DEF NamedModel
<1>2. CASE HybridCline(r, ask)
  <2>1. PICK offline \in BOOLEAN : DecideTierCline(ask.task, offline)
    BY <1>2 DEF HybridCline
  <2>2. ask.task \in Tasks /\ Goes(r, Arrived(ask, route'.model, route'.model))
    BY <1>2, AsksAre DEF HybridCline
  <2>3. route'.model \in Models
    BY <2>1, <2>2, ClineRouted
  <2>4. QED
    BY <2>2, <2>3
<1>3. CASE HybridOther(r, ask)
  <2>1. PICK offline \in BOOLEAN : Goes(r, Arrived(ask, DecideTier(ask, offline), DecideTier(ask, offline)))
    BY <1>3 DEF HybridOther
  <2>2. DecideTier(ask, offline) \in Models
    BY DecideTierModel
  <2>3. QED
    BY <2>1, <2>2
<1>4. QED
  BY <1>1, <1>2, <1>3 DEF Route

\* Which step makes of a request what: only the end of the hook sends one, and
\* only the header and the two answers to it turn a routed one into an escalated.
LEMMA WhoMoves ==
  ASSUME HookIInv, [HookNext]_hookVars, NEW r \in Requests, req'[r] # req[r]
  PROVE  \/ Finish(r)
         \/ NoEscalation(r) \/ KeyCacheHit(r) \/ Resume(r)
         \/ req'[r].at \notin {"sent", "escalated"}
<1>0. req \in [Requests -> Turns] /\ HookTypeOK
  BY HookFacts DEF HookIInv
<1>1. ASSUME NEW s \in Requests, NEW q, Goes(s, q) PROVE r = s /\ req'[r] = q
  BY <1>0, <1>1 DEF Goes
<1>2. ASSUME NEW s \in Requests, NEW ask \in Asks, Route(s, ask) PROVE req'[r].at = "routed"
  <2>1. \E model \in Models \cup LocalAliases, decision \in Models \cup {None} :
          Goes(s, Arrived(ask, model, decision))
    BY <1>2, RouteGoes
  <2>2. QED
    BY <1>1, <2>1, ArrivedTurn
<1>3. ASSUME NEW s \in Requests, HookStep(s), ~Finish(s), ~NoEscalation(s), ~KeyCacheHit(s)
      PROVE  r = s /\ req'[r].at \in {"awaiting", "answered", "checked", "rejected"}
  <2>0. req[s] \in Turns
    BY <1>0
  <2>1. ASSUME AskHealth(s) PROVE r = s /\ req'[r].at = "awaiting"
    <3> DEFINE q == [req[s] EXCEPT !.at = "awaiting", !.asked = now]
    <3>1. Goes(s, q)
      BY <2>1 DEF AskHealth
    <3>2. q.at = "awaiting"
      BY <2>0 DEF Turns
    <3> HIDE DEF q
    <3>3. QED
      BY <1>1, <3>1, <3>2
  <2>2. ASSUME NEW available \in BOOLEAN, HealthAnswers(s, available) PROVE r = s /\ req'[r].at = "answered"
    <3> DEFINE q == [req[s] EXCEPT !.at = "answered", !.key = available]
    <3>1. Goes(s, q)
      BY <2>2 DEF HealthAnswers
    <3>2. q.at = "answered"
      BY <2>0 DEF Turns
    <3> HIDE DEF q
    <3>3. QED
      BY <1>1, <3>1, <3>2
  <2>3. ASSUME ChokepointLocal(s) \/ ChokepointOnline(s) PROVE r = s /\ req'[r].at = "checked"
    <3> DEFINE q == [req[s] EXCEPT !.at = "checked"]
    <3>1. Goes(s, q)
      BY <2>3 DEF ChokepointLocal, ChokepointOnline
    <3>2. q.at = "checked"
      BY <2>0 DEF Turns
    <3> HIDE DEF q
    <3>3. QED
      BY <1>1, <3>1, <3>2
  <2>4. ASSUME ChokepointDowngrade(s) PROVE r = s /\ req'[r].at = "checked"
    <3> DEFINE q == [req[s] EXCEPT !.at = "checked", !.model = Fallback, !.mirror = FALSE, !.downgraded = TRUE]
    <3>1. Goes(s, q)
      BY <2>4 DEF ChokepointDowngrade
    <3>2. q.at = "checked"
      BY <2>0 DEF Turns
    <3> HIDE DEF q
    <3>3. QED
      BY <1>1, <3>1, <3>2
  <2>5. ASSUME ChokepointReject(s) PROVE r = s /\ req'[r].at = "rejected"
    BY <1>1, <2>0, <2>5 DEF ChokepointReject, Turns
  <2>6. QED
    BY <1>3, <2>1, <2>2, <2>3, <2>4, <2>5 DEF HookStep
<1>4. ASSUME NEW s \in Requests, Finish(s) \/ NoEscalation(s) \/ KeyCacheHit(s) \/ Resume(s) PROVE r = s
  BY <1>1, <1>4 DEF Finish, NoEscalation, KeyCacheHit, Resume
<1>5. ASSUME NEW s \in Requests, NEW fellBack \in BOOLEAN, Serve(s, fellBack) PROVE req'[r].at = "done"
  <2>0. req[s] \in Turns
    BY <1>0
  <2> DEFINE served == IF fellBack THEN "local-long" ELSE req[s].model
             q == [req[s] EXCEPT !.at = "done", !.model = served, !.fellBack = fellBack,
                                 !.marked = Marked(req[s].decision, served)]
  <2>1. Goes(s, q)
    BY <1>5 DEF Serve
  <2>2. q.at = "done"
    BY <2>0 DEF Turns
  <2> HIDE DEF q
  <2>3. QED
    BY <1>1, <2>1, <2>2
<1>6. ASSUME NEW s \in Requests, Leave(s) PROVE req'[r].at = "free"
  BY <1>1, <1>6 DEF Leave, Free
<1>7. ~(ProxyServesOthers \/ HookTick \/ WorldMoves \/ UNCHANGED hookVars)
  BY DEF ProxyServesOthers, HookTick, WorldMoves, hookVars
<1>8. QED
  BY <1>2, <1>3, <1>4, <1>5, <1>6, <1>7 DEF HookNext

\* One step: a turn that leaves for Claude passed a chokepoint that had reason to
\* believe Claude was up less than OnlineTTL ago.
LEMMA SendIsRecent ==
  ASSUME HookIInv, [HookNext]_hookVars, NEW r \in Requests, Sends(r), IsClaude(req'[r].model)
  PROVE  now - lastUp < OnlineTTL
<1>1. req[r].at = "checked" /\ req'[r].at = "sent"
  BY DEF Sends
<1>2. Finish(r)
  BY <1>1, WhoMoves DEF NoEscalation, KeyCacheHit, Resume, At
<1>3. req' = [req EXCEPT ![r] = [Thinking(Redirected(req[r])) EXCEPT !.at = "sent"]]
  BY <1>2 DEF Finish, Goes
<1>4. /\ req \in [Requests -> Turns] /\ req[r] \in Turns /\ Decided(req[r]) /\ Timed(req[r])
      /\ now \in Nat /\ lastUp \in Nat
  BY HookFacts
<1>5. IsClaude(req[r].model)
  BY <1>1, <1>3, <1>4, FinishedTurn
<1>6. now < lastUp + OnlineTTL
  BY <1>1, <1>4, <1>5 DEF Timed
<1>7. QED
  BY <1>4, <1>6, HookConstants

\* One step: an escalation rests on an answer that the two caches in a row cannot
\* make older than their lifetimes, each less one tick.
LEMMA EscalationIsRecent ==
  ASSUME HookIInv, [HookNext]_hookVars, NEW r \in Requests,
         req[r].at \in {"routed", "answered"}, req'[r].at = "escalated", req'[r].model # req[r].model
  PROVE  now - lastKey <= (KeyTTL - 1) + (ProxyTTL - 1)
<1>1. /\ req \in [Requests -> Turns] /\ req[r] \in Turns /\ Timed(req[r]) /\ keyCache \in KeyVerdicts
      /\ now \in Nat /\ lastKey \in Nat /\ Recent
  BY HookFacts DEF HookIInv
<1>2. /\ req[r].asked \in Nat /\ keyCache.expires \in Nat
      /\ req[r].key \in BOOLEAN /\ keyCache.available \in BOOLEAN
  BY <1>1 DEF Turns, KeyVerdicts
<1>3. NoEscalation(r) \/ KeyCacheHit(r) \/ Resume(r)
  BY WhoMoves DEF Finish, At
<1>4. ~NoEscalation(r)
  BY <1>1 DEF NoEscalation, Goes, Turns
<1>5. ASSUME NEW available \in BOOLEAN, req' = [req EXCEPT ![r] = Escalated(req[r], available)]
      PROVE  available
  <2>1. CASE ~available
    <3>1. req'[r] = [req[r] EXCEPT !.at = "escalated"]
      BY <1>1, <1>5, <2>1 DEF Escalated
    <3>2. QED
      BY <1>1, <3>1 DEF Turns
  <2>2. QED
    BY <2>1
<1>6. CASE KeyCacheHit(r)
  <2>1. now < keyCache.expires /\ req' = [req EXCEPT ![r] = Escalated(req[r], keyCache.available)]
    BY <1>6 DEF KeyCacheHit, Goes
  <2>2. keyCache.available
    BY <1>2, <1>5, <2>1
  <2>3. keyCache.expires < lastKey + ProxyTTL + KeyTTL
    BY <1>1, <2>2 DEF Recent
  <2>4. QED
    BY <1>1, <1>2, <2>1, <2>3, HookConstants
<1>7. CASE Resume(r)
  <2>1. req[r].at = "answered" /\ req' = [req EXCEPT ![r] = Escalated(req[r], req[r].key)]
    BY <1>7 DEF Resume, Goes
  <2>2. req[r].key
    BY <1>2, <1>5, <2>1
  <2>3. now <= req[r].asked + HealthMax /\ req[r].asked < lastKey + ProxyTTL
    BY <1>1, <2>1, <2>2 DEF Timed
  <2>4. QED
    BY <1>1, <1>2, <2>3, HookConstants
<1>8. QED
  BY <1>3, <1>4, <1>6, <1>7

\* A turn that came through its escalation is moved on by maybe_downgrade() alone.
LEMMA OnlyTheChokepoint ==
  ASSUME HookIInv, [HookNext]_hookVars, NEW r \in Requests, req[r].at = "escalated", req'[r] # req[r]
  PROVE  ChokepointLocal(r) \/ ChokepointOnline(r) \/ ChokepointDowngrade(r) \/ ChokepointReject(r)
<1>0. req \in [Requests -> Turns]
  BY HookFacts
<1>1. ASSUME NEW s \in Requests, NEW q, Goes(s, q), req[s].at # "escalated" PROVE FALSE
  BY <1>0, <1>1 DEF Goes
<1>2. ASSUME NEW s \in Requests, NEW ask \in Asks, Route(s, ask) PROVE FALSE
  <2>1. \E model \in Models \cup LocalAliases, decision \in Models \cup {None} :
          Goes(s, Arrived(ask, model, decision))
    BY <1>2, RouteGoes
  <2>2. req[s].at = "free"
    BY <1>2 DEF Route
  <2>3. QED
    BY <1>1, <2>1, <2>2
<1>3. ASSUME NEW s \in Requests,
             \/ NoEscalation(s) \/ KeyCacheHit(s) \/ AskHealth(s) \/ Finish(s) \/ Resume(s)
             \/ \E available \in BOOLEAN : HealthAnswers(s, available)
             \/ \E fellBack \in BOOLEAN : Serve(s, fellBack)
             \/ Leave(s)
      PROVE  FALSE
  BY <1>1, <1>3 DEF NoEscalation, KeyCacheHit, AskHealth, Finish, Resume, HealthAnswers, Serve, Leave, At
<1>4. ASSUME NEW s \in Requests,
             ChokepointLocal(s) \/ ChokepointOnline(s) \/ ChokepointDowngrade(s) \/ ChokepointReject(s)
      PROVE  s = r
  BY <1>0, <1>4 DEF ChokepointLocal, ChokepointOnline, ChokepointDowngrade, ChokepointReject, Goes
<1>5. req' # req
  OBVIOUS
<1>6. ~ProxyServesOthers /\ ~HookTick /\ ~WorldMoves /\ ~UNCHANGED hookVars
  BY <1>5 DEF ProxyServesOthers, HookTick, WorldMoves, hookVars
<1>7. PICK s \in Requests :
        \/ \E ask \in Asks : Route(s, ask)
        \/ HookStep(s) \/ Resume(s) \/ Leave(s)
        \/ \E fellBack \in BOOLEAN : Serve(s, fellBack)
  BY <1>6 DEF HookNext
<1>8. QED
  BY <1>2, <1>3, <1>4, <1>7 DEF HookStep

\* What it makes of one, by the name that was asked for.
LEMMA StrictStep ==
  ASSUME HookIInv, [HookNext]_hookVars, NEW r \in Requests, req[r].at = "escalated"
  PROVE  /\ req'[r].downgraded => ~(strict /\ IsClaude(req[r].ask.alias))
         /\ req'[r].at = "rejected" => strict /\ ~AsksForNothing(req[r].ask)
<1>1. /\ req \in [Requests -> Turns] /\ req[r] \in Turns /\ ~req[r].downgraded
      /\ req[r].ask \in Asks /\ req[r].explicit = NamesClaude(req[r].ask)
  BY HookFacts DEF Decided
<1>a. IsClaude(req[r].ask.alias) => NamesClaude(req[r].ask)
  BY <1>1, MirrorsAreStripped
<1>2. NamesClaude(req[r].ask) => ~AsksForNothing(req[r].ask)
  BY DEF NamesClaude, AsksForNothing, IsClaude, ClaudeAliases, OverrideAliases
<1>3. CASE req'[r] = req[r]
  BY <1>1, <1>3
<1>4. CASE ChokepointLocal(r) \/ ChokepointOnline(r)
  <2>1. req'[r] = [req[r] EXCEPT !.at = "checked"]
    BY <1>1, <1>4 DEF ChokepointLocal, ChokepointOnline, Goes
  <2>2. req'[r].at = "checked" /\ req'[r].downgraded = req[r].downgraded
    BY <1>1, <2>1 DEF Turns
  <2>3. QED
    BY <1>1, <2>2
<1>5. CASE ChokepointDowngrade(r)
  <2>1. /\ ~(req[r].explicit /\ strict)
        /\ req'[r] = [req[r] EXCEPT !.at = "checked", !.model = Fallback, !.mirror = FALSE,
                                    !.downgraded = TRUE]
    BY <1>1, <1>5 DEF ChokepointDowngrade, Goes
  <2>2. req'[r].at = "checked"
    BY <1>1, <2>1 DEF Turns
  <2>3. QED
    BY <1>1, <1>a, <2>1, <2>2
<1>6. CASE ChokepointReject(r)
  <2>1. req[r].explicit /\ strict /\ req'[r] = [req[r] EXCEPT !.at = "rejected"]
    BY <1>1, <1>6 DEF ChokepointReject, Goes
  <2>2. req'[r].downgraded = req[r].downgraded
    BY <1>1, <2>1 DEF Turns
  <2>3. QED
    BY <1>1, <1>2, <2>1, <2>2
<1>7. QED
  BY <1>3, <1>4, <1>5, <1>6, OnlyTheChokepoint

\* maybe_downgrade() with explicit_claude, as the hook calls it: under
\* OFFLINE_STRICT nobody who named a Claude model is moved to another one, and no
\* turn is refused whose prompt neither names a model nor calls for one.
THEOREM StrictIsForNames == HookSpec => StrictRefusesByName
<1>1. HookIInv /\ [HookNext]_hookVars =>
        [\A r \in Requests : req[r].at = "escalated" =>
            /\ req'[r].downgraded => ~(strict /\ IsClaude(req[r].ask.alias))
            /\ req'[r].at = "rejected" => strict /\ ~AsksForNothing(req[r].ask)]_hookVars
  BY StrictStep
<1>2. QED
  BY <1>1, InitHookIInv, NextHookIInv, PTL DEF HookSpec, StrictRefusesByName

\* No turn leaves for Claude on a reachability answer that is OnlineTTL old or
\* older, for any lifetimes and however long it waited for /health.
THEOREM ClaudeRecentlyUp == HookSpec => ClaudeOnlyIfRecentlyUp
<1>1. HookIInv /\ [HookNext]_hookVars =>
        [\A r \in Requests : Sends(r) /\ IsClaude(req'[r].model) => now - lastUp < OnlineTTL]_hookVars
  BY SendIsRecent
<1>2. QED
  BY <1>1, InitHookIInv, NextHookIInv, PTL DEF HookSpec, ClaudeOnlyIfRecentlyUp

\* _api_key_available() behind claude-proxy's own cache: for any two lifetimes, and
\* any number of turns at the await at once, no choice is honoured on a key that
\* has been gone for longer than both lifetimes allow.
THEOREM EscalationRecent == HookSpec => EscalatesOnRecentKey
<1>1. HookIInv /\ [HookNext]_hookVars =>
        [\A r \in Requests :
           /\ req[r].at \in {"routed", "answered"} /\ req'[r].at = "escalated"
           /\ req'[r].model # req[r].model
           => now - lastKey <= (KeyTTL - 1) + (ProxyTTL - 1)]_hookVars
  BY EscalationIsRecent
<1>2. QED
  BY <1>1, InitHookIInv, NextHookIInv, PTL DEF HookSpec, EscalatesOnRecentKey

----------------------------------------------------------------------------
(* OverGeneration *)

Fields == {"model", "messages", "odd", "max", "stop", "sampling", "thinkingMode",
           "injection", "tagLocal", "guard", "injected", "thinking", "running"}

\* A message of the request is the caller's but for our directive and nudges.
Kin(m, g) ==
    /\ m \in MessageShape /\ m.role = g.role /\ m.shows = g.shows
    /\ m.directive = g.directive \/ (data.injected /\ g.directive = None)

\* The caller's conversation, after k messages of ours.
Follows(k) ==
    /\ Len(data.messages) = Len(given.messages) + k
    /\ \A i \in 1..Len(given.messages) : Kin(data.messages[i + k], given.messages[i])

Capping == {"tighten", "floor", "register"}

\* Nothing is put in front before the guardrail, and nothing at all in Cline's.
MessagesFollow ==
    /\ data.messages \in Seq(MessageShape)
    /\ \/ Follows(0) /\ (IsCline(given.messages) => \A i \in 1..Len(data.messages) : data.messages[i].nudges = 0)
       \/ /\ at \in Capping \cup {"out"} /\ ~IsCline(given.messages)
          /\ Len(data.messages) > 0 /\ data.messages[1] = Nudge /\ Follows(1)

\* What the caps have made of the budget so far.
Under(cap) == data.max \in Nat /\ data.max <= cap

CapsSoFar ==
    /\ at \in {"register", "out"} /\ ~data.odd /\ data.injected => data.max \in Nat /\ ThinkFloor <= data.max
    /\ IsLocal(data.model) /\ ~data.injected =>
         /\ at \in {"read", "think", "params", "static"} => data.max = given.max
         /\ at \in Capping \cup {"out"} /\ ~data.odd /\ data.guard /\ given.max # Malformed =>
              /\ Under(StaticCap)
              /\ given.max # None => data.max <= given.max
              /\ IsPlan(given.messages) => data.max <= PlanCap
              /\ at # "tighten" /\ IsFixup(given.messages) /\ ~IsCline(given.messages) => data.max <= FixupCap
              /\ given.max # None /\ given.max <= PlanCap => data.max = given.max

\* Only the guardrail adds stops, and only to what a local model is asked.
StopsSoFar ==
    /\ at \in {"read", "think", "params", "static"} => data.stop = given.stop
    /\ data.stop # given.stop => IsLocal(data.model)
         /\ \E ours \in {ClineStops, FenceStops} : data.stop = Stops(given.stop, ours)

ControlIInv ==
    /\ given \in Given
    /\ at \in {"read", "think", "params", "static", "out"} \cup Capping
    /\ data = [f \in Fields |-> data[f]]
    /\ \A f \in {"model", "odd", "thinkingMode", "injection", "tagLocal", "guard"} : data[f] = given[f]
    /\ data.max \in Nat \cup {None, Malformed} /\ data.injected \in BOOLEAN
    /\ ThinkingIsAccepted
    /\ MessagesFollow
    /\ CapsSoFar
    /\ StopsSoFar

LEMMA ControlConstants ==
  /\ None \notin Nat /\ Malformed \notin Nat /\ None # Malformed /\ None \notin {"/think", "/no_think"}
  /\ \A g \in Given :
       /\ g = [f \in Fields |-> g[f]]
       /\ g.model \in LocalAliases \cup ClaudeAliases \cup {"local-long-qwen3"}
       /\ g.messages \in Seq(MessageShape) /\ g.max \in Nat \cup {None, Malformed}
       /\ g.odd \in BOOLEAN /\ g.guard \in BOOLEAN /\ g.injected = FALSE /\ g.thinking = FALSE
       /\ \A i \in 1..Len(g.messages) : g.messages[i].nudges = 0 /\ g.messages[i].shows # "nudge"
<1>1. None \notin Nat /\ Malformed \notin Nat /\ None # Malformed /\ None \notin {"/think", "/no_think"}
  BY ControlAssumption
<1>2. ASSUME NEW g \in Given
      PROVE  /\ g = [f \in Fields |-> g[f]]
             /\ g.model \in LocalAliases \cup ClaudeAliases \cup {"local-long-qwen3"}
             /\ g.messages \in Seq(MessageShape) /\ g.max \in Nat \cup {None, Malformed}
             /\ g.odd \in BOOLEAN /\ g.guard \in BOOLEAN /\ g.injected \in BOOLEAN /\ g.thinking \in BOOLEAN
  <2>1. g \in ControlShape
    BY ControlAssumption
  <2>2. QED
    BY <2>1 DEF ControlShape, Fields
<1>3. ASSUME NEW g \in Given
      PROVE  ~g.injected /\ ~g.thinking
             /\ \A i \in DOMAIN g.messages : g.messages[i].nudges = 0 /\ g.messages[i].shows # "nudge"
  BY ControlAssumption
<1>4. ASSUME NEW g \in Given
      PROVE  /\ g.injected = FALSE /\ g.thinking = FALSE
             /\ \A i \in 1..Len(g.messages) : g.messages[i].nudges = 0 /\ g.messages[i].shows # "nudge"
  BY <1>2, <1>3
<1>5. QED
  BY <1>1, <1>2, <1>4

\* Cline is told by its first message, a fix-up by roles and code: both are as the
\* caller's are, as long as nothing of ours is in front.
LEMMA SameKind ==
  ASSUME NEW ms \in Seq(MessageShape), NEW gs \in Seq(MessageShape), Len(ms) = Len(gs),
         \A i \in 1..Len(gs) : ms[i].role = gs[i].role /\ ms[i].shows = gs[i].shows
  PROVE  /\ IsCline(ms) <=> IsCline(gs)
         /\ IsPlan(ms) <=> IsPlan(gs)
         /\ IsFixup(ms) <=> IsFixup(gs)
<1>1. ms = <<>> <=> gs = <<>>
  OBVIOUS
<1>2. IsCline(ms) <=> IsCline(gs)
  BY <1>1 DEF IsCline
<1>3. IsPlan(ms) <=> IsPlan(gs)
  BY <1>1, <1>2 DEF IsPlan, IsCline
<1>4. DOMAIN ms = DOMAIN gs /\ DOMAIN gs = 1..Len(gs)
  OBVIOUS
<1>5. IsFixup(ms) <=> IsFixup(gs)
  BY <1>4 DEF IsFixup, Last
<1>6. QED
  BY <1>2, <1>3, <1>5

\* With a nudge in front a fix-up is one still, and Cline is not.
LEMMA KindBehindNudge ==
  ASSUME NEW ms \in Seq(MessageShape), NEW gs \in Seq(MessageShape), Len(ms) = Len(gs) + 1, ms[1] = Nudge,
         \A i \in 1..Len(gs) : ms[i + 1].role = gs[i].role /\ ms[i + 1].shows = gs[i].shows
  PROVE  ~IsCline(ms) /\ (IsFixup(gs) => IsFixup(ms))
<1>1. Nudge.shows = "nudge"
  BY DEF Nudge, Message
<1>2. ~IsCline(ms)
  BY <1>1 DEF IsCline
<1>3. DOMAIN ms = 1..Len(ms) /\ DOMAIN gs = 1..Len(gs)
  OBVIOUS
<1>4. ASSUME IsFixup(gs) PROVE IsFixup(ms)
  <2>1. Len(gs) >= 3 /\ gs[Len(gs)].role = "user"
    BY <1>4 DEF IsFixup, Last
  <2>2. PICK i \in 1..Len(gs) : gs[i].role = "assistant" /\ gs[i].shows = "code"
    BY <1>3, <1>4 DEF IsFixup
  <2>3. i + 1 \in 1..Len(ms) /\ ms[i + 1].role = "assistant" /\ ms[i + 1].shows = "code"
    BY <2>2
  <2>4. Len(gs) \in 1..Len(gs) /\ ms[Len(ms)].role = "user"
    BY <2>1
  <2>5. QED
    BY <1>3, <2>1, <2>3, <2>4 DEF IsFixup, Last
<1>5. QED
  BY <1>2, <1>4

LEMMA InjectFacts ==
  ASSUME NEW ms \in Seq(MessageShape)
  PROVE  /\ Inject(ms) \in Seq(MessageShape) /\ Len(Inject(ms)) = Len(ms)
         /\ \A i \in 1..Len(ms) :
              /\ Inject(ms)[i].role = ms[i].role /\ Inject(ms)[i].shows = ms[i].shows
              /\ Inject(ms)[i].nudges = ms[i].nudges
              /\ Inject(ms)[i].directive = ms[i].directive \/ ms[i].directive = None
<1> DEFINE k == LastUser(ms)
           new == [ms EXCEPT ![k].directive = "/think"]
<1>1. CASE k = 0 \/ ms[k].directive # None
  BY <1>1 DEF Inject
<1>2. CASE ~(k = 0 \/ ms[k].directive # None)
  <2>1. Inject(ms) = new
    BY <1>2 DEF Inject
  <2> HIDE DEF k
  <2>2. DOMAIN new = 1..Len(ms)
    OBVIOUS
  <2>3. ASSUME NEW i \in 1..Len(ms)
        PROVE  /\ new[i] \in MessageShape
               /\ new[i].role = ms[i].role /\ new[i].shows = ms[i].shows /\ new[i].nudges = ms[i].nudges
               /\ new[i].directive = ms[i].directive \/ ms[i].directive = None
    <3>1. ms[i] \in MessageShape
      OBVIOUS
    <3>2. CASE i # k
      BY <3>1, <3>2
    <3>3. CASE i = k
      <4>1. new[i] = [ms[i] EXCEPT !.directive = "/think"]
        BY <3>3
      <4>2. ms[i].directive = None
        BY <1>2, <3>3
      <4>3. QED
        BY <3>1, <4>1, <4>2 DEF MessageShape
    <3>4. QED
      BY <3>2, <3>3
  <2>4. new \in Seq(MessageShape) /\ Len(new) = Len(ms)
    <3>1. new = [i \in 1..Len(ms) |-> new[i]]
      OBVIOUS
    <3>2. \A i \in 1..Len(ms) : new[i] \in MessageShape
      BY <2>3
    <3> HIDE DEF new
    <3>3. QED
      BY <3>1, <3>2
  <2>5. QED
    BY <2>1, <2>3, <2>4
<1>3. QED
  BY <1>1, <1>2

LEMMA InitControl == ControlInit => ControlIInv
<1> SUFFICES ASSUME ControlInit PROVE ControlIInv
  OBVIOUS
<1>1. given \in Given /\ data = given /\ at = "read"
  BY DEF ControlInit
<1>2. /\ data = [f \in Fields |-> data[f]] /\ data.max \in Nat \cup {None, Malformed}
      /\ data.injected = FALSE /\ data.thinking = FALSE /\ given.messages \in Seq(MessageShape)
  BY <1>1, ControlConstants
<1>3. \A i \in 1..Len(given.messages) : given.messages[i].nudges = 0
  BY <1>1, ControlConstants
<1>4. Follows(0)
  <2>1. ASSUME NEW i \in 1..Len(given.messages)
        PROVE  Kin(data.messages[i + 0], given.messages[i])
    <3>1. given.messages[i] \in MessageShape
      BY <1>2
    <3>2. i + 0 = i
      OBVIOUS
    <3>3. QED
      BY <1>1, <3>1, <3>2 DEF Kin
  <2>2. Len(data.messages) = Len(given.messages) + 0
    BY <1>1, <1>2
  <2>3. QED
    BY <2>1, <2>2 DEF Follows
<1>5. MessagesFollow
  BY <1>1, <1>2, <1>3, <1>4 DEF MessagesFollow
<1>6. ThinkingIsAccepted /\ CapsSoFar /\ StopsSoFar
  BY <1>1, <1>2 DEF ThinkingIsAccepted, CapsSoFar, StopsSoFar, Capping
<1>7. QED
  BY <1>1, <1>2, <1>5, <1>6 DEF ControlIInv

\* A step that leaves the conversation alone.
LEMMA MessagesStay ==
  ASSUME ControlIInv, given' = given, data'.messages = data.messages, data'.injected = data.injected,
         at \in Capping \cup {"out"} => at' \in Capping \cup {"out"}
  PROVE  MessagesFollow'
<1>1. Follows(0) => Follows(0)'
  BY DEF Follows, Kin
<1>2. Follows(1) => Follows(1)'
  BY DEF Follows, Kin
<1>3. QED
  BY <1>1, <1>2 DEF ControlIInv, MessagesFollow

\* A step that leaves the stops alone.
LEMMA StopsStay ==
  ASSUME ControlIInv, given' = given, data'.stop = data.stop, data'.model = data.model,
         at' \in {"read", "think", "params", "static"} => at \in {"read", "think", "params", "static"}
  PROVE  StopsSoFar'
  BY DEF ControlIInv, StopsSoFar

LEMMA ReadKeeps == ControlIInv /\ ReadRequest => ControlIInv'
<1> SUFFICES ASSUME ControlIInv, ReadRequest PROVE ControlIInv'
  OBVIOUS
<1>1. at = "read" /\ at' = (IF data.odd THEN "out" ELSE "think") /\ given' = given /\ data' = data
  BY DEF ReadRequest, Step
<1>2. MessagesFollow'
  BY <1>1, MessagesStay DEF Capping
<1>3. at' = "out" => data'.odd
  BY <1>1
<1>4. CapsSoFar'
  BY <1>1, <1>3 DEF ControlIInv, CapsSoFar, Capping, Under
<1>5. StopsSoFar'
  BY <1>1, StopsStay
<1>6. QED
  BY <1>1, <1>2, <1>4, <1>5 DEF ControlIInv, ThinkingIsAccepted

LEMMA ThinkKeeps == ControlIInv /\ ThinkStep => ControlIInv'
<1> SUFFICES ASSUME ControlIInv, ThinkStep PROVE ControlIInv'
  OBVIOUS
<1>1. at = "think" /\ at' = "params" /\ given' = given
  BY DEF ThinkStep, Step
<1>2. CASE data' = data
  <2>1. MessagesFollow'
    BY <1>1, <1>2, MessagesStay DEF Capping
  <2>2. CapsSoFar'
    BY <1>1, <1>2 DEF ControlIInv, CapsSoFar, Capping
  <2>3. StopsSoFar'
    BY <1>1, <1>2, StopsStay
  <2>4. QED
    BY <1>1, <1>2, <2>1, <2>2, <2>3 DEF ControlIInv, ThinkingIsAccepted
<1>3. CASE data' = [data EXCEPT !.messages = Inject(@), !.injected = TRUE]
  <2>1. /\ data' = [f \in Fields |-> data'[f]]
        /\ data'.messages = Inject(data.messages) /\ data'.injected = TRUE
        /\ \A f \in Fields \ {"messages", "injected"} : data'[f] = data[f]
    BY <1>3 DEF ControlIInv, Fields
  <2>2. data.messages \in Seq(MessageShape) /\ Follows(0) /\ given.messages \in Seq(MessageShape)
        /\ (IsCline(given.messages) => \A i \in 1..Len(data.messages) : data.messages[i].nudges = 0)
    BY <1>1, ControlConstants DEF ControlIInv, MessagesFollow, Capping
  <2>3. Inject(data.messages) \in Seq(MessageShape) /\ Len(Inject(data.messages)) = Len(data.messages)
    BY <2>2, InjectFacts
  <2>4. ASSUME NEW i \in 1..Len(given.messages)
        PROVE  Kin(data.messages[i + 0], given.messages[i])'
    <3>1. i \in 1..Len(data.messages) /\ Kin(data.messages[i], given.messages[i])
      BY <2>2 DEF Follows
    <3>2. /\ Inject(data.messages)[i].role = data.messages[i].role
          /\ Inject(data.messages)[i].shows = data.messages[i].shows
          /\ Inject(data.messages)[i].directive = data.messages[i].directive \/ data.messages[i].directive = None
      BY <2>2, <3>1, InjectFacts
    <3>3. Inject(data.messages)[i] \in MessageShape
      BY <2>3, <3>1
    <3>4. data.messages[i].directive = given.messages[i].directive \/ given.messages[i].directive = None
      BY <3>1 DEF Kin
    <3>5. data.messages[i].directive = None => given.messages[i].directive = None
      BY <3>4
    <3>6. QED
      BY <1>1, <2>1, <3>1, <3>2, <3>3, <3>4, <3>5 DEF Kin
  <2>5. Follows(0)'
    BY <1>1, <2>1, <2>2, <2>3, <2>4 DEF Follows
  <2>6. IsCline(given.messages) => \A i \in 1..Len(Inject(data.messages)) : Inject(data.messages)[i].nudges = 0
    BY <2>2, <2>3, InjectFacts
  <2>7. MessagesFollow'
    BY <1>1, <2>1, <2>3, <2>5, <2>6 DEF MessagesFollow
  <2>8. CapsSoFar'
    BY <1>1, <2>1 DEF CapsSoFar
  <2>9. StopsSoFar'
    BY <1>1, <2>1, StopsStay DEF Fields
  <2>10. QED
    BY <1>1, <2>1, <2>7, <2>8, <2>9 DEF ControlIInv, ThinkingIsAccepted, Fields
<1>4. QED
  BY <1>2, <1>3 DEF ThinkStep

LEMMA ParamsKeeps == ControlIInv /\ ParamsStep => ControlIInv'
<1> SUFFICES ASSUME ControlIInv, ParamsStep PROVE ControlIInv'
  OBVIOUS
<1>1. at = "params" /\ at' = "static" /\ given' = given
  BY DEF ParamsStep, Step
<1>2. CASE data' = data
  <2>1. MessagesFollow'
    BY <1>1, <1>2, MessagesStay DEF Capping
  <2>2. CapsSoFar'
    BY <1>1, <1>2 DEF ControlIInv, CapsSoFar, Capping
  <2>3. StopsSoFar'
    BY <1>1, <1>2, StopsStay
  <2>4. QED
    BY <1>1, <1>2, <2>1, <2>2, <2>3 DEF ControlIInv, ThinkingIsAccepted
<1>3. CASE data' # data
  <2> DEFINE max == IF data.max \in {None, Malformed} \/ data.max < ClaudeFloor THEN ClaudeFloor ELSE data.max
  <2>1. Thinks(data.model) /\ data' = [data EXCEPT !.thinking = TRUE, !.sampling = FALSE, !.max = max]
    BY <1>3 DEF ParamsStep
  <2>2. max \in Nat \cup {None, Malformed}
    BY DEF ControlIInv, ClaudeFloor
  <2> HIDE DEF max
  <2>3. /\ data' = [f \in Fields |-> data'[f]]
        /\ data'.thinking = TRUE /\ data'.sampling = FALSE /\ data'.max = max
        /\ \A f \in Fields \ {"thinking", "sampling", "max"} : data'[f] = data[f]
    BY <2>1 DEF ControlIInv, Fields
  <2>4. data'.model = data.model /\ data'.messages = data.messages /\ data'.injected = data.injected
    BY <2>3 DEF Fields
  <2>5. MessagesFollow'
    BY <1>1, <2>4, MessagesStay DEF Capping
  <2>6. ThinkingIsAccepted'
    BY <2>1, <2>3, <2>4 DEF ThinkingIsAccepted, Thinks
  <2>7. ~IsLocal(data.model)
    BY <2>1 DEF IsLocal, Thinks, ClaudeAliases, OverrideAliases
  <2>8. CapsSoFar'
    BY <1>1, <2>4, <2>7 DEF CapsSoFar, Capping
  <2>9. StopsSoFar'
    BY <1>1, <2>3, StopsStay DEF Fields
  <2>10. QED
    BY <1>1, <2>2, <2>3, <2>5, <2>6, <2>8, <2>9 DEF ControlIInv, Fields
<1>4. QED
  BY <1>2, <1>3

\* The caller's stops come first, and four is the limit.
LEMMA StopsFacts ==
  ASSUME NEW own \in Seq(STRING), NEW ours \in {ClineStops, FenceStops}
  PROVE  /\ Len(Stops(own, ours)) \in Nat /\ Len(Stops(own, ours)) <= 4
         /\ Stops(own, ours) \in Seq({Stops(own, ours)[n] : n \in DOMAIN Stops(own, ours)})
         /\ \A n \in 1..Len(own) : n <= 4 => n <= Len(Stops(own, ours)) /\ Stops(own, ours)[n] = own[n]
<1> DEFINE new == {i \in DOMAIN ours : ~Contains(own, ours[i])}
           Nth(n) == CHOOSE i \in new : Cardinality(new \cap 1..i) = n
           all == Len(own) + Cardinality(new)
           length == IF all < 4 THEN all ELSE 4
           stops == [n \in 1..length |-> IF n <= Len(own) THEN own[n] ELSE ours[Nth(n - Len(own))]]
<1>1. stops = Stops(own, ours)
  BY DEF Stops
<1>2. DOMAIN ours = 1..Len(ours) /\ Len(ours) \in Nat
  BY DEF ClineStops, FenceStops
<1>3. Cardinality(new) \in Nat
  <2>1. new \subseteq 1..Len(ours)
    BY <1>2
  <2> HIDE DEF new
  <2>2. IsFiniteSet(1..Len(ours))
    BY <1>2, FS_Interval
  <2>3. IsFiniteSet(new)
    BY <2>1, <2>2, FS_Subset
  <2>4. QED
    BY <2>3, FS_CardinalityType
<1> HIDE DEF new, Nth
<1>4. length \in 0..4 /\ \A n \in 1..Len(own) : n <= 4 => n <= length
  BY <1>3
<1> HIDE DEF length
<1>5. DOMAIN stops = 1..length /\ \A n \in 1..length : n <= Len(own) => stops[n] = own[n]
  OBVIOUS
<1> DEFINE Values == {stops[n] : n \in DOMAIN stops}
<1>6. stops = [n \in 1..length |-> stops[n]] /\ \A n \in 1..length : stops[n] \in Values
  BY <1>5
<1> HIDE DEF stops
<1>7. stops \in Seq(Values) /\ Len(stops) = length
  <2> HIDE DEF Values
  <2>1. QED
    BY <1>4, <1>6
<1>8. QED
  BY <1>1, <1>4, <1>5, <1>7

\* A cap is a number that neither the caller's nor the control's own one is below.
LEMMA ClampBounds ==
  ASSUME NEW max \in Nat \cup {None}, NEW cap \in Nat
  PROVE  /\ Clamp(max, cap) \in Nat /\ Clamp(max, cap) <= cap
         /\ max # None => Clamp(max, cap) <= max
         /\ max # None /\ max <= cap => Clamp(max, cap) = max
  BY ControlConstants DEF Clamp

LEMMA NudgeShape == Nudge \in MessageShape /\ Nudge.shows = "nudge" /\ Nudge.role = "system"
<1>1. 1 \in Nat /\ 0 \in Nat
  OBVIOUS
<1>2. Message("system", "nudge") \in MessageShape
  BY <1>1 DEF Message, MessageShape
<1>3. QED
  BY <1>1, <1>2 DEF Nudge, MessageShape, Message

LEMMA StaticKeeps == ControlIInv /\ StaticStep => ControlIInv'
<1> SUFFICES ASSUME ControlIInv, StaticStep PROVE ControlIInv'
  OBVIOUS
<1>1. at = "static" /\ at' = "tighten" /\ given' = given
  BY DEF StaticStep, Step
<1>2. /\ data.messages \in Seq(MessageShape) /\ given.messages \in Seq(MessageShape) /\ Follows(0)
      /\ (IsCline(given.messages) => \A i \in 1..Len(data.messages) : data.messages[i].nudges = 0)
  BY <1>1, ControlConstants DEF ControlIInv, MessagesFollow, Capping
<1>3. (IsCline(data.messages) <=> IsCline(given.messages)) /\ (IsPlan(data.messages) <=> IsPlan(given.messages))
  <2>1. Len(data.messages) = Len(given.messages)
    BY <1>2 DEF Follows
  <2>2. \A i \in 1..Len(given.messages) :
          data.messages[i].role = given.messages[i].role /\ data.messages[i].shows = given.messages[i].shows
    BY <1>2 DEF Follows, Kin
  <2>3. QED
    BY <1>2, <2>1, <2>2, SameKind
<1>4. CASE ~(data.guard /\ IsLocal(data.model) /\ data.max # Malformed)
  <2>1. data' = data
    BY <1>4 DEF StaticStep, Static
  <2>2. MessagesFollow'
    BY <1>1, <2>1, MessagesStay DEF Capping
  <2>3. CapsSoFar'
    BY <1>1, <1>4, <2>1 DEF ControlIInv, CapsSoFar, Capping
  <2>4. StopsSoFar'
    BY <1>1, <2>1 DEF ControlIInv, StopsSoFar
  <2>5. QED
    BY <1>1, <2>1, <2>2, <2>3, <2>4 DEF ControlIInv, ThinkingIsAccepted, Capping
<1>5. CASE data.guard /\ IsLocal(data.model) /\ data.max # Malformed
  <2> DEFINE max == Clamp(data.max, IF IsPlan(data.messages) THEN PlanCap ELSE StaticCap)
             stop == Stops(data.stop, IF IsCline(data.messages) THEN ClineStops ELSE FenceStops)
             said == IF IsCline(data.messages) \/ \E i \in DOMAIN data.messages : data.messages[i].role = "system"
                     THEN data.messages ELSE <<Nudge>> \o data.messages
  <2>1. data' = [data EXCEPT !.max = max, !.stop = stop, !.messages = said]
    BY <1>5 DEF StaticStep, Static
  <2>2. said = data.messages \/ (said = <<Nudge>> \o data.messages /\ ~IsCline(given.messages))
    BY <1>3
  <2>3. /\ max \in Nat
        /\ max <= IF IsPlan(given.messages) THEN PlanCap ELSE StaticCap
        /\ data.max # None => max <= data.max
        /\ data.max # None /\ data.max <= (IF IsPlan(given.messages) THEN PlanCap ELSE StaticCap) => max = data.max
    <3>1. data.max \in Nat \cup {None}
      BY <1>5 DEF ControlIInv
    <3>2. PlanCap \in Nat /\ StaticCap \in Nat
      BY DEF PlanCap, StaticCap
    <3>3. QED
      BY <1>3, <3>1, <3>2, ClampBounds
  <2> HIDE DEF max, stop, said
  <2>4. /\ data' = [f \in Fields |-> data'[f]]
        /\ data'.max = max /\ data'.messages = said /\ data'.stop = stop
        /\ \A f \in Fields \ {"max", "stop", "messages"} : data'[f] = data[f]
    BY <2>1 DEF ControlIInv, Fields
  <2>5. data'.model = data.model /\ data'.injected = data.injected /\ data'.guard = data.guard
        /\ data'.sampling = data.sampling /\ data'.thinking = data.thinking
    BY <2>4 DEF Fields
  <2>6. MessagesFollow'
    <3>1. CASE said = data.messages
      BY <1>1, <2>4, <2>5, <3>1, MessagesStay DEF Capping
    <3>2. CASE said = <<Nudge>> \o data.messages /\ ~IsCline(given.messages)
      <4>1. /\ said \in Seq(MessageShape) /\ Len(said) = Len(data.messages) + 1 /\ said[1] = Nudge
            /\ \A i \in 1..Len(data.messages) : said[i + 1] = data.messages[i]
        BY <1>2, <3>2, NudgeShape
      <4>2. Len(data.messages) = Len(given.messages)
        BY <1>2 DEF Follows
      <4>3. ASSUME NEW i \in 1..Len(given.messages)
            PROVE  Kin(data.messages[i + 1], given.messages[i])'
        <5>1. Kin(data.messages[i], given.messages[i])
          BY <1>2 DEF Follows
        <5>2. data'.messages[i + 1] = data.messages[i]
          BY <2>4, <4>1, <4>2
        <5>3. QED
          BY <1>1, <2>5, <5>1, <5>2 DEF Kin
      <4>4. Follows(1)'
        BY <1>1, <2>4, <4>1, <4>2, <4>3 DEF Follows
      <4>5. QED
        BY <1>1, <1>2, <2>4, <3>2, <4>1, <4>4 DEF MessagesFollow, Capping
    <3>3. QED
      BY <2>2, <3>1, <3>2
  <2>7. CapsSoFar'
    <3>1. ~data.injected => data.max = given.max
      BY <1>1, <1>5 DEF ControlIInv, CapsSoFar
    <3>2. Under(StaticCap)' /\ (IsPlan(given.messages) => max <= PlanCap)
      BY <2>3, <2>4 DEF Under, StaticCap, PlanCap
    <3>3. data.max # None /\ data.max <= PlanCap => max = data.max
      <4>1. SUFFICES ASSUME data.max # None, data.max <= PlanCap PROVE max = data.max
        OBVIOUS
      <4>2. data.max \in Nat
        BY <1>5, <4>1 DEF ControlIInv
      <4>3. data.max <= StaticCap
        BY <4>1, <4>2 DEF PlanCap, StaticCap
      <4>4. QED
        BY <2>3, <4>1, <4>3
    <3>4. QED
      BY <1>1, <2>3, <2>4, <2>5, <3>1, <3>2, <3>3 DEF CapsSoFar, Capping
  <2>8. StopsSoFar'
    <3>1. data.stop = given.stop
      BY <1>1 DEF ControlIInv, StopsSoFar
    <3>2. \E ours \in {ClineStops, FenceStops} : stop = Stops(data.stop, ours)
      BY DEF stop
    <3>3. QED
      BY <1>1, <1>5, <2>4, <2>5, <3>1, <3>2 DEF StopsSoFar
  <2>9. QED
    BY <1>1, <2>3, <2>4, <2>5, <2>6, <2>7, <2>8 DEF ControlIInv, ThinkingIsAccepted, Fields, Capping
<1>6. QED
  BY <1>4, <1>5

LEMMA TightenKeeps == ControlIInv /\ TightenStep => ControlIInv'
<1> SUFFICES ASSUME ControlIInv, TightenStep PROVE ControlIInv'
  OBVIOUS
<1> DEFINE ms == data.messages
           tightens == /\ data.guard /\ IsLocal(data.model) /\ ~IsCline(ms)
                       /\ IsFixup(ms) /\ data.max # Malformed
<1>1. at = "tighten" /\ at' = "floor" /\ given' = given
  BY DEF TightenStep, Step
<1>2. /\ ms \in Seq(MessageShape) /\ given.messages \in Seq(MessageShape)
      /\ given.max \in Nat \cup {None, Malformed} /\ data.max \in Nat \cup {None, Malformed}
  BY ControlConstants DEF ControlIInv, MessagesFollow
\* A fix-up that is not Cline's is recognised behind the nudge as well.
<1>3. IsFixup(given.messages) /\ ~IsCline(given.messages) => IsFixup(ms) /\ ~IsCline(ms)
  <2>1. CASE Follows(0)
    <3>1. Len(ms) = Len(given.messages)
      BY <1>2, <2>1 DEF Follows
    <3>2. \A i \in 1..Len(given.messages) :
            ms[i].role = given.messages[i].role /\ ms[i].shows = given.messages[i].shows
      BY <2>1 DEF Follows, Kin
    <3>3. QED
      BY <1>2, <3>1, <3>2, SameKind
  <2>2. CASE ms[1] = Nudge /\ Follows(1)
    <3>1. \A i \in 1..Len(given.messages) :
            ms[i + 1].role = given.messages[i].role /\ ms[i + 1].shows = given.messages[i].shows
      BY <2>2 DEF Follows, Kin
    <3>2. Len(ms) = Len(given.messages) + 1
      BY <2>2 DEF Follows
    <3>3. QED
      BY <1>2, <2>2, <3>1, <3>2, KindBehindNudge
  <2>3. QED
    BY <2>1, <2>2 DEF ControlIInv, MessagesFollow
<1>4. CASE ~tightens
  <2>1. data' = data
    BY <1>4 DEF TightenStep, Tighten
  <2>2. MessagesFollow'
    BY <1>1, <2>1, MessagesStay DEF Capping
  <2>3. data.injected = FALSE /\ data.max = Malformed => ~(data.guard /\ IsLocal(data.model) /\ given.max # Malformed /\ ~data.odd)
    BY <1>1, ControlConstants DEF ControlIInv, CapsSoFar, Capping, Under
  <2>4. CapsSoFar'
    BY <1>1, <1>3, <1>4, <2>1, <2>3 DEF ControlIInv, CapsSoFar, Capping, Under
  <2>5. StopsSoFar'
    BY <1>1, <2>1, StopsStay
  <2>6. QED
    BY <1>1, <2>1, <2>2, <2>4, <2>5 DEF ControlIInv, ThinkingIsAccepted, Capping
<1>5. CASE tightens
  <2> DEFINE max == Clamp(data.max, FixupCap)
             said == [ms EXCEPT ![Len(ms)].nudges = @ + 1]
  <2>1. data' = [data EXCEPT !.max = max, !.messages = said]
    BY <1>5 DEF TightenStep, Tighten
  <2>2. /\ max \in Nat /\ max <= FixupCap
        /\ data.max # None => max <= data.max
        /\ data.max # None /\ data.max <= FixupCap => max = data.max
    <3>1. data.max \in Nat \cup {None} /\ FixupCap \in Nat
      BY <1>2, <1>5 DEF FixupCap
    <3>2. QED
      BY <3>1, ClampBounds
  <2>3. /\ Len(ms) >= 3 /\ said \in Seq(MessageShape) /\ Len(said) = Len(ms)
        /\ \A i \in 1..Len(ms) : /\ said[i].role = ms[i].role /\ said[i].shows = ms[i].shows
                                 /\ said[i].directive = ms[i].directive
                                 /\ i # Len(ms) => said[i] = ms[i]
    <3>1. Len(ms) >= 3
      BY <1>5 DEF IsFixup
    <3>2. DOMAIN said = 1..Len(ms)
      BY <1>2
    <3>3. ASSUME NEW i \in 1..Len(ms)
          PROVE  /\ said[i] \in MessageShape /\ said[i].role = ms[i].role /\ said[i].shows = ms[i].shows
                 /\ said[i].directive = ms[i].directive /\ (i # Len(ms) => said[i] = ms[i])
      <4>1. ms[i] \in MessageShape
        BY <1>2
      <4>2. CASE i # Len(ms)
        BY <4>1, <4>2
      <4>3. CASE i = Len(ms)
        <5>1. said[i] = [ms[i] EXCEPT !.nudges = ms[i].nudges + 1]
          BY <4>3
        <5>2. ms[i].nudges + 1 \in Nat
          BY <4>1 DEF MessageShape
        <5>3. QED
          BY <4>1, <4>3, <5>1, <5>2 DEF MessageShape
      <4>4. QED
        BY <4>2, <4>3
    <3>4. said = [i \in 1..Len(ms) |-> said[i]] /\ \A i \in 1..Len(ms) : said[i] \in MessageShape
      BY <3>2, <3>3
    <3>5. said \in Seq(MessageShape) /\ Len(said) = Len(ms)
      <4> HIDE DEF said, ms
      <4>1. QED
        BY <3>1, <3>2, <3>4
    <3>6. QED
      BY <3>1, <3>3, <3>5
  <2> HIDE DEF max, said
  <2>4. /\ data' = [f \in Fields |-> data'[f]]
        /\ data'.max = max /\ data'.messages = said
        /\ \A f \in Fields \ {"max", "messages"} : data'[f] = data[f]
    BY <2>1 DEF ControlIInv, Fields
  <2>5. data'.model = data.model /\ data'.injected = data.injected /\ data'.guard = data.guard
        /\ data'.sampling = data.sampling /\ data'.thinking = data.thinking /\ data'.odd = data.odd
    BY <2>4 DEF Fields
  <2>6. MessagesFollow'
    <3>1. ASSUME NEW k \in {0, 1}, Follows(k) PROVE Follows(k)'
      <4>1. Len(ms) = Len(given.messages) + k
        BY <3>1 DEF Follows
      <4>2. ASSUME NEW i \in 1..Len(given.messages)
            PROVE  Kin(data.messages[i + k], given.messages[i])'
        <5>1. i + k \in 1..Len(ms) /\ Kin(ms[i + k], given.messages[i])
          BY <1>2, <3>1, <4>1 DEF Follows
        <5>2. said[i + k] \in MessageShape
          BY <2>3, <5>1
        <5>3. QED
          BY <1>1, <2>3, <2>4, <2>5, <5>1, <5>2 DEF Kin
      <4>3. QED
        BY <1>1, <2>3, <2>4, <4>1, <4>2 DEF Follows
    <3>2. CASE Follows(0) /\ (IsCline(given.messages) => \A i \in 1..Len(ms) : ms[i].nudges = 0)
      <4>1. Len(ms) = Len(given.messages) /\ \A i \in 1..Len(given.messages) :
              ms[i].role = given.messages[i].role /\ ms[i].shows = given.messages[i].shows
        BY <1>2, <3>2 DEF Follows, Kin
      <4>2. ~IsCline(given.messages)
        BY <1>2, <1>5, <4>1, SameKind
      <4>3. QED
        BY <1>1, <2>3, <2>4, <3>1, <3>2, <4>2 DEF MessagesFollow
    <3>3. CASE ms[1] = Nudge /\ Follows(1) /\ ~IsCline(given.messages)
      <4>1. said[1] = Nudge
        BY <2>3, <3>3
      <4>2. QED
        BY <1>1, <2>3, <2>4, <3>1, <3>3, <4>1 DEF MessagesFollow, Capping
    <3>4. QED
      BY <3>2, <3>3 DEF ControlIInv, MessagesFollow
  <2>7. CapsSoFar'
    <3>1. SUFFICES ASSUME ~data.injected, ~data.odd, given.max # Malformed
                   PROVE  /\ Under(StaticCap)'
                          /\ given.max # None => max <= given.max
                          /\ IsPlan(given.messages) => max <= PlanCap
                          /\ max <= FixupCap
                          /\ given.max # None /\ given.max <= PlanCap => max = given.max
      BY <1>1, <2>4, <2>5 DEF CapsSoFar, Capping
    <3>2. /\ data.max \in Nat /\ data.max <= StaticCap
          /\ given.max # None => data.max <= given.max
          /\ IsPlan(given.messages) => data.max <= PlanCap
          /\ given.max # None /\ given.max <= PlanCap => data.max = given.max
      BY <1>1, <1>5, <3>1 DEF ControlIInv, CapsSoFar, Capping, Under
    <3>3. max <= data.max /\ (data.max <= FixupCap => max = data.max)
      BY <2>2, <3>2, ControlConstants
    <3>4. Under(StaticCap)'
      BY <2>2, <2>4, <3>2, <3>3 DEF Under, StaticCap
    <3>5. given.max # None => max <= given.max
      BY <1>2, <2>2, <3>1, <3>2, <3>3
    <3>6. IsPlan(given.messages) => max <= PlanCap
      BY <2>2, <3>2, <3>3 DEF PlanCap
    <3>7. given.max # None /\ given.max <= PlanCap => max = given.max
      BY <1>2, <2>2, <3>1, <3>2, <3>3 DEF PlanCap, FixupCap
    <3>8. QED
      BY <2>2, <3>4, <3>5, <3>6, <3>7
  <2>8. StopsSoFar'
    BY <1>1, <2>4, StopsStay DEF Fields
  <2>9. QED
    BY <1>1, <2>2, <2>4, <2>5, <2>6, <2>7, <2>8 DEF ControlIInv, ThinkingIsAccepted, Fields, Capping
<1>6. QED
  BY <1>4, <1>5

LEMMA FloorKeeps == ControlIInv /\ FloorStep => ControlIInv'
<1> SUFFICES ASSUME ControlIInv, FloorStep PROVE ControlIInv'
  OBVIOUS
<1>1. at = "floor" /\ at' = "register" /\ given' = given
  BY DEF FloorStep, Step
<1>2. CASE data' = data
  <2>1. MessagesFollow' /\ StopsSoFar'
    BY <1>1, <1>2, MessagesStay, StopsStay DEF Capping
  <2>2. data.injected => data.max \in Nat /\ ThinkFloor <= data.max
    <3>1. SUFFICES ASSUME data.injected, ~(data.max \in Nat /\ ThinkFloor <= data.max) PROVE FALSE
      OBVIOUS
    <3>2. data.max \in {None, Malformed} \/ data.max < ThinkFloor
      BY <3>1 DEF ControlIInv, ThinkFloor
    <3>3. data = [data EXCEPT !.max = ThinkFloor]
      BY <1>2, <3>1, <3>2 DEF FloorStep, Floor
    <3>4. data.max = ThinkFloor
      BY <3>3 DEF ControlIInv, Fields
    <3>5. QED
      BY <3>1, <3>4 DEF ThinkFloor
  <2>3. CapsSoFar'
    BY <1>1, <1>2, <2>2 DEF ControlIInv, CapsSoFar, Capping, Under
  <2>4. QED
    BY <1>1, <1>2, <2>1, <2>3 DEF ControlIInv, ThinkingIsAccepted, Capping
<1>3. CASE data' # data
  <2>1. data.injected /\ data' = [data EXCEPT !.max = ThinkFloor]
    BY <1>3 DEF FloorStep, Floor
  <2>2. /\ data' = [f \in Fields |-> data'[f]] /\ data'.max = ThinkFloor
        /\ \A f \in Fields \ {"max"} : data'[f] = data[f]
    BY <2>1 DEF ControlIInv, Fields
  <2>3. /\ data'.model = data.model /\ data'.messages = data.messages /\ data'.injected = data.injected
        /\ data'.stop = data.stop /\ data'.thinking = data.thinking /\ data'.sampling = data.sampling
    BY <2>2 DEF Fields
  <2>4. MessagesFollow' /\ StopsSoFar'
    BY <1>1, <2>3, MessagesStay, StopsStay DEF Capping
  <2>5. CapsSoFar'
    BY <1>1, <2>1, <2>2, <2>3 DEF CapsSoFar, ThinkFloor
  <2>6. QED
    BY <1>1, <2>1, <2>2, <2>3, <2>4, <2>5 DEF ControlIInv, ThinkingIsAccepted, Fields, Capping, ThinkFloor
<1>4. QED
  BY <1>2, <1>3

LEMMA RegisterKeeps == ControlIInv /\ RegisterStep => ControlIInv'
<1> SUFFICES ASSUME ControlIInv, RegisterStep PROVE ControlIInv'
  OBVIOUS
<1>1. at = "register" /\ at' = "out" /\ given' = given /\ data' = [data EXCEPT !.running = TRUE]
  BY DEF RegisterStep, Step
<1>2. data' = [f \in Fields |-> data'[f]] /\ \A f \in Fields \ {"running"} : data'[f] = data[f]
  BY <1>1 DEF ControlIInv, Fields
<1>3. /\ data'.model = data.model /\ data'.messages = data.messages /\ data'.injected = data.injected
      /\ data'.stop = data.stop /\ data'.thinking = data.thinking /\ data'.sampling = data.sampling
      /\ data'.max = data.max /\ data'.guard = data.guard /\ data'.odd = data.odd
  BY <1>2 DEF Fields
<1>4. MessagesFollow' /\ StopsSoFar'
  BY <1>1, <1>3, MessagesStay, StopsStay DEF Capping
<1>5. CapsSoFar'
  BY <1>1, <1>3 DEF ControlIInv, CapsSoFar, Capping, Under
<1>6. QED
  BY <1>1, <1>2, <1>3, <1>4, <1>5 DEF ControlIInv, ThinkingIsAccepted, Fields, Capping

LEMMA StepControlIInv == ControlIInv /\ [ControlNext]_controlVars => ControlIInv'
<1> SUFFICES ASSUME ControlIInv, [ControlNext]_controlVars PROVE ControlIInv'
  OBVIOUS
<1>1. CASE UNCHANGED controlVars
  <2>1. at' = at /\ data' = data /\ given' = given
    BY <1>1 DEF controlVars
  <2>2. MessagesFollow' /\ StopsSoFar'
    BY <2>1, MessagesStay, StopsStay
  <2>3. CapsSoFar'
    BY <2>1 DEF ControlIInv, CapsSoFar, Under
  <2>4. QED
    BY <2>1, <2>2, <2>3 DEF ControlIInv, ThinkingIsAccepted
<1>2. CASE ControlNext
  BY <1>2, ReadKeeps, ThinkKeeps, ParamsKeeps, StaticKeeps, TightenKeeps, FloorKeeps, RegisterKeeps
    DEF ControlNext
<1>3. QED
  BY <1>1, <1>2

LEMMA ControlInvariant == ControlSpec => []ControlIInv
  BY InitControl, StepControlIInv, PTL DEF ControlSpec

\* Whatever controls are on and whatever the caller asked for: a turn that thinks has
\* room for its answer, any other turn of a local model leaves under the caller's cap
\* and its kind's (apply_static_guardrail, apply_multi_turn_tighten and the floor after
\* them), and no model gets a thinking parameter that it refuses.
THEOREM RequestsServe == ControlSpec => []RequestServes
<1>1. ControlIInv => RequestServes
  <2> SUFFICES ASSUME ControlIInv PROVE RequestServes
    OBVIOUS
  <2>1. RoomToThink
    BY ControlConstants DEF ControlIInv, CapsSoFar, RoomToThink, Leaves
  <2>2. Capped
    BY DEF ControlIInv, CapsSoFar, Under, Capped, Leaves
  <2>3. QED
    BY <2>1, <2>2 DEF ControlIInv, RequestServes
<1>2. QED
  BY <1>1, ControlInvariant, PTL

\* What the steps put into a conversation can be taken out of it again.
LEMMA ConversationIsKept ==
  ASSUME ControlIInv
  PROVE  ConversationKept
<1> DEFINE ms == IF data.messages # <<>> /\ Head(data.messages) = Nudge THEN Tail(data.messages)
                 ELSE data.messages
           Undo(i) == [ms[i] EXCEPT !.nudges = 0,
                         !.directive = IF data.injected /\ given.messages[i].directive = None THEN None ELSE @]
<1>1. data.messages \in Seq(MessageShape) /\ given.messages \in Seq(MessageShape)
      /\ \A i \in 1..Len(given.messages) : given.messages[i].nudges = 0 /\ given.messages[i].shows # "nudge"
  BY ControlConstants DEF ControlIInv, MessagesFollow
<1>2. /\ Len(ms) = Len(given.messages) /\ ms \in Seq(MessageShape)
      /\ \A i \in 1..Len(given.messages) : Kin(ms[i], given.messages[i])
  <2>1. CASE Follows(0)
    <3>1. Len(data.messages) = Len(given.messages) /\ \A i \in 1..Len(given.messages) : Kin(data.messages[i], given.messages[i])
      BY <1>1, <2>1 DEF Follows
    <3>2. data.messages # <<>> => Head(data.messages).shows # "nudge"
      BY <1>1, <3>1 DEF Kin
    <3>3. ms = data.messages
      BY <3>2, NudgeShape
    <3>4. QED
      BY <1>1, <3>1, <3>3
  <2>2. CASE Len(data.messages) > 0 /\ data.messages[1] = Nudge /\ Follows(1)
    <3>1. ms = Tail(data.messages)
      BY <1>1, <2>2
    <3>2. ms \in Seq(MessageShape) /\ Len(ms) = Len(given.messages)
          /\ \A i \in 1..Len(given.messages) : ms[i] = data.messages[i + 1]
      BY <1>1, <2>2, <3>1 DEF Follows
    <3>3. QED
      BY <2>2, <3>2 DEF Follows
  <2>3. QED
    BY <2>1, <2>2 DEF ControlIInv, MessagesFollow
<1> HIDE DEF ms
<1>3. ASSUME NEW i \in 1..Len(given.messages)
      PROVE  Undo(i) = given.messages[i]
  <2>1. /\ ms[i] \in MessageShape /\ given.messages[i] \in MessageShape
        /\ ms[i].role = given.messages[i].role /\ ms[i].shows = given.messages[i].shows
        /\ given.messages[i].nudges = 0
        /\ ms[i].directive = given.messages[i].directive \/ (data.injected /\ given.messages[i].directive = None)
    BY <1>1, <1>2 DEF Kin
  <2>2. QED
    BY <2>1 DEF MessageShape
<1>4. [i \in DOMAIN ms |-> Undo(i)] = given.messages
  <2>1. DOMAIN ms = 1..Len(given.messages) /\ DOMAIN given.messages = 1..Len(given.messages)
    BY <1>1, <1>2
  <2> HIDE DEF Undo
  <2>2. given.messages = [i \in 1..Len(given.messages) |-> given.messages[i]]
    BY <1>1, <2>1
  <2>3. QED
    BY <1>3, <2>1, <2>2
<1>5. IsCline(given.messages) => \A i \in DOMAIN data.messages : data.messages[i].nudges = 0
  <2>1. DOMAIN data.messages = 1..Len(data.messages)
    BY <1>1
  <2>2. QED
    BY <2>1 DEF ControlIInv, MessagesFollow
<1>6. QED
  BY <1>4, <1>5 DEF ConversationKept, ms

LEMMA StopsAreKept ==
  ASSUME ControlIInv
  PROVE  StopsKept
<1> DEFINE own == given.stop
           n == IF Len(own) < 4 THEN Len(own) ELSE 4
<1>1. own \in Seq(STRING)
  BY ControlAssumption DEF ControlIInv, ControlShape
<1>2. CASE data.stop = own
  <2>1. n \in 0..Len(own)
    BY <1>1
  <2>2. IsPrefix(SubSeq(own, 1, n), own)
    BY <1>1, <2>1 DEF IsPrefix
  <2>3. QED
    BY <1>2, <2>2 DEF StopsKept
<1>3. CASE data.stop # own
  <2>1. PICK ours \in {ClineStops, FenceStops} : data.stop = Stops(own, ours)
    BY <1>3 DEF ControlIInv, StopsSoFar
  <2> DEFINE stops == Stops(own, ours)
             values == {stops[i] : i \in DOMAIN stops}
  <2>2. /\ Len(stops) \in Nat /\ Len(stops) <= 4 /\ stops \in Seq(values)
        /\ \A i \in 1..Len(own) : i <= 4 => i <= Len(stops) /\ stops[i] = own[i]
    BY <1>1, StopsFacts
  <2> HIDE DEF values, stops
  <2>3. /\ Len(data.stop) \in Nat /\ Len(data.stop) <= 4 /\ data.stop \in Seq(values)
        /\ \A i \in 1..Len(own) : i <= 4 => i <= Len(data.stop) /\ data.stop[i] = own[i]
    BY <2>1, <2>2 DEF stops
  <2>4. n \in 0..Len(own) /\ n <= 4 /\ n <= Len(data.stop)
    BY <1>1, <2>3
  <2> HIDE DEF n
  <2>5. /\ SubSeq(own, 1, n) = [i \in 1..n |-> own[i]] /\ Len(SubSeq(own, 1, n)) = n
        /\ SubSeq(SubSeq(own, 1, n), 1, n) = SubSeq(own, 1, n)
    BY <1>1, <2>4
  <2>6. SubSeq(data.stop, 1, n) = [i \in 1..n |-> data.stop[i]]
    BY <2>3, <2>4
  <2>7. \A i \in 1..n : own[i] = data.stop[i]
    BY <1>1, <2>3, <2>4
  <2>8. IsPrefix(SubSeq(own, 1, n), data.stop)
    BY <2>4, <2>5, <2>6, <2>7 DEF IsPrefix
  <2>9. IsLocal(data.model)
    BY <1>3 DEF ControlIInv, StopsSoFar
  <2>10. QED
    BY <2>3, <2>8, <2>9 DEF StopsKept, n
<1>4. QED
  BY <1>2, <1>3

\* Whatever controls ran, the caller finds its conversation, the user's directives and
\* its first stops in what is sent, and Cline's conversation is never nudged
\* (apply_static_guardrail, inject_qwen3_think_directive).
THEOREM CallersAreKept == ControlSpec => []CallerKept
<1>1. ControlIInv => CallerKept
  BY ConversationIsKept, StopsAreKept DEF CallerKept
<1>2. QED
  BY <1>1, ControlInvariant, PTL
=============================================================================
