-------------------------------- MODULE Pricing --------------------------------
(***************************************************************************)
(* cost/pricing.py.  Which row of the price table a model id is charged by *)
(* (_normalize(), claude_rate() with its one-time warning), and the check  *)
(* for drift that a starting proxy makes in a thread of its own            *)
(* (maybe_run_pricing_check(), scripts/check_claude_pricing.py).  An id is *)
(* the sequence of its parts, its provider prefix apart.                   *)
(***************************************************************************)
EXTENDS Common, Sequences, SequencesExt, FiniteSets

CONSTANTS
    ModelIds,     \* ids that come from LiteLLM's answers and from configuration
    Proxies,      \* processes that start
    Day,          \* 24 h
    StaleAt       \* when the table is PRICING_STALE_DAYS old

ASSUME PricingAssumption ==
    /\ Day \in Nat \ {0} /\ StaleAt \in Nat /\ None \notin Nat
    /\ \A id \in ModelIds : id.parts \in Seq(STRING) \ {<<>>}

VARIABLES
    rated,     \* the last id charged and the row it was charged by
    warned,    \* _warned_unknown
    warnings,  \* how often each id was complained of
    hour,      \* time
    upstream,  \* the published prices, against the table's
    online,    \* can the page be fetched
    mtime,     \* .logs/pricing-last-check
    proxy,     \* each proxy's check
    ended      \* history: when a checker last came to its end

ratingVars == <<rated, warned, warnings>>
checkVars == <<mtime, proxy, ended>>
pricingVars == <<ratingVars, checkVars, hour, upstream, online>>

\* CLAUDE_PRICES: the ids that have a row of their own.
Prices ==
    {<<"claude", "opus", "4", v>> : v \in {"8", "7", "6", "5", "1"}} \cup {<<"claude", "opus", v>> : v \in {"4", "3"}}
    \cup {<<"claude", "sonnet", v>> : v \in {"5", "4"}} \cup {<<"claude", "sonnet", "4", v>> : v \in {"6", "5"}}
    \cup {<<"claude", "sonnet", "3", "7">>, <<"claude", "fable", "5">>}
    \cup {<<"claude", "haiku", v, "5">> : v \in {"4", "3"}} \cup {<<"claude", "haiku", "3">>}

\* _ALIASES: a version written with a dot, and the proxy's own name for its tier.
Aliases ==
    {<<<<"claude", "sonnet", "5.0">>, <<"claude", "sonnet", "5">>>>,
     <<<<"claude", "opus", "4.8">>, <<"claude", "opus", "4", "8">>>>,
     <<<<"claude", "sonnet", "4.6">>, <<"claude", "sonnet", "4", "6">>>>,
     <<<<"claude", "opus", "4.7">>, <<"claude", "opus", "4", "7">>>>,
     <<<<"claude", "opus", "4.6">>, <<"claude", "opus", "4", "6">>>>,
     <<<<"claude", "haiku", "4.5">>, <<"claude", "haiku", "4", "5">>>>,
     <<<<"claude", "code">>, <<"claude", "sonnet", "5">>>>}
AliasTable == [parts \in {a[1] : a \in Aliases} |-> (CHOOSE a \in Aliases : a[1] = parts)[2]]

Shadow == <<"claude", "sonnet", "4", "6">>   \* CLAUDE_SHADOW_MODEL

\* Mutant: the shortest prefix in the table wins.
NormalizeShortest(parts) ==
    LET known == {n \in 2..Len(parts) : SubSeq(parts, 1, n) \in Prices \cup DOMAIN AliasTable}
        m == SubSeq(parts, 1, CHOOSE n \in known : \A k \in known : n <= k)
    IN  IF known = {} THEN parts ELSE IF m \in Prices THEN m ELSE AliasTable[m]

\* _normalize(): the longest prefix that the table or the aliases have, of two
\* parts at least; the whole id first.
Normalize(parts) ==
    LET known == {n \in 2..Len(parts) : SubSeq(parts, 1, n) \in Prices \cup DOMAIN AliasTable}
        m == SubSeq(parts, 1, CHOOSE n \in known : \A k \in known : k <= n)
    IN  IF known = {} THEN parts ELSE IF m \in Prices THEN m ELSE AliasTable[m]

Remember(key) == warned' = warned \cup {key}

\* claude_rate(): for a success hook or the dashboard, by any thread.
Charge(id) ==
    LET key == Normalize(id.parts)
    IN  /\ rated' = [id |-> id, row |-> IF key \in Prices THEN key ELSE Shadow]
        /\ IF key \in Prices \cup warned THEN UNCHANGED <<warned, warnings>>
           ELSE Remember(key) /\ warnings' = Append(warnings, key)
    /\ UNCHANGED <<checkVars, hour, upstream, online>>

PricingInit ==
    /\ rated = None /\ warned = {} /\ warnings = <<>>
    /\ hour = 0 /\ upstream = "same" /\ online \in BOOLEAN
    /\ mtime = None /\ ended = None
    /\ proxy = [p \in Proxies |-> [at |-> "down", since |-> 0]]

Stale == hour > StaleAt
Becomes(p, at) == proxy' = [proxy EXCEPT ![p] = [at |-> at, since |-> hour]]

MaySkip == mtime # None /\ hour - mtime < Day /\ ~Stale

\* maybe_run_pricing_check(), when LiteLLM imports the router.
StartProxy(p) ==
    /\ proxy[p].at = "down"
    /\ Becomes(p, IF MaySkip THEN "skipped" ELSE "checking")
    /\ UNCHANGED <<ratingVars, mtime, ended, hour, upstream, online>>

\* The file is touched after the checker has come back, whatever it says.
Touch(ok) == IF ok THEN mtime' = hour ELSE UNCHANGED mtime

\* The checker: it cannot fetch or parse the page and exits with 0, as it does
\* when nothing has drifted; or it finds a price that differs or a model that the
\* table lacks.  A stale table is complained of when there is no drift.
CheckerEnds(p) ==
    /\ proxy[p].at = "checking"
    /\ LET read == online /\ upstream # "unreadable"
           drift == read /\ upstream \in {"price", "model"}
       IN  Becomes(p, IF drift THEN "drift" ELSE IF Stale THEN "nag" ELSE "quiet")
    /\ Touch(TRUE) /\ ended' = hour
    /\ UNCHANGED <<ratingVars, hour, upstream, online>>

\* subprocess.TimeoutExpired, which the thread swallows.
CheckerTimesOut(p) ==
    /\ proxy[p].at = "checking"
    /\ Becomes(p, "failed") /\ Touch(FALSE)
    /\ UNCHANGED <<ratingVars, ended, hour, upstream, online>>

Stop(p) ==
    /\ proxy[p].at # "down" /\ Becomes(p, "down")
    /\ UNCHANGED <<ratingVars, mtime, ended, hour, upstream, online>>

HourPasses == hour < MaxTime /\ hour' = hour + 1 /\ UNCHANGED <<ratingVars, checkVars, upstream, online>>

\* Anthropic changes a price, lists a model, or lays its page out anew; the network
\* comes and goes.
WorldChanges ==
    /\ \/ upstream = "same" /\ upstream' \in {"price", "model", "unreadable"} /\ UNCHANGED online
       \/ online' = ~online /\ UNCHANGED upstream
    /\ UNCHANGED <<ratingVars, checkVars, hour>>

\* The two have nothing in common but the table.
CheckNext ==
    \/ \E p \in Proxies : StartProxy(p) \/ CheckerEnds(p) \/ CheckerTimesOut(p) \/ Stop(p)
    \/ HourPasses \/ WorldChanges

RatingNext == \E id \in ModelIds : Charge(id)

PricingSpec == PricingInit /\ [][RatingNext \/ CheckNext]_pricingVars

----------------------------------------------------------------------------
(* Properties *)

\* The row that a reader of the table would take: the id's own if it has one, with
\* or without a date, by its name or by an alias of it.
ReferenceRow(parts) ==
    LET undated == IF Last(parts) = "20260416" THEN Front(parts) ELSE parts
    IN  IF undated \in Prices THEN undated
        ELSE IF undated \in DOMAIN AliasTable THEN AliasTable[undated] ELSE None

\* An id that the table has, dated or another provider's too, is charged at its own row,
\* never at that of a shorter name its own begins with; and an id none of whose
\* beginnings the table has is charged as the shadow model and has been complained of.
\* (What of an id that the table lacks and whose name extends one it has: see
\* UnknownIsReported.)
ChargedAsNamed ==
    rated # None =>
        /\ rated.row \in Prices
        /\ ReferenceRow(rated.id.parts) # None => rated.row = ReferenceRow(rated.id.parts)
        /\ (\A n \in 2..Len(rated.id.parts) :
                SubSeq(rated.id.parts, 1, n) \notin Prices \cup DOMAIN AliasTable)
              => rated.row = Shadow /\ rated.id.parts \in warned

\* "one-time stderr warning": one for each unknown id, whatever thread meets it.
WarnedOnce == IsInjective(warnings)

\* A proxy that starts without looking at the prices does so because a checker came
\* to its end in the day before, and the table was not stale then.
SkipIsJustified ==
    \A p \in Proxies : proxy[p].at = "skipped" =>
        /\ ended # None /\ proxy[p].since <= StaleAt
        /\ proxy[p].since - ended < Day

\* A model of the table is charged at its own price, one that resembles none of them is
\* reported, once whatever the threads do, and the prices are trusted for a day only
\* after a check that ended.
PricedRight == ChargedAsNamed /\ WarnedOnce /\ SkipIsJustified

\* cost/pricing.py:243-249: "Falls back to Sonnet 4.6 rates for unknown models, and prints
\* a one-time stderr warning so you notice you need to update the table".
UnknownIsReported ==
    rated # None /\ ReferenceRow(rated.id.parts) = None => rated.row = Shadow /\ warned # {}
============================================================================
