--------------------------- MODULE OfflineVerdict ---------------------------
(***************************************************************************)
(* The data of router/offline_mode.py shared by every module that asks     *)
(* "is Claude reachable?": the OFFLINE setting, the cached verdict, and    *)
(* the answer of the check a cache miss runs.  Time is in whole ticks.     *)
(***************************************************************************)
EXTENDS Common

CONSTANTS
    OnlineTTL,   \* _ONLINE_TTL_SEC:  how long an "online" verdict is reused
    OfflineTTL   \* _OFFLINE_TTL_SEC: how long an "offline" verdict is reused

ASSUME TTLAssumption == OnlineTTL \in Nat \ {0} /\ OfflineTTL \in Nat \ {0}

\* OFFLINE as _env("OFFLINE") resolves it: truthy, falsy, or auto / unset.
OfflineSettings == {"1", "0", "auto"}

\* _cache: None, or the verdict and the time it was stored.
Verdicts == [online : BOOLEAN, ts : Nat]
NoVerdict == None

TTL(online) == IF online THEN OnlineTTL ELSE OfflineTTL

\* Mutant: one lifetime for both verdicts.
IsFreshOneTTL(cache, clock) ==
    cache # NoVerdict /\ clock - cache.ts < OnlineTTL

\* The hit test of is_online(): an entry is used while strictly younger than
\* its own TTL, measured with the clock value the caller read.
IsFresh(cache, clock) ==
    cache # NoVerdict /\ clock - cache.ts < TTL(cache.online)

\* What _check_online_uncached() answers at one instant: the setting decides,
\* and only "auto" looks at the network.
Reachable(setting, network) ==
    \/ setting = "0"
    \/ setting = "auto" /\ network
=============================================================================
