----------------------------- MODULE OfflineMode -----------------------------
(***************************************************************************)
(* router/offline_mode.py: is_online() called from several threads.        *)
(*                                                                         *)
(* A call reads the clock, looks at the cache under _state_lock, and on a  *)
(* miss resolves OFFLINE and, for "auto", probes the network -- all of it  *)
(* outside the lock -- before it stores the verdict under the lock with a  *)
(* fresh timestamp.  Everything the threads do not control is a separate   *)
(* action: time, the network, and the operator's `make offline / online`.  *)
(***************************************************************************)
EXTENDS OfflineVerdict

CONSTANTS
    Threads,   \* callers of is_online()
    CallMax    \* bound: no call lasts longer (probe timeout plus scheduling)

ASSUME CallMaxAssumption == CallMax \in Nat

VARIABLES
    now,       \* time.time()
    setting,   \* OFFLINE, in the environment or config/detected.env
    network,   \* can api.anthropic.com:443 be reached?
    cache,     \* _cache
    pc,        \* where each thread is in is_online()
    call,      \* each thread's locals: clock read, force_refresh, verdict
    sampledAt  \* history: when the cached verdict was true of the world

vars == <<now, setting, network, cache, pc, call, sampledAt>>
world == <<now, setting, network>>

Steps == {"idle", "lookup", "check", "probe", "store"}
Calls == [clock : 0..MaxTime, force : BOOLEAN, online : BOOLEAN, at : 0..MaxTime]

\* The locals of a call that has read the clock and nothing else.
NewCall(clock, force) ==
    [clock |-> clock, force |-> force, online |-> FALSE, at |-> 0]

\* ... and once it knows a verdict, true of the world at time `at`.
Answered(c, online, at) == [c EXCEPT !.online = online, !.at = at]

TypeOK ==
    /\ now \in 0..MaxTime
    /\ setting \in OfflineSettings
    /\ network \in BOOLEAN
    /\ cache \in Verdicts \cup {NoVerdict}
    /\ pc \in [Threads -> Steps]
    /\ call \in [Threads -> Calls]
    /\ sampledAt \in 0..MaxTime

Init ==
    /\ now = 0
    /\ setting \in OfflineSettings
    /\ network \in BOOLEAN
    /\ cache = NoVerdict
    /\ pc = [t \in Threads |-> "idle"]
    /\ call = [t \in Threads |-> NewCall(0, FALSE)]
    /\ sampledAt = 0

-----------------------------------------------------------------------------
(* is_online() *)

GoTo(t, step) == pc' = [pc EXCEPT ![t] = step]

\* now = time.time(), before the lock is taken.
ReadClock(t, force) ==
    /\ pc[t] = "idle"
    /\ call' = [call EXCEPT ![t] = NewCall(now, force)]
    /\ GoTo(t, "lookup")
    /\ UNCHANGED <<world, cache, sampledAt>>

\* The locked lookup finds an entry fresh by the clock value already read.
CacheHit(t) ==
    /\ pc[t] = "lookup"
    /\ ~call[t].force
    /\ IsFresh(cache, call[t].clock)
    /\ call' = [call EXCEPT ![t] = Answered(@, cache.online, sampledAt)]
    /\ GoTo(t, "idle")
    /\ UNCHANGED <<world, cache, sampledAt>>

CacheMiss(t) ==
    /\ pc[t] = "lookup"
    /\ call[t].force \/ ~IsFresh(cache, call[t].clock)
    /\ GoTo(t, "check")
    /\ UNCHANGED <<world, cache, call, sampledAt>>

\* _check_online_uncached(): a truthy or falsy OFFLINE decides at once.
ForcedVerdict(t) ==
    /\ pc[t] = "check"
    /\ setting \in {"1", "0"}
    /\ call' = [call EXCEPT ![t] = Answered(@, (setting = "0"), now)]
    /\ GoTo(t, "store")
    /\ UNCHANGED <<world, cache, sampledAt>>

StartProbe(t) ==
    /\ pc[t] = "check"
    /\ setting = "auto"
    /\ GoTo(t, "probe")
    /\ UNCHANGED <<world, cache, call, sampledAt>>

\* _probe_anthropic(): the TCP connect succeeds or fails.
Probe(t) ==
    /\ pc[t] = "probe"
    /\ call' = [call EXCEPT ![t] = Answered(@, network, now)]
    /\ GoTo(t, "store")
    /\ UNCHANGED <<world, cache, sampledAt>>

\* _cache = (online, time.time()) under the lock; the call returns.
Store(t) ==
    /\ pc[t] = "store"
    /\ cache' = [online |-> call[t].online, ts |-> now]
    /\ sampledAt' = call[t].at
    /\ GoTo(t, "idle")
    /\ UNCHANGED <<world, call>>

-----------------------------------------------------------------------------
(* The world *)

Tick ==
    /\ now < MaxTime
    /\ \A t \in Threads : pc[t] # "idle" => now - call[t].clock < CallMax
    /\ now' = now + 1
    /\ UNCHANGED <<setting, network, cache, pc, call, sampledAt>>

NetworkFlips ==
    /\ network' = ~network
    /\ UNCHANGED <<now, setting, cache, pc, call, sampledAt>>

\* make offline / make online / editing detected.env
OperatorSets(s) ==
    /\ s # setting
    /\ setting' = s
    /\ UNCHANGED <<now, network, cache, pc, call, sampledAt>>

Next ==
    \/ \E t \in Threads :
          \/ \E force \in BOOLEAN : ReadClock(t, force)
          \/ CacheHit(t)
          \/ CacheMiss(t)
          \/ ForcedVerdict(t)
          \/ StartProbe(t)
          \/ Probe(t)
          \/ Store(t)
    \/ Tick
    \/ NetworkFlips
    \/ \E s \in OfflineSettings : OperatorSets(s)

Spec == Init /\ [][Next]_vars

-----------------------------------------------------------------------------
(* Properties *)

Returns(t) == pc[t] # "idle" /\ pc'[t] = "idle"

\* Staleness of an answer: whatever is_online() returns was true of the world
\* (setting and network together) less than its own TTL plus two calls ago.
\* "Online" may be believed for OnlineTTL, "offline" only for OfflineTTL, and
\* the slack is a slow probe ahead of the store and a caller delayed between
\* its clock read and the lock.
BoundedStaleness ==
    [][\A t \in Threads : Returns(t) =>
          now - call'[t].at < TTL(call'[t].online) + 2 * CallMax]_vars
=============================================================================
