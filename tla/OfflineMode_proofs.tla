------------------------- MODULE OfflineMode_proofs -------------------------
(***************************************************************************)
(* Proofs about OfflineMode, for any set of threads and any lifetimes.     *)
(***************************************************************************)
EXTENDS OfflineMode, TLAPS

\* The clock arithmetic that holds between the steps: a call in progress
\* started at most CallMax ago, a verdict waiting to be stored was sampled
\* since its call began, and a stored one was sampled at most CallMax before
\* its timestamp.
CallsAreShort ==
    \A t \in Threads : pc[t] # "idle" =>
        call[t].clock <= now /\ now - call[t].clock <= CallMax

SampledDuringCall ==
    \A t \in Threads : pc[t] = "store" =>
        call[t].clock <= call[t].at /\ call[t].at <= now

StoredSoonAfterSampling ==
    cache # NoVerdict =>
        /\ sampledAt <= cache.ts
        /\ cache.ts <= now
        /\ cache.ts - sampledAt <= CallMax

IInv ==
    /\ TypeOK
    /\ CallsAreShort
    /\ SampledDuringCall
    /\ StoredSoonAfterSampling

USE DEF NoVerdict, Verdicts, Calls, Steps, NewCall, Answered, GoTo, world, OfflineSettings

\* The strengthened invariant holds initially: no call runs, nothing is cached.
LEMMA InitIInv == Init => IInv
  BY CallMaxAssumption, MaxTimeAssumption DEF Init, IInv, TypeOK, CallsAreShort, SampledDuringCall,
     StoredSoonAfterSampling

\* Every step of the threads and of the world preserves it.
LEMMA NextIInv == IInv /\ [Next]_vars => IInv'
<1> SUFFICES ASSUME IInv, [Next]_vars PROVE IInv'
  OBVIOUS
<1> USE CallMaxAssumption, MaxTimeAssumption DEF IInv, TypeOK, CallsAreShort, SampledDuringCall,
        StoredSoonAfterSampling
<1>1. ASSUME NEW t \in Threads, NEW force \in BOOLEAN, ReadClock(t, force)
      PROVE  IInv'
  BY <1>1 DEF ReadClock
<1>2. ASSUME NEW t \in Threads, CacheHit(t) PROVE IInv'
  BY <1>2 DEF CacheHit, IsFresh
<1>3. ASSUME NEW t \in Threads, CacheMiss(t) PROVE IInv'
  BY <1>3 DEF CacheMiss
<1>4. ASSUME NEW t \in Threads, ForcedVerdict(t) PROVE IInv'
  <2>1. TypeOK'
    BY <1>4 DEF ForcedVerdict
  <2>2. CallsAreShort'
    BY <1>4 DEF ForcedVerdict
  <2>3. SampledDuringCall'
    BY <1>4 DEF ForcedVerdict
  <2>4. StoredSoonAfterSampling'
    BY <1>4 DEF ForcedVerdict
  <2>5. QED
    BY <2>1, <2>2, <2>3, <2>4
<1>5. ASSUME NEW t \in Threads, StartProbe(t) PROVE IInv'
  BY <1>5 DEF StartProbe
<1>6. ASSUME NEW t \in Threads, Probe(t) PROVE IInv'
  <2>1. TypeOK'
    BY <1>6 DEF Probe
  <2>2. CallsAreShort'
    BY <1>6 DEF Probe
  <2>3. SampledDuringCall'
    BY <1>6 DEF Probe
  <2>4. StoredSoonAfterSampling'
    BY <1>6 DEF Probe
  <2>5. QED
    BY <2>1, <2>2, <2>3, <2>4
<1>7. ASSUME NEW t \in Threads, Store(t) PROVE IInv'
  BY <1>7 DEF Store
<1>8. CASE Tick
  BY <1>8 DEF Tick
<1>9. CASE NetworkFlips
  BY <1>9 DEF NetworkFlips
<1>10. ASSUME NEW s \in OfflineSettings, OperatorSets(s) PROVE IInv'
  BY <1>10 DEF OperatorSets
<1>11. CASE UNCHANGED vars
  BY <1>11 DEF vars
<1>12. QED
  BY <1>1, <1>2, <1>3, <1>4, <1>5, <1>6, <1>7, <1>8, <1>9, <1>10, <1>11 DEF Next

\* Type correctness of is_online()'s shared state and of every thread's locals.
THEOREM TypeCorrect == Spec => []TypeOK
<1>1. IInv => TypeOK
  BY DEF IInv
<1>2. QED
  BY InitIInv, NextIInv, <1>1, PTL DEF Spec

\* One step: a call that returns does so with a verdict younger than its TTL
\* and two call lengths.
LEMMA ReturnIsRecent ==
  ASSUME IInv, [Next]_vars, NEW t \in Threads, Returns(t)
  PROVE  now - call'[t].at < TTL(call'[t].online) + 2 * CallMax
<1> USE CallMaxAssumption, MaxTimeAssumption, TTLAssumption DEF IInv, TypeOK, CallsAreShort,
        SampledDuringCall, StoredSoonAfterSampling, Returns
<1>1. CASE CacheHit(t)
  <2>1. call'[t].online = cache.online /\ call'[t].at = sampledAt
    BY <1>1 DEF CacheHit
  <2>2. call[t].clock - cache.ts < TTL(cache.online)
    BY <1>1 DEF CacheHit, IsFresh
  <2>3. TTL(cache.online) \in Nat /\ cache # NoVerdict
    BY <1>1 DEF CacheHit, IsFresh, TTL
  <2>4. QED
    BY <2>1, <2>2, <2>3
<1>2. CASE Store(t)
  <2>1. call' = call /\ call[t].clock <= call[t].at /\ pc[t] = "store"
    BY <1>2 DEF Store
  <2>2. TTL(call[t].online) \in Nat \ {0}
    BY DEF TTL
  <2>3. QED
    BY <2>1, <2>2
<1>3. CacheHit(t) \/ Store(t)
  BY DEF Next, vars, ReadClock, CacheHit, CacheMiss, ForcedVerdict, StartProbe,
     Probe, Store, Tick, NetworkFlips, OperatorSets
<1>4. QED
  BY <1>1, <1>2, <1>3

\* No caller of is_online() is told something older than the TTL of that very
\* answer plus two call lengths, however the threads interleave and whatever
\* the network and the operator do.
THEOREM StalenessBounded == Spec => BoundedStaleness
<1>1. IInv /\ [Next]_vars =>
        [\A t \in Threads : Returns(t) =>
           now - call'[t].at < TTL(call'[t].online) + 2 * CallMax]_vars
  BY ReturnIsRecent
<1>2. QED
  BY InitIInv, NextIInv, <1>1, PTL DEF Spec, BoundedStaleness
=============================================================================
