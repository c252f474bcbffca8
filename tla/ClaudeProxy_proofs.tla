-------------------------- MODULE ClaudeProxy_proofs --------------------------
(***************************************************************************)
(* Proofs about ClaudeProxy, for any requests, settings and tokens, any    *)
(* number of retries, any delays and any lifetime of the caches.           *)
(***************************************************************************)
EXTENDS ClaudeProxy, SequenceTheorems, FiniteSetTheorems, TLAPS

\* Where a handler is in the 429 loop: an attempt has one answer fewer than its
\* number until it is answered, and all of them were 429; it sleeps only when
\* another attempt is allowed, and it streams what the last one answered.
RetryPhase(q) ==
    LET n == Len(q.answers)
    IN  /\ q.at # "none" => q.ask \in Asks
        /\ q.at \in {"none", "token", "key"} => n = 0 /\ q.attempt = 0
        /\ q.at = "wait" =>
             /\ n = q.attempt /\ (n > 0 => InRetryLoop(q))
             /\ \A i \in 1..n : q.answers[i] = 429
        /\ q.at = "sleep" =>
             /\ n = q.attempt + 1 /\ q.attempt < Retries /\ InRetryLoop(q)
             /\ \A i \in 1..n : q.answers[i] = 429
             /\ q.wake <= now + MaxDelay
        /\ q.at \in {"body", "done"} =>
             /\ n <= Retries + 1 /\ (n > 1 => InRetryLoop(q))
             /\ \A i \in 1..(n - 1) : q.answers[i] = 429
             /\ n > 0 => q.status \in {500, q.answers[n]}
             /\ q.status = 429 /\ InRetryLoop(q) => n = Retries + 1

\* What a handler has in hand was in the keychain less than a TTL before it began.
CredPhase(q) ==
    /\ q.began <= now
    /\ q.at \in {"token", "key"} => q.clock <= now
    /\ q.at \in {"wait", "sleep"} /\ q.cred \in Tokens => tokenHeld[q.cred] > q.began - TTL
    /\ q.at \in {"wait", "sleep"} /\ q.cred = "key" => keyHeld > q.began - TTL
    /\ q.body = "available" => config.envKey \/ keyHeld > q.began - TTL
    /\ q.at # "done" => q.body = "none"

\* The histories follow the keychain, and a cache expires within a TTL of when
\* the keychain held what it has.
CachesRecent ==
    /\ vault.token # None => tokenHeld[vault.token] = now
    /\ vault.key => keyHeld = now
    /\ keyHeld <= now /\ \A t \in Tokens : tokenHeld[t] <= now
    /\ tokenCache.token # None => tokenCache.expires <= tokenHeld[tokenCache.token] + TTL
    /\ keyCache.key = "key" => keyCache.expires <= keyHeld + TTL
    /\ keyCache.key = "envkey" => config.envKey

IInv ==
    /\ TypeOK
    /\ \A r \in Requests : RetryPhase(req[r]) /\ CredPhase(req[r])
    /\ CachesRecent

----------------------------------------------------------------------------
(* The operators of the model *)

LEMMA Constants ==
  /\ Retries \in Nat /\ BaseDelay \in Nat /\ MaxDelay \in Nat /\ TTL \in Nat /\ TTL # 0
  /\ MaxTime \in Nat /\ MaxChanges \in Nat
  BY ProxyAssumption, MaxTimeAssumption

LEMMA Distinct ==
  /\ None \notin Requests /\ None \notin Tokens /\ None \notin Asks
  /\ None # "nokey" /\ None # "key" /\ None # "envkey"
  /\ "client" \notin Tokens /\ "none" \notin Tokens /\ "key" \notin Tokens /\ "envkey" \notin Tokens
  BY ProxyAssumption

LEMMA PowerOfTwo == \A n \in Nat : 2 ^ n \in Nat
<1> TAKE n \in Nat
<1>1. IsFiniteSet(1..n) /\ Cardinality(1..n) = n
  BY FS_Interval
<1>2. IsFiniteSet(SUBSET (1..n)) /\ Cardinality(SUBSET (1..n)) = 2 ^ n
  BY <1>1, FS_SUBSET
<1>3. QED
  BY <1>2, FS_CardinalityType

\* _retry_delay() is clamped on both sides.
LEMMA RetryDelayIsClamped ==
  ASSUME NEW attempt \in Nat, NEW retryAfter \in Int \cup {None}
  PROVE  RetryDelay(attempt, retryAfter) \in Nat /\ RetryDelay(attempt, retryAfter) <= MaxDelay
<1> DEFINE p == 2 ^ attempt
<1>1. p \in Nat
  BY PowerOfTwo
<1> HIDE DEF p
<1>2. BaseDelay * p \in Nat
  BY <1>1, Constants
<1> DEFINE asked == IF retryAfter = None THEN BaseDelay * p ELSE IF retryAfter < 0 THEN 0 ELSE retryAfter
<1>3. asked \in Nat
  BY <1>2
<1> HIDE DEF asked
<1>4. (IF asked < MaxDelay THEN asked ELSE MaxDelay) \in 0..MaxDelay
  BY <1>3, Constants
<1>5. QED
  BY <1>4 DEF RetryDelay, asked, p

LEMMA UnusedShape == Unused \in HandlerShape
  BY Constants, SMTT(60) DEF Unused, HandlerShape, Places, Credentials, Statuses, Bodies

LEMMA StartedShape ==
  ASSUME TypeOK, NEW a \in Asks
  PROVE  /\ Started(a) \in HandlerShape
         /\ Started(a) = [Unused EXCEPT !.ask = a, !.began = now]
<1>1. now \in 0..MaxTime
  BY DEF TypeOK
<1>2. now \in Nat
  BY <1>1, Constants
<1>3. QED
  BY <1>2, UnusedShape DEF Started, HandlerShape

\* The statuses the proxy answers with of its own accord: none is a 429.
Own == {200, 400, 401, 500}

LEMMA StatusesHad ==
  /\ 200 \in Statuses /\ 400 \in Statuses /\ 401 \in Statuses /\ 500 \in Statuses
  /\ 200 \in Own /\ 400 \in Own /\ 401 \in Own /\ 500 \in Own
  BY DEF Statuses, UpstreamStatuses, Own

LEMMA EndShape ==
  ASSUME NEW q \in HandlerShape, NEW status \in Statuses
  PROVE  End(q, status) \in HandlerShape
<1>1. "done" \in Places /\ 0 \in Nat /\ "none" \in Credentials
  BY DEF Places, Credentials
<1>2. QED
  BY <1>1 DEF End, HandlerShape

LEMMA EndFields ==
  ASSUME NEW q \in HandlerShape, NEW status \in Statuses
  PROVE  /\ End(q, status).at = "done" /\ End(q, status).status = status
         /\ End(q, status).ask = q.ask /\ End(q, status).answers = q.answers
         /\ End(q, status).began = q.began /\ End(q, status).body = q.body
         /\ End(q, status).attempt = q.attempt
  BY DEF End, HandlerShape

LEMMA SendShape ==
  ASSUME NEW q \in HandlerShape, NEW cred \in Credentials
  PROVE  Send(q, cred) \in HandlerShape
  BY DEF Send, HandlerShape, Places

LEMMA BodyShape ==
  ASSUME NEW q \in HandlerShape, NEW body \in Bodies
  PROVE  [q EXCEPT !.body = body] \in HandlerShape
  BY DEF HandlerShape

LEMMA SleepShape ==
  ASSUME NEW q \in HandlerShape, NEW wake \in Nat, NEW answers \in Seq(UpstreamStatuses)
  PROVE  [q EXCEPT !.at = "sleep", !.conn = "closed", !.answers = answers, !.wake = wake]
           \in HandlerShape
<1>1. "sleep" \in Places
  BY DEF Places
<1>2. QED
  BY <1>1 DEF HandlerShape

LEMMA WithKeyShape ==
  ASSUME NEW q \in HandlerShape, NEW key \in {"nokey", "key", "envkey"}
  PROVE  WithKey(q, key) \in HandlerShape
<1>1. 200 \in Statuses /\ 401 \in Statuses
  BY StatusesHad
<1>2. "unavailable" \in Bodies /\ "available" \in Bodies
  BY DEF Bodies
<1>3. End(q, 200) \in HandlerShape /\ End(q, 401) \in HandlerShape
  BY <1>1, EndShape
<1>4. key # "nokey" => Send(q, key) \in HandlerShape
  BY SendShape DEF Credentials
<1>5. QED
  BY <1>2, <1>3, <1>4, BodyShape DEF WithKey

----------------------------------------------------------------------------
(* Initial states and steps *)

LEMMA InitIInv == Init => IInv
<1> SUFFICES ASSUME Init PROVE IInv
  OBVIOUS
<1>1. TypeOK
  <2>1. now \in 0..MaxTime
    BY Constants DEF Init
  <2>2. vault \in [token : Tokens \cup {None}, key : BOOLEAN, changes : 0..MaxChanges]
    BY Constants DEF Init
  <2>3. req \in [Requests -> HandlerShape]
    BY UnusedShape DEF Init
  <2>4. tokenHeld \in [Tokens -> Int] /\ keyHeld \in Int
    BY Constants DEF Init, Never
  <2>5. loop \in Requests \cup {None} /\ \A r \in Requests : req[r].at \in {"token", "key"} <=> loop = r
    BY Distinct DEF Init, Unused
  <2>6. /\ tokenCache \in [token : Tokens \cup {None}, expires : Nat]
        /\ keyCache \in [key : {None, "nokey", "key", "envkey"}, expires : Nat]
    BY DEF Init
  <2>7. config \in Configs
    BY DEF Init
  <2>8. QED
    BY <2>1, <2>2, <2>3, <2>4, <2>5, <2>6, <2>7 DEF TypeOK
<1>2. ASSUME NEW r \in Requests PROVE RetryPhase(req[r])
  BY Constants DEF Init, Unused, RetryPhase
<1>3. ASSUME NEW r \in Requests PROVE CredPhase(req[r])
  BY Constants DEF Init, Unused, CredPhase
<1>4. CachesRecent
  <2>1. vault.token \in Tokens \cup {None} /\ now = 0 /\ TTL \in Nat
    BY Constants DEF Init
  <2>2. (vault.token # None => tokenHeld[vault.token] = now) /\ (vault.key => keyHeld = now)
    BY <2>1 DEF Init
  <2>3. keyHeld <= now /\ \A t \in Tokens : tokenHeld[t] <= now
    BY <2>1 DEF Init, Never
  <2>4. tokenCache.token = None /\ keyCache.key = None
    BY DEF Init
  <2>5. QED
    BY <2>2, <2>3, <2>4, Distinct DEF CachesRecent
<1>5. QED
  BY <1>1, <1>2, <1>3, <1>4 DEF IInv

\* A step of one handler, which becomes q: the rest stays as it is, and so do the
\* clock, the settings and the keychain.
LEMMA HandlerStep ==
  ASSUME IInv, UNCHANGED <<world, config>>, NEW r \in Requests, NEW q \in HandlerShape,
         loop \in {None, r}, req' = [req EXCEPT ![r] = q],
         RetryPhase(q), CredPhase(q),
         loop' = IF q.at \in {"token", "key"} THEN r ELSE None,
         tokenCache' \in [token : Tokens \cup {None}, expires : Nat],
         keyCache' \in [key : {None, "nokey", "key", "envkey"}, expires : Nat],
         CachesRecent'
  PROVE  IInv'
<1>1. req' \in [Requests -> HandlerShape]
  BY DEF IInv, TypeOK
<1>2. req'[r] = q /\ \A s \in Requests \ {r} : req'[s] = req[s]
  BY DEF IInv, TypeOK
<1>3. /\ loop' \in Requests \cup {None}
      /\ \A s \in Requests : req'[s].at \in {"token", "key"} <=> loop' = s
  <2>1. \A s \in Requests : req[s].at \in {"token", "key"} <=> loop = s
    BY DEF IInv, TypeOK
  <2>2. \A s \in Requests \ {r} : loop # s
    BY Distinct
  <2>3. QED
    BY <1>2, <2>1, <2>2, Distinct
<1>4. TypeOK'
  BY <1>1, <1>3 DEF IInv, TypeOK, world
<1>5. ASSUME NEW s \in Requests PROVE (RetryPhase(req[s]) /\ CredPhase(req[s]))'
  <2>1. RetryPhase(req'[s]) /\ CredPhase(req'[s])
    BY <1>2 DEF IInv
  <2>2. RetryPhase(req[s])'
    BY <2>1 DEF RetryPhase, InRetryLoop, world
  <2>3. CredPhase(req[s])'
    BY <2>1 DEF CredPhase, world
  <2>4. QED
    BY <2>2, <2>3
<1>6. QED
  BY <1>4, <1>5 DEF IInv

LEMMA CachesStay ==
  ASSUME CachesRecent, UNCHANGED <<world, config, caches>>
  PROVE  CachesRecent'
  BY DEF CachesRecent, world, caches

\* A handler that has not sent anything yet.
Before(q) == q \in HandlerShape /\ q.at \in {"none", "token", "key"} /\ q.ask \in Asks
             /\ RetryPhase(q) /\ CredPhase(q)

\* A handler that is in no keychain read, and in order.
Settled(q) == q \in HandlerShape /\ q.at \notin {"token", "key"} /\ RetryPhase(q) /\ CredPhase(q)

LEMMA StartedPhase ==
  ASSUME IInv, NEW a \in Asks
  PROVE  /\ Before(Started(a))
         /\ Started(a).ask = a /\ Started(a).at = "none" /\ Started(a).began = now
         /\ now \in Nat
<1> DEFINE q == Started(a)
<1>1. now \in 0..MaxTime /\ TypeOK
  BY DEF IInv, TypeOK
<1>2. now \in Nat
  BY <1>1, Constants
<1>3. q \in HandlerShape /\ q = [Unused EXCEPT !.ask = a, !.began = now]
  BY <1>1, StartedShape
<1>4. /\ q.ask = a /\ q.at = "none" /\ q.began = now /\ q.body = "none"
      /\ q.answers = <<>> /\ q.attempt = 0
  BY <1>3 DEF Unused
<1> HIDE DEF q
<1>5. RetryPhase(q)
  BY <1>4 DEF RetryPhase
<1>6. CredPhase(q)
  BY <1>2, <1>4 DEF CredPhase
<1>7. QED
  BY <1>2, <1>3, <1>4, <1>5, <1>6 DEF Before, q

LEMMA EndPhase ==
  ASSUME NEW q, Before(q), NEW status \in Own
  PROVE  Settled(End(q, status)) /\ End(q, status).at = "done"
<1> DEFINE e == End(q, status)
<1>0. status \in Statuses /\ status # 429
  BY DEF Own, Statuses, UpstreamStatuses
<1>1. e \in HandlerShape
  BY <1>0, EndShape DEF Before
<1>2. /\ e.at = "done" /\ e.ask = q.ask /\ e.answers = q.answers /\ e.status = status
      /\ e.began = q.began /\ e.body = q.body
  BY DEF End, Before, HandlerShape
<1> HIDE DEF e
<1>3. Len(e.answers) = 0 /\ e.ask \in Asks /\ e.began <= now /\ e.body = "none"
  BY <1>2 DEF Before, RetryPhase, CredPhase
<1>4. RetryPhase(e)
  BY <1>0, <1>2, <1>3, Constants DEF RetryPhase
<1>5. CredPhase(e)
  BY <1>2, <1>3 DEF CredPhase
<1>6. QED
  BY <1>1, <1>2, <1>4, <1>5 DEF e, Settled

LEMMA SendPhase ==
  ASSUME NEW q, Before(q), NEW cred \in Credentials,
         cred \in Tokens => tokenHeld[cred] > q.began - TTL,
         cred = "key" => keyHeld > q.began - TTL
  PROVE  Settled(Send(q, cred))
<1> DEFINE e == Send(q, cred)
<1>1. e \in HandlerShape
  BY SendShape DEF Before
<1>2. /\ e.at = "wait" /\ e.ask = q.ask /\ e.answers = q.answers /\ e.attempt = q.attempt
      /\ e.began = q.began /\ e.body = q.body /\ e.cred = cred
  BY DEF Send, Before, HandlerShape
<1> HIDE DEF e
<1>3. Len(e.answers) = 0 /\ e.attempt = 0 /\ e.ask \in Asks /\ e.began <= now /\ e.body = "none"
  BY <1>2 DEF Before, RetryPhase, CredPhase
<1>4. RetryPhase(e)
  BY <1>2, <1>3 DEF RetryPhase
<1>5. CredPhase(e)
  BY <1>2, <1>3 DEF CredPhase
<1>6. QED
  BY <1>1, <1>2, <1>4, <1>5 DEF e, Settled

\* It begins a keychain read.
LEMMA ReadingPhase ==
  ASSUME NEW q, Before(q), now \in Nat, NEW place \in {"token", "key"}
  PROVE  LET e == [q EXCEPT !.at = place, !.clock = now]
         IN  e \in HandlerShape /\ e.at = place /\ RetryPhase(e) /\ CredPhase(e)
<1> DEFINE e == [q EXCEPT !.at = place, !.clock = now]
<1>1. e \in HandlerShape
  BY DEF Before, HandlerShape, Places
<1>2. /\ e.at = place /\ e.ask = q.ask /\ e.answers = q.answers /\ e.attempt = q.attempt
      /\ e.began = q.began /\ e.body = q.body /\ e.clock = now
  BY DEF Before, HandlerShape
<1> HIDE DEF e
<1>3. Len(e.answers) = 0 /\ e.attempt = 0 /\ e.ask \in Asks /\ e.began <= now /\ e.body = "none"
  BY <1>2 DEF Before, RetryPhase, CredPhase
<1>4. RetryPhase(e)
  BY <1>2, <1>3 DEF RetryPhase
<1>5. CredPhase(e)
  BY <1>2, <1>3 DEF CredPhase
<1>6. QED
  BY <1>1, <1>2, <1>4, <1>5 DEF e

\* What a handler hands back says nothing of where it is in the loop.
LEMMA RetryPhaseSame ==
  ASSUME NEW p, NEW q, RetryPhase(p), q.at = p.at, q.ask = p.ask, q.answers = p.answers,
         q.attempt = p.attempt, q.status = p.status, q.wake = p.wake
  PROVE  RetryPhase(q)
  BY DEF RetryPhase, InRetryLoop

LEMMA EndedPhase ==
  ASSUME NEW q, Before(q)
  PROVE  Settled(End(q, 200)) /\ Settled(End(q, 401)) /\ End(q, 200).at = "done"
  BY EndPhase, StatusesHad

LEMMA WithKeyPhase ==
  ASSUME NEW q, Before(q), NEW key \in {"nokey", "key", "envkey"},
         key = "key" => keyHeld > q.began - TTL, key = "envkey" => config.envKey
  PROVE  Settled(WithKey(q, key))
<1>1. WithKey(q, key) \in HandlerShape
  BY WithKeyShape DEF Before
<1>2. CASE q.ask.endpoint = "health"
  <2> DEFINE o == End(q, 200)  e == WithKey(q, key)
  <2>1. o \in HandlerShape /\ o.at = "done" /\ RetryPhase(o) /\ CredPhase(o)
    BY EndedPhase DEF Settled
  <2>2. e = [o EXCEPT !.body = IF key = "nokey" THEN "unavailable" ELSE "available"]
    BY <1>2 DEF WithKey
  <2> HIDE DEF o, e
  <2>3. /\ e.at = "done" /\ e.ask = o.ask /\ e.answers = o.answers /\ e.status = o.status
        /\ e.attempt = o.attempt /\ e.wake = o.wake
        /\ e.began = o.began /\ e.body = IF key = "nokey" THEN "unavailable" ELSE "available"
    BY <2>1, <2>2 DEF HandlerShape
  <2>4. RetryPhase(e)
    BY <2>1, <2>3, RetryPhaseSame
  <2>5. e.began = q.began
    BY <2>3 DEF o, End, Before, HandlerShape
  <2>6. CredPhase(e)
    BY <2>1, <2>3, <2>5 DEF CredPhase
  <2>7. QED
    BY <1>1, <2>3, <2>4, <2>6 DEF e, Settled
<1>3. CASE q.ask.endpoint # "health" /\ key = "nokey"
  BY <1>1, <1>3, EndedPhase DEF WithKey
<1>4. CASE q.ask.endpoint # "health" /\ key # "nokey"
  BY <1>1, <1>4, SendPhase, Distinct DEF WithKey, Credentials
<1>5. QED
  BY <1>2, <1>3, <1>4

LEMMA AnsweredPhase ==
  ASSUME NEW q \in HandlerShape, q.at = "wait", RetryPhase(q), CredPhase(q),
         NEW status \in UpstreamStatuses, ~MayRetry(q, status)
  PROVE  Settled(Answered(q, status))
<1> DEFINE a == [q EXCEPT !.answers = Append(@, status)]
           e == Answered(q, status)
           n == Len(q.answers)
<1>1. /\ q.answers \in Seq(UpstreamStatuses) /\ n = q.attempt /\ n \in 0..Retries
      /\ \A i \in 1..n : q.answers[i] = 429
      /\ n > 0 => InRetryLoop(q)
      /\ status = 429 /\ InRetryLoop(q) => n = Retries
  BY Constants DEF HandlerShape, RetryPhase, MayRetry
<1>2. a \in HandlerShape /\ a.ask = q.ask /\ a.body = q.body /\ a.began = q.began
  <2>1. Append(q.answers, status) \in Seq(UpstreamStatuses)
    BY <1>1, AppendProperties
  <2>2. QED
    BY <2>1 DEF HandlerShape
<1>3. /\ a.answers = Append(q.answers, status)
      /\ Len(a.answers) = n + 1 /\ a.answers[n + 1] = status
      /\ \A i \in 1..n : a.answers[i] = 429
  <2>1. a.answers = Append(q.answers, status)
    BY DEF HandlerShape
  <2>2. QED
    BY <1>1, <2>1, AppendProperties
<1> HIDE DEF a
<1>4. status \in Statuses
  BY DEF Statuses
<1>5. End(a, status) \in HandlerShape /\ End(a, 200) \in HandlerShape
  BY <1>2, <1>4, EndShape, StatusesHad
<1>6. /\ e \in HandlerShape /\ e.at \in {"body", "done"}
      /\ e.answers = a.answers /\ e.status = status /\ e.ask = q.ask /\ e.began = q.began
      /\ e.at = "body" => e.body = "none"
      /\ e.body # "available"
  <2>1. CASE status = 200 /\ a.ask.stream
    <3> DEFINE o == End(a, 200)
    <3>1. e = [o EXCEPT !.at = "body", !.conn = "closed"]
      BY <2>1 DEF Answered, ConnAfterReturn, a
    <3>2. o \in HandlerShape /\ o.answers = a.answers /\ o.status = 200 /\ o.ask = a.ask
          /\ o.began = a.began /\ o.body = a.body
      BY <1>2, <1>5, EndFields, StatusesHad
    <3>3. "body" \in Places /\ a.body = "none"
      BY <1>2 DEF CredPhase, Places
    <3> HIDE DEF o, e
    <3>4. e \in HandlerShape
      BY <3>1, <3>2, <3>3 DEF HandlerShape
    <3>5. /\ e.at = "body" /\ e.answers = o.answers /\ e.status = o.status /\ e.ask = o.ask
          /\ e.began = o.began /\ e.body = o.body
      BY <3>1, <3>2 DEF HandlerShape
    <3>6. status = 200
      BY <2>1
    <3>7. QED
      BY <1>2, <3>2, <3>3, <3>4, <3>5, <3>6
  <2>2. CASE ~(status = 200 /\ a.ask.stream)
    <3> DEFINE o == End(a, status)
    <3>1. e = [o EXCEPT !.body = "whole"]
      BY <2>2 DEF Answered, a
    <3>2. o \in HandlerShape /\ o.answers = a.answers /\ o.status = status /\ o.ask = a.ask
          /\ o.began = a.began /\ o.at = "done"
      BY <1>2, <1>4, <1>5, EndFields
    <3>3. "whole" \in Bodies
      BY DEF Bodies
    <3> HIDE DEF o, e
    <3>4. e \in HandlerShape
      BY <3>1, <3>2, <3>3, BodyShape
    <3>5. /\ e.at = o.at /\ e.answers = o.answers /\ e.status = o.status /\ e.ask = o.ask
          /\ e.began = o.began /\ e.body = "whole"
      BY <3>1, <3>2 DEF HandlerShape
    <3>6. QED
      BY <1>2, <3>2, <3>4, <3>5
  <2>3. QED
    BY <2>1, <2>2
<1> HIDE DEF e
<1>7. RetryPhase(e)
  <2>1. Len(e.answers) = n + 1 /\ n + 1 \in 1..(Retries + 1) /\ e.answers[n + 1] = status
    BY <1>1, <1>3, <1>6, Constants
  <2>2. \A i \in 1..n : e.answers[i] = 429
    BY <1>3, <1>6
  <2>3. e.ask \in Asks /\ (n > 0 => InRetryLoop(e)) /\ (status = 429 /\ InRetryLoop(e) => n = Retries)
    BY <1>1, <1>6 DEF RetryPhase, InRetryLoop
  <2> HIDE DEF n
  <2>4. QED
    BY <1>1, <1>6, <2>1, <2>2, <2>3, Constants DEF RetryPhase
<1>8. CredPhase(e)
  BY <1>6 DEF CredPhase
<1>9. QED
  BY <1>6, <1>7, <1>8 DEF e, Settled

\* Every action preserves the invariant.
LEMMA NextIInv == IInv /\ [Next]_vars => IInv'
<1> SUFFICES ASSUME IInv, [Next]_vars PROVE IInv'
  OBVIOUS
<1>0. /\ TypeOK /\ CachesRecent /\ req \in [Requests -> HandlerShape]
      /\ now \in 0..MaxTime /\ tokenHeld \in [Tokens -> Int] /\ keyHeld \in Int
      /\ tokenCache \in [token : Tokens \cup {None}, expires : Nat]
      /\ keyCache \in [key : {None, "nokey", "key", "envkey"}, expires : Nat]
      /\ vault \in [token : Tokens \cup {None}, key : BOOLEAN, changes : 0..MaxChanges]
      /\ \A r \in Requests : req[r] \in HandlerShape /\ RetryPhase(req[r]) /\ CredPhase(req[r])
      /\ \A r \in Requests : req[r].at \in {"token", "key"} <=> loop = r
  BY DEF IInv, TypeOK
\* A handler that keeps its hands off the caches.
<1>a. ASSUME NEW r \in Requests, NEW q \in HandlerShape, UNCHANGED <<world, config, caches>>,
             loop \in {None, r}, req' = [req EXCEPT ![r] = q], RetryPhase(q), CredPhase(q),
             loop' = IF q.at \in {"token", "key"} THEN r ELSE None
      PROVE  IInv'
  <2>1. CachesRecent'
    BY <1>0, <1>a, CachesStay
  <2>2. /\ tokenCache' \in [token : Tokens \cup {None}, expires : Nat]
        /\ keyCache' \in [key : {None, "nokey", "key", "envkey"}, expires : Nat]
    BY <1>0, <1>a DEF caches
  <2>3. QED
    BY <1>a, <2>1, <2>2, HandlerStep
\* The loop is free for a handler that is in no keychain read.
<1>b. ASSUME NEW r \in Requests, NEW place, place \notin {"token", "key"}, At(r, place)
      PROVE  loop = None
  BY <1>0, <1>b DEF At
\* It gives the loop back.
<1>c. ASSUME NEW r \in Requests, NEW q, Settled(q), UNCHANGED <<world, config, caches>>,
             loop \in {None, r}, loop' = None, req' = [req EXCEPT ![r] = q]
      PROVE  IInv'
  BY <1>a, <1>c DEF Settled
\* It needs nothing of the keychain for what it sends.
<1>d. ASSUME NEW q, Before(q), NEW cred, cred \in {"none", "client", "envkey"}
      PROVE  Settled(Send(q, cred))
  <2>1. cred \in Credentials /\ cred \notin Tokens /\ cred # "key"
    BY <1>d, Distinct DEF Credentials
  <2>2. QED
    BY <1>d, <2>1, SendPhase
<1>1. ASSUME NEW r \in Requests, NEW a \in Asks, Refuse(r, a) PROVE IInv'
  <2>1. loop = None
    BY <1>1, <1>b DEF Refuse
  <2>2. Settled(End(Started(a), 400))
    BY StartedPhase, EndPhase, StatusesHad
  <2>3. QED
    BY <1>1, <1>c, <2>1, <2>2 DEF Refuse
<1>2. ASSUME NEW r \in Requests, NEW a \in Asks, RouteLocal(r, a) PROVE IInv'
  <2>1. loop = None
    BY <1>2, <1>b DEF RouteLocal, Starts
  <2>2. Settled(Send(Started(a), "none"))
    BY <1>d, StartedPhase
  <2>3. QED
    BY <1>2, <1>c, <2>1, <2>2 DEF RouteLocal
<1>3. ASSUME NEW r \in Requests, NEW a \in Asks, RouteUpstream(r, a) PROVE IInv'
  <2> DEFINE cred == UpstreamCredential(a)
             q == IF cred = None THEN End(Started(a), 500) ELSE Send(Started(a), cred)
  <2>1. loop = None
    BY <1>3, <1>b DEF RouteUpstream, Starts
  <2>2. cred = None \/ cred \in {"none", "client", "envkey"}
    BY DEF UpstreamCredential
  <2>3. Settled(End(Started(a), 500))
    BY StartedPhase, EndPhase, StatusesHad
  <2>4. Settled(q)
    BY <1>d, <2>2, <2>3, StartedPhase
  <2>5. req' = [req EXCEPT ![r] = q] /\ UNCHANGED <<world, config, caches, loop>>
    BY <1>3 DEF RouteUpstream
  <2> HIDE DEF q
  <2>6. QED
    BY <1>c, <2>1, <2>4, <2>5
<1>4. ASSUME NEW r \in Requests, NEW a \in Asks, SubscriptionByKey(r, a) PROVE IInv'
  <2> DEFINE q == IF config.envKey THEN Send(Started(a), "envkey") ELSE End(Started(a), 500)
  <2>1. loop = None
    BY <1>4, <1>b DEF SubscriptionByKey, Starts
  <2>2. Settled(End(Started(a), 500)) /\ Settled(Send(Started(a), "envkey"))
    BY <1>d, StartedPhase, EndPhase, StatusesHad
  <2>3. req' = [req EXCEPT ![r] = q] /\ UNCHANGED <<world, config, caches, loop>>
    BY <1>4 DEF SubscriptionByKey
  <2>4. Settled(q)
    BY <2>2
  <2> HIDE DEF q
  <2>5. QED
    BY <1>c, <2>1, <2>3, <2>4
<1>5. ASSUME NEW r \in Requests, NEW a \in Asks, SubscriptionToken(r, a) PROVE IInv'
  <2>1. Before(Started(a)) /\ Started(a).began = now /\ now \in Nat
    BY StartedPhase
  <2>2. loop = None /\ UNCHANGED <<world, config, caches>>
    BY <1>5, <1>b DEF SubscriptionToken, Starts
  <2>3. CASE TokenFresh
    <3> DEFINE t == tokenCache.token
    <3>1. t \in Tokens /\ t \in Credentials /\ t # "key" /\ now < tokenCache.expires
      BY <1>0, <2>3, Distinct DEF TokenFresh, Credentials
    <3>2. tokenHeld[t] > now - TTL
      BY <1>0, <2>1, <3>1, Constants, Distinct DEF CachesRecent
    <3>3. Settled(Send(Started(a), t))
      BY <2>1, <3>1, <3>2, SendPhase
    <3>4. req' = [req EXCEPT ![r] = Send(Started(a), t)] /\ loop' = None
      BY <1>5, <2>2, <2>3 DEF SubscriptionToken
    <3> HIDE DEF t
    <3>5. QED
      BY <1>c, <2>2, <3>3, <3>4
  <2>4. CASE ~TokenFresh
    <3> DEFINE q == Started(a)  e == [q EXCEPT !.at = "token", !.clock = now]
    <3>1. e \in HandlerShape /\ e.at = "token" /\ RetryPhase(e) /\ CredPhase(e)
      BY <2>1, ReadingPhase
    <3>2. req' = [req EXCEPT ![r] = e] /\ loop' = r
      BY <1>5, <2>4 DEF SubscriptionToken
    <3> HIDE DEF e
    <3>3. QED
      BY <1>a, <2>2, <3>1, <3>2
  <2>5. QED
    BY <2>3, <2>4
\* A handler that comes back from the keychain.
<1>f. ASSUME NEW r \in Requests, NEW place \in {"token", "key"}, At(r, place)
      PROVE  /\ Before(req[r]) /\ loop = r
             /\ req[r].clock \in Nat /\ req[r].began \in Nat /\ now \in Nat
             /\ req[r].clock <= now /\ req[r].began <= now /\ TTL \in Nat \ {0}
  <2>1. req[r].at = place /\ loop = r /\ req[r] \in HandlerShape /\ RetryPhase(req[r]) /\ CredPhase(req[r])
    BY <1>0, <1>f DEF At
  <2>2. req[r].ask \in Asks
    BY <2>1 DEF RetryPhase
  <2>3. req[r].clock <= now /\ req[r].began <= now
    BY <2>1 DEF CredPhase
  <2>4. req[r].clock \in Nat /\ req[r].began \in Nat
    BY <2>1 DEF HandlerShape
  <2>5. now \in Nat /\ TTL \in Nat \ {0}
    BY <1>0, Constants
  <2>6. QED
    BY <2>1, <2>2, <2>3, <2>4, <2>5 DEF Before
<1>6. ASSUME NEW r \in Requests, StoreToken(r) PROVE IInv'
  <2> DEFINE q == req[r]  t == vault.token
  <2>1. Before(q) /\ loop = r /\ q.clock \in Nat /\ q.began \in Nat /\ now \in Nat
        /\ q.clock <= now /\ q.began <= now /\ TTL \in Nat \ {0}
    BY <1>6, <1>f DEF StoreToken
  <2>2. t \in Tokens /\ t \in Credentials /\ t # "key" /\ tokenHeld[t] = now
    BY <1>0, <1>6, Distinct DEF StoreToken, Credentials, CachesRecent
  <2>3. tokenHeld[t] > q.began - TTL
    BY <2>1, <2>2
  <2>4. Settled(Send(q, t))
    BY <2>1, <2>2, <2>3, SendPhase
  <2>5. /\ req' = [req EXCEPT ![r] = Send(q, t)] /\ loop' = None
        /\ tokenCache' = [token |-> t, expires |-> q.clock + TTL]
        /\ UNCHANGED <<world, config, keyCache>>
    BY <1>0, <1>6 DEF StoreToken
  <2>6. tokenCache' \in [token : Tokens \cup {None}, expires : Nat]
    BY <2>1, <2>2, <2>5
  <2>7. tokenCache'.expires <= tokenHeld[t] + TTL
    BY <2>1, <2>2, <2>5
  <2>8. CachesRecent'
    BY <1>0, <2>5, <2>7 DEF CachesRecent, world
  <2> HIDE DEF q, t
  <2>9. QED
    BY <1>0, <2>1, <2>4, <2>5, <2>6, <2>8, HandlerStep DEF Settled
<1>7. ASSUME NEW r \in Requests, NoToken(r) PROVE IInv'
  <2>1. Before(req[r]) /\ loop = r
    BY <1>7, <1>f DEF NoToken
  <2>2. Settled(End(req[r], 500))
    BY <2>1, EndPhase, StatusesHad
  <2>3. req' = [req EXCEPT ![r] = End(req[r], 500)] /\ loop' = None /\ UNCHANGED <<world, config, caches>>
    BY <1>0, <1>7 DEF NoToken
  <2>4. QED
    BY <1>c, <2>1, <2>2, <2>3
<1>8. ASSUME NEW r \in Requests, NEW a \in Asks, NeedKey(r, a) PROVE IInv'
  <2>1. Before(Started(a)) /\ Started(a).began = now /\ now \in Nat
    BY StartedPhase
  <2>2. loop = None /\ UNCHANGED <<world, config, caches>>
    BY <1>8, <1>b DEF NeedKey, Starts
  <2>3. CASE KeyFresh
    <3> DEFINE k == keyCache.key
    <3>1. k \in {"nokey", "key", "envkey"} /\ now < keyCache.expires /\ keyCache.expires \in Nat
      BY <1>0, <2>3, Distinct DEF KeyFresh
    <3>2. (k = "envkey" => config.envKey) /\ (k = "key" => keyHeld > now - TTL)
      BY <1>0, <2>1, <3>1, Constants DEF CachesRecent
    <3>3. Settled(WithKey(Started(a), k))
      BY <2>1, <3>1, <3>2, WithKeyPhase
    <3>4. req' = [req EXCEPT ![r] = WithKey(Started(a), k)] /\ loop' = None
      BY <1>8, <2>2, <2>3 DEF NeedKey
    <3> HIDE DEF k
    <3>5. QED
      BY <1>c, <2>2, <3>3, <3>4
  <2>4. CASE ~KeyFresh
    <3> DEFINE q == Started(a)  e == [q EXCEPT !.at = "key", !.clock = now]
    <3>1. e \in HandlerShape /\ e.at = "key" /\ RetryPhase(e) /\ CredPhase(e)
      BY <2>1, ReadingPhase
    <3>2. req' = [req EXCEPT ![r] = e] /\ loop' = r
      BY <1>8, <2>4 DEF NeedKey
    <3> HIDE DEF e
    <3>3. QED
      BY <1>a, <2>2, <3>1, <3>2
  <2>5. QED
    BY <2>3, <2>4
<1>9. ASSUME NEW r \in Requests, StoreKey(r) PROVE IInv'
  <2> DEFINE q == req[r]
  <2>1. Before(q) /\ loop = r /\ q.clock \in Nat /\ q.began \in Nat /\ now \in Nat
        /\ q.clock <= now /\ q.began <= now /\ TTL \in Nat \ {0}
    BY <1>9, <1>f DEF StoreKey
  <2>2. PICK key \in KeysRead : /\ keyCache' = [key |-> key, expires |-> q.clock + TTL]
                                /\ req' = [req EXCEPT ![r] = WithKey(q, key)]
    BY <1>0, <1>9 DEF StoreKey
  <2>3. loop' = None /\ UNCHANGED <<world, config, tokenCache>>
    BY <1>9 DEF StoreKey
  <2>4. /\ key \in {"nokey", "key", "envkey"}
        /\ (key = "envkey" => config.envKey) /\ (key = "key" => keyHeld = now)
    BY <1>0, <2>2 DEF KeysRead, CachesRecent
  <2>5. key = "key" => keyHeld > q.began - TTL
    BY <2>1, <2>4
  <2>6. Settled(WithKey(q, key))
    BY <2>1, <2>4, <2>5, WithKeyPhase
  <2>7. keyCache' \in [key : {None, "nokey", "key", "envkey"}, expires : Nat]
    BY <2>1, <2>2, <2>4
  <2>8. key = "key" => keyCache'.expires <= keyHeld + TTL
    BY <2>1, <2>2, <2>4
  <2>9. CachesRecent'
    BY <1>0, <2>2, <2>3, <2>4, <2>8 DEF CachesRecent, world
  <2> HIDE DEF q
  <2>10. QED
    BY <1>0, <2>1, <2>2, <2>3, <2>6, <2>7, <2>9, HandlerStep DEF Settled
\* The upstream answers, and no retry is due.
<1>g. ASSUME NEW r \in Requests, NEW status \in UpstreamStatuses, At(r, "wait"), ~MayRetry(req[r], status),
             req' = [req EXCEPT ![r] = Answered(@, status)], UNCHANGED <<world, config, caches, loop>>
      PROVE  IInv'
  <2>1. loop = None
    BY <1>b, <1>g
  <2>2. Settled(Answered(req[r], status))
    BY <1>0, <1>g, AnsweredPhase DEF At
  <2>3. req' = [req EXCEPT ![r] = Answered(req[r], status)]
    BY <1>0, <1>g
  <2>4. QED
    BY <1>c, <1>g, <2>1, <2>2, <2>3
<1>10. ASSUME NEW r \in Requests, NEW status \in UpstreamStatuses,
              LocalAnswer(r, status) \/ UpstreamAnswer(r, status)
       PROVE  IInv'
  <2>1. ~MayRetry(req[r], status)
    BY <1>10 DEF LocalAnswer, UpstreamAnswer, MayRetry, InRetryLoop
  <2>2. QED
    BY <1>10, <1>g, <2>1 DEF LocalAnswer, UpstreamAnswer
<1>11. ASSUME NEW r \in Requests, NEW status \in UpstreamStatuses, ForwardAnswer(r, status) PROVE IInv'
  BY <1>11, <1>g DEF ForwardAnswer
<1>12. ASSUME NEW r \in Requests, NEW retryAfter \in RetryAfters, BackOff(r, retryAfter) PROVE IInv'
  <2> DEFINE q == req[r]  n == Len(q.answers)
             d == RetryDelay(q.attempt, retryAfter)
             answers == Append(q.answers, 429)
             e == [q EXCEPT !.at = "sleep", !.conn = "closed", !.answers = answers, !.wake = now + d]
  <2>1. loop = None
    BY <1>12, <1>b DEF BackOff
  <2>2. /\ q \in HandlerShape /\ q.at = "wait" /\ q.ask \in Asks /\ InRetryLoop(q) /\ q.attempt < Retries
        /\ n = q.attempt /\ \A i \in 1..n : q.answers[i] = 429
        /\ q.began <= now /\ q.body = "none"
        /\ (q.cred \in Tokens => tokenHeld[q.cred] > q.began - TTL)
        /\ (q.cred = "key" => keyHeld > q.began - TTL)
    BY <1>0, <1>12 DEF BackOff, At, MayRetry, RetryPhase, CredPhase
  <2>3. q.attempt \in Nat /\ q.answers \in Seq(UpstreamStatuses) /\ now \in Nat
    BY <1>0, <2>2, Constants DEF HandlerShape
  <2>4. retryAfter \in Int \cup {None}
    BY Constants DEF RetryAfters
  <2>5. d \in Nat /\ d <= MaxDelay
    BY <2>3, <2>4, RetryDelayIsClamped
  <2>6. 429 \in UpstreamStatuses /\ "sleep" \in Places
    BY DEF UpstreamStatuses, Places
  <2>7. /\ answers \in Seq(UpstreamStatuses)
        /\ Len(answers) = n + 1
        /\ \A i \in 1..(n + 1) : answers[i] = 429
    BY <2>2, <2>3, <2>6, AppendProperties
  <2>10. req' = [req EXCEPT ![r] = e] /\ UNCHANGED <<world, config, caches, loop>>
    BY <1>12 DEF BackOff
  <2> HIDE DEF d, q, answers
  <2>8. e \in HandlerShape
    <3>1. now + d \in Nat
      BY <2>3, <2>5
    <3>2. QED
      BY <2>2, <2>7, <3>1, SleepShape
  <2>9. /\ e.at = "sleep" /\ e.ask = q.ask /\ e.answers = answers /\ e.attempt = q.attempt
        /\ e.began = q.began /\ e.body = q.body /\ e.cred = q.cred /\ e.wake = now + d
    BY <2>2 DEF HandlerShape
  <2> HIDE DEF e, n
  <2>11. RetryPhase(e)
    <3>1. Len(e.answers) = e.attempt + 1 /\ e.attempt < Retries /\ e.ask \in Asks /\ InRetryLoop(e)
      BY <2>2, <2>7, <2>9 DEF InRetryLoop
    <3>2. \A i \in 1..Len(e.answers) : e.answers[i] = 429
      BY <2>7, <2>9
    <3>3. e.wake <= now + MaxDelay
      BY <2>3, <2>5, <2>9, Constants
    <3>4. QED
      BY <2>9, <3>1, <3>2, <3>3 DEF RetryPhase
  <2>12. CredPhase(e)
    BY <2>2, <2>9 DEF CredPhase
  <2>13. QED
    BY <1>c, <2>1, <2>8, <2>9, <2>10, <2>11, <2>12 DEF Settled
<1>13. ASSUME NEW r \in Requests, UpstreamFails(r) PROVE IInv'
  <2> DEFINE q == req[r]  e == End(q, 500)
  <2>1. loop = None
    BY <1>13, <1>b DEF UpstreamFails
  <2>2. q \in HandlerShape /\ q.at = "wait" /\ RetryPhase(q) /\ CredPhase(q)
    BY <1>0, <1>13 DEF UpstreamFails, At
  <2>3. /\ e \in HandlerShape /\ e.at = "done" /\ e.status = 500 /\ e.ask = q.ask
        /\ e.answers = q.answers /\ e.began = q.began /\ e.body = q.body
    <3> HIDE DEF q
    <3>1. 500 \in Statuses
      BY StatusesHad
    <3>2. e \in HandlerShape
      BY <2>2, <3>1, EndShape
    <3>3. QED
      BY <2>2, <3>1, <3>2, EndFields
  <2>4. req' = [req EXCEPT ![r] = e] /\ UNCHANGED <<world, config, caches, loop>>
    BY <1>13 DEF UpstreamFails
  <2>5. Len(q.answers) = q.attempt /\ q.attempt \in 0..Retries
    BY <2>2 DEF RetryPhase, HandlerShape
  <2> HIDE DEF q, e
  <2>6. RetryPhase(e)
    BY <2>2, <2>3, <2>5, Constants DEF RetryPhase, InRetryLoop
  <2>7. CredPhase(e)
    BY <2>2, <2>3 DEF CredPhase
  <2>8. QED
    BY <1>c, <2>1, <2>3, <2>4, <2>6, <2>7 DEF Settled
<1>14. ASSUME NEW r \in Requests, NextAttempt(r) PROVE IInv'
  <2> DEFINE q == req[r]
             e == [q EXCEPT !.at = "wait", !.wake = 0, !.attempt = q.attempt + 1, !.conn = "open"]
  <2>1. loop = None
    BY <1>14, <1>b DEF NextAttempt
  <2>2. q \in HandlerShape /\ q.at = "sleep" /\ RetryPhase(q) /\ CredPhase(q)
    BY <1>0, <1>14 DEF NextAttempt, At
  <2>3. req' = [req EXCEPT ![r] = e] /\ UNCHANGED <<world, config, caches, loop>>
    BY <1>0, <1>14 DEF NextAttempt
  <2>4. q.attempt \in Nat /\ q.attempt < Retries
    BY <2>2, Constants DEF RetryPhase, HandlerShape
  <2>5. q.attempt + 1 \in 0..Retries /\ "wait" \in Places
    BY <2>4, Constants DEF Places
  <2> HIDE DEF q
  <2>6. e \in HandlerShape
    BY <2>2, <2>5 DEF HandlerShape
  <2>7. /\ e.at = "wait" /\ e.ask = q.ask /\ e.answers = q.answers /\ e.attempt = q.attempt + 1
        /\ e.began = q.began /\ e.body = q.body /\ e.cred = q.cred
    BY <2>2 DEF HandlerShape
  <2> HIDE DEF e
  <2>8. RetryPhase(e)
    BY <2>2, <2>7 DEF RetryPhase, InRetryLoop
  <2>9. CredPhase(e)
    BY <2>2, <2>7 DEF CredPhase
  <2>10. QED
    BY <1>c, <2>1, <2>3, <2>6, <2>7, <2>8, <2>9 DEF Settled
<1>15. ASSUME NEW r \in Requests, StreamBody(r) PROVE IInv'
  <2> DEFINE q == req[r]
             body == IF Readable(q) THEN "whole" ELSE "cut"
             e == [q EXCEPT !.at = "done", !.body = body, !.conn = "closed"]
  <2>1. loop = None
    BY <1>15, <1>b DEF StreamBody
  <2>2. q \in HandlerShape /\ q.at = "body" /\ RetryPhase(q) /\ CredPhase(q)
    BY <1>0, <1>15 DEF StreamBody, At
  <2>3. req' = [req EXCEPT ![r] = e] /\ UNCHANGED <<world, config, caches, loop>>
    BY <1>0, <1>15 DEF StreamBody
  <2>4. body \in Bodies /\ body # "available" /\ "done" \in Places
    BY DEF Bodies, Places
  <2> HIDE DEF q, body
  <2>5. e \in HandlerShape
    BY <2>2, <2>4 DEF HandlerShape
  <2>6. /\ e.at = "done" /\ e.ask = q.ask /\ e.answers = q.answers /\ e.attempt = q.attempt
        /\ e.began = q.began /\ e.body = body /\ e.status = q.status
    BY <2>2 DEF HandlerShape
  <2> HIDE DEF e
  <2>7. RetryPhase(e)
    BY <2>2, <2>6 DEF RetryPhase, InRetryLoop
  <2>8. CredPhase(e)
    BY <2>2, <2>4, <2>6 DEF CredPhase
  <2>9. QED
    BY <1>c, <2>1, <2>3, <2>5, <2>6, <2>7, <2>8 DEF Settled
\* The world moves on: no handler and no cache does.
<1>h. ASSUME UNCHANGED <<config, caches, loop, req>>, CachesRecent',
             now' \in 0..MaxTime, now <= now',
             vault' \in [token : Tokens \cup {None}, key : BOOLEAN, changes : 0..MaxChanges],
             tokenHeld' \in [Tokens -> Int], keyHeld' \in Int, keyHeld <= keyHeld',
             \A t \in Tokens : tokenHeld[t] <= tokenHeld'[t]
      PROVE  IInv'
  <2>1. TypeOK'
    BY <1>0, <1>h DEF TypeOK, caches
  <2>2. ASSUME NEW r \in Requests PROVE RetryPhase(req[r])'
    <3>1. req[r].wake \in Nat /\ RetryPhase(req[r]) /\ req'[r] = req[r]
      BY <1>0, <1>h DEF HandlerShape
    <3>2. req[r].wake <= now + MaxDelay => req[r].wake <= now' + MaxDelay
      BY <1>0, <1>h, <3>1, Constants
    <3>3. QED
      BY <3>1, <3>2 DEF RetryPhase, InRetryLoop
  <2>3. ASSUME NEW r \in Requests PROVE CredPhase(req[r])'
    <3>1. /\ req[r].began \in Nat /\ req[r].clock \in Nat /\ CredPhase(req[r])
          /\ req'[r] = req[r] /\ config' = config
      BY <1>0, <1>h DEF HandlerShape
    <3>2. req[r].began <= now => req[r].began <= now'
      BY <1>0, <1>h, <3>1, Constants
    <3>3. req[r].clock <= now => req[r].clock <= now'
      BY <1>0, <1>h, <3>1, Constants
    <3>4. \A t \in Tokens : tokenHeld[t] > req[r].began - TTL => tokenHeld'[t] > req[r].began - TTL
      BY <1>0, <1>h, <3>1, Constants
    <3>5. keyHeld > req[r].began - TTL => keyHeld' > req[r].began - TTL
      BY <1>0, <1>h, <3>1, Constants
    <3>6. QED
      BY <3>1, <3>2, <3>3, <3>4, <3>5 DEF CredPhase
  <2>4. QED
    BY <1>h, <2>1, <2>2, <2>3 DEF IInv
<1>16. ASSUME Tick PROVE IInv'
  <2>1. now' = now + 1 /\ now' \in 0..MaxTime /\ now <= now' /\ now \in Nat
    BY <1>0, <1>16, Constants DEF Tick
  <2>2. /\ UNCHANGED <<vault, config, caches, loop, req>>
        /\ tokenHeld' = [t \in Tokens |-> IF vault.token = t THEN now + 1 ELSE tokenHeld[t]]
        /\ keyHeld' = IF vault.key THEN now + 1 ELSE keyHeld
    BY <1>16 DEF Tick
  <2>3. /\ tokenHeld' \in [Tokens -> Int] /\ keyHeld' \in Int
        /\ keyHeld <= keyHeld' /\ keyHeld' <= now'
        /\ \A t \in Tokens : tokenHeld[t] <= tokenHeld'[t] /\ tokenHeld'[t] <= now'
    BY <1>0, <2>1, <2>2 DEF CachesRecent
  <2>4. /\ vault'.token # None => tokenHeld'[vault'.token] = now'
        /\ vault'.key => keyHeld' = now'
    BY <1>0, <2>1, <2>2
  <2>5. /\ tokenCache.token # None => tokenCache.expires <= tokenHeld'[tokenCache.token] + TTL
        /\ keyCache.key = "key" => keyCache.expires <= keyHeld' + TTL
    BY <1>0, <2>3, Constants DEF CachesRecent
  <2>6. CachesRecent'
    BY <1>0, <2>2, <2>3, <2>4, <2>5 DEF CachesRecent, caches
  <2>7. QED
    BY <1>0, <1>h, <2>1, <2>2, <2>3, <2>6
<1>17. ASSUME NEW t \in Tokens \cup {None}, Rotate(t) PROVE IInv'
  <2>1. /\ UNCHANGED <<now, keyHeld, config, caches, loop, req>>
        /\ vault' = [vault EXCEPT !.token = t, !.changes = @ + 1] /\ vault.changes < MaxChanges
        /\ tokenHeld' = IF t = None THEN tokenHeld ELSE [tokenHeld EXCEPT ![t] = now]
    BY <1>17 DEF Rotate
  <2>2. vault' \in [token : Tokens \cup {None}, key : BOOLEAN, changes : 0..MaxChanges]
    <3>1. vault.changes + 1 \in 0..MaxChanges
      BY <1>0, <2>1, Constants
    <3>2. QED
      BY <1>0, <1>17, <2>1, <3>1
  <2>3. vault'.token = t /\ vault'.key = vault.key
    BY <1>0, <2>1
  <2>4. now \in Nat /\ now' = now /\ now <= now' /\ keyHeld' = keyHeld /\ keyHeld <= keyHeld'
    BY <1>0, <2>1, Constants
  <2>5. /\ tokenHeld' \in [Tokens -> Int]
        /\ \A s \in Tokens : tokenHeld[s] <= tokenHeld'[s] /\ tokenHeld'[s] <= now
        /\ t # None => tokenHeld'[t] = now
    BY <1>0, <2>1, <2>4 DEF CachesRecent
  <2>6. tokenCache.token # None => tokenCache.expires <= tokenHeld'[tokenCache.token] + TTL
    BY <1>0, <2>5, Constants DEF CachesRecent
  <2>7. CachesRecent'
    BY <1>0, <2>1, <2>3, <2>4, <2>5, <2>6 DEF CachesRecent, caches
  <2>8. QED
    BY <1>0, <1>h, <2>1, <2>2, <2>4, <2>5, <2>7
<1>18. ASSUME ToggleKey PROVE IInv'
  <2>1. /\ UNCHANGED <<now, tokenHeld, config, caches, loop, req>>
        /\ vault' = [vault EXCEPT !.key = ~@, !.changes = @ + 1] /\ vault.changes < MaxChanges
        /\ keyHeld' = IF vault.key THEN keyHeld ELSE now
    BY <1>18 DEF ToggleKey
  <2>2. vault' \in [token : Tokens \cup {None}, key : BOOLEAN, changes : 0..MaxChanges]
    <3>1. vault.changes + 1 \in 0..MaxChanges
      BY <1>0, <2>1, Constants
    <3>2. (~vault.key) \in BOOLEAN
      OBVIOUS
    <3>3. QED
      BY <1>0, <2>1, <3>1, <3>2
  <2>3. vault'.token = vault.token /\ vault'.key = ~vault.key
    BY <1>0, <2>1
  <2>4. now \in Nat /\ now' = now /\ tokenHeld' = tokenHeld
    BY <1>0, <2>1, Constants
  <2>5. keyHeld' \in Int /\ keyHeld <= keyHeld' /\ keyHeld' <= now /\ (~vault.key => keyHeld' = now)
    BY <1>0, <2>1, <2>4 DEF CachesRecent
  <2>6. keyCache.key = "key" => keyCache.expires <= keyHeld' + TTL
    BY <1>0, <2>5, Constants DEF CachesRecent
  <2>7. CachesRecent'
    BY <1>0, <2>1, <2>3, <2>4, <2>5, <2>6 DEF CachesRecent, caches
  <2>8. QED
    BY <1>0, <1>h, <2>1, <2>2, <2>4, <2>5, <2>7
<1>19. CASE UNCHANGED vars
  <2>1. UNCHANGED <<now, vault, tokenHeld, keyHeld, config, caches, loop, req>>
    BY <1>19 DEF vars, world
  <2>2. CachesRecent'
    BY <1>0, <2>1 DEF CachesRecent, caches
  <2>3. /\ now' \in 0..MaxTime /\ now <= now' /\ tokenHeld' \in [Tokens -> Int] /\ keyHeld' \in Int
        /\ vault' \in [token : Tokens \cup {None}, key : BOOLEAN, changes : 0..MaxChanges]
    BY <1>0, <2>1
  <2>4. keyHeld <= keyHeld' /\ \A t \in Tokens : tokenHeld[t] <= tokenHeld'[t]
    BY <1>0, <2>1
  <2>5. QED
    BY <1>h, <2>1, <2>2, <2>3, <2>4
<1>20. ASSUME NEW r \in Requests, Handler(r) PROVE IInv'
  BY <1>1, <1>2, <1>3, <1>4, <1>5, <1>6, <1>7, <1>8, <1>9, <1>14, <1>15, <1>20 DEF Handler
<1>21. ASSUME NEW r \in Requests, Upstream(r) PROVE IInv'
  BY <1>10, <1>11, <1>12, <1>13, <1>21 DEF Upstream
<1>22. QED
  BY <1>16, <1>17, <1>18, <1>19, <1>20, <1>21 DEF Next

----------------------------------------------------------------------------
(* The theorems *)

LEMMA RetryPhaseIsDisciplined ==
  ASSUME IInv
  PROVE  RetryDiscipline
<1> SUFFICES ASSUME NEW r \in Requests
             PROVE  LET q == req[r]  n == Len(q.answers)
                    IN  /\ n <= Retries + 1 /\ (n > 1 => InRetryLoop(q))
                        /\ \A i \in 1..(n - 1) : q.answers[i] = 429
                        /\ q.at = "done" /\ n > 0 => q.status \in {500, q.answers[n]}
                        /\ q.at = "done" /\ q.status = 429 /\ InRetryLoop(q) => n = Retries + 1
                        /\ q.at = "sleep" => q.wake <= now + MaxDelay
  BY DEF RetryDiscipline
<1> DEFINE q == req[r]  n == Len(q.answers)
<1>1. /\ RetryPhase(q) /\ q.at \in Places /\ q.attempt \in 0..Retries
      /\ n \in Nat
  BY DEF IInv, TypeOK, HandlerShape
<1>2. q.at \in {"none", "token", "key", "wait", "sleep", "body", "done"}
  BY <1>1 DEF Places
<1>3. CASE q.at \in {"none", "token", "key"}
  BY <1>1, <1>3, Constants DEF RetryPhase
<1>4. CASE q.at = "wait"
  BY <1>1, <1>4, Constants DEF RetryPhase
<1>5. CASE q.at = "sleep"
  BY <1>1, <1>5, Constants DEF RetryPhase
<1>6. CASE q.at \in {"body", "done"}
  BY <1>1, <1>6, Constants DEF RetryPhase
<1>7. QED
  BY <1>2, <1>3, <1>4, <1>5, <1>6

LEMMA CredPhaseIsRecent ==
  ASSUME IInv
  PROVE  CredentialRecent
<1> SUFFICES ASSUME NEW r \in Requests
             PROVE  LET q == req[r]
                        used == IF q.at = "wait" THEN q.cred
                                ELSE IF q.body = "available" /\ ~config.envKey THEN "key" ELSE "none"
                    IN  /\ used \in Tokens => tokenHeld[used] > q.began - TTL
                        /\ used = "key" => keyHeld > q.began - TTL
  BY DEF CredentialRecent
<1>1. CredPhase(req[r])
  BY DEF IInv
<1>2. QED
  BY <1>1, Distinct DEF CredPhase

\* Every variable of the proxy has its type, and the event loop is blocked by
\* the one handler that is inside a keychain read: two reads never overlap,
\* whatever the number of requests.
THEOREM TypeCorrect == Spec => []TypeOK
<1>1. IInv => TypeOK
  BY DEF IInv
<1>2. QED
  BY <1>1, InitIInv, NextIInv, PTL DEF Spec

\* _forward_messages(): for any RETRY_429_ATTEMPTS, any delays and any header,
\* at most Retries + 1 requests are sent, only a 429 is followed by another, a
\* 429 is handed back only when the budget is spent, and no sleep is longer than
\* RETRY_429_MAX_DELAY.
THEOREM RetriesDisciplined == Spec => []RetryDiscipline
<1>1. QED
  BY RetryPhaseIsDisciplined, InitIInv, NextIInv, PTL DEF Spec

\* The two caches: for any _TOKEN_TTL and reads of any length, what a request
\* leaves with was in the keychain less than a TTL before the request began.
THEOREM CredentialsAreRecent == Spec => []CredentialRecent
<1>1. QED
  BY CredPhaseIsRecent, InitIInv, NextIInv, PTL DEF Spec

=============================================================================
