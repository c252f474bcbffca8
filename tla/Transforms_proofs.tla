--------------------------- MODULE Transforms_proofs ---------------------------
(***************************************************************************)
(* Proofs about what the proxy makes of a request on its way: the store of *)
(* pending requests, for any threads, ids, payloads and ages, and a        *)
(* process that may die between any two steps; the estimate of a request's *)
(* length by any number of workers; what a conversation of any length says *)
(* of its task; the request that the local model gets for it; the streams  *)
(* that the proxy splits, of any length and cut anywhere; and a transcript *)
(* of any length that is compressed on every turn.                         *)
(***************************************************************************)
EXTENDS PendingStore, SizeRouting, TaskTalk, ThinkStream,
        RequestTranslation, Compression, SequenceTheorems, FiniteSetTheorems,
        WellFoundedInduction, TLAPS

----------------------------------------------------------------------------
(* PendingStore *)

CallShape ==
    [op : {"none", "persist", "fail", "sweep"}, id : Ids \cup {None}, body : Bodies \cup {Stub, None},
     at : {"idle", "fill", "replace", "unlink", "lock"}, asked : Nat, left : SUBSET Ids]

\* What a call has done so far, by its operation and its step: its temporary
\* file is whole once it is filled, a failing request is put on record with the
\* payload that waits, and a sweep removes nothing but what is too old.
Persisting(c) ==
    /\ c.id \in Ids /\ c.body \in Bodies /\ c.at \in {"fill", "replace"}
    /\ c.at = "replace" => pendingTmp[c.id].whole /\ pendingTmp[c.id].body = c.body

Failing(c) ==
    /\ c.id \in Ids /\ c.at \in {"fill", "replace", "unlink"}
    /\ c.body = IF Exists(pending[c.id]) THEN pending[c.id].body ELSE Stub
    /\ c.at = "replace" => failedTmp[c.id].whole /\ failedTmp[c.id].body = c.body
    /\ c.at = "unlink" => failed[c.id].body = c.body

Sweeping(c) ==
    /\ c.at \in {"lock", "unlink"}
    /\ c.at = "lock" => c.asked <= clock
    /\ c.at = "unlink" => \A i \in c.left : clock - pending[i].mtime > MaxAge

\* A call is inside the lock but for a sweep that waits for it.
Inside(c) == c.op # "none" /\ c.at # "lock"

CallOK(c) ==
    /\ c.op = "none" => c = Idle
    /\ c.op = "persist" => Persisting(c)
    /\ c.op = "fail" => Failing(c)
    /\ c.op = "sweep" => Sweeping(c)

\* What is owed waits: a request is not taken off the disk before it is let go.
OwedWaits == \A i \in owed : pending[i].body \in Bodies

StoreIInv ==
    /\ StoreTypeOK
    /\ call \in [Threads -> CallShape]
    /\ \A t \in Threads : CallOK(call[t]) /\ (Inside(call[t]) <=> holder = t)
    /\ OwedWaits

----------------------------------------------------------------------------
(* The operators of the model *)

LEMMA StoreConstants ==
  /\ MaxAge \in Nat /\ MaxTime \in Nat /\ None \notin Threads /\ None \notin Bodies
  /\ Stub \notin Bodies /\ Stub # None
  BY StoreAssumption, MaxTimeAssumption

LEMMA FilesAre ==
  /\ NoFile \in Files /\ NoFile.body = None /\ ~Exists(NoFile)
  /\ Torn \in Files /\ Torn.body = Stub
<1>1. 0 \in 0..MaxTime
  BY StoreConstants
<1>2. NoFile \in Files /\ NoFile.body = None
  BY <1>1 DEF NoFile, Files
<1>3. Torn \in Files /\ Torn.body = Stub
  BY <1>1 DEF Torn, NoFile, Files
<1>4. QED
  BY <1>2, <1>3 DEF Exists

LEMMA WrittenFile ==
  ASSUME NEW body \in Bodies \cup {Stub, None}, NEW mtime \in 0..MaxTime
  PROVE  /\ File(body, mtime) \in Files /\ File(body, mtime).body = body
         /\ File(body, mtime).mtime = mtime /\ File(body, mtime).whole
  BY DEF File, Files

LEMMA IdleCall ==
  /\ Idle \in CallShape /\ CallOK(Idle) /\ ~Inside(Idle) /\ Idle.op = "none" /\ Idle.at = "idle"
  /\ Idle.left = {}
  BY DEF Idle, CallShape, CallOK, Inside

\* The call a thread enters an operation with.
Entering(op, i, body) == [Idle EXCEPT !.op = op, !.id = i, !.body = body, !.at = "fill"]

LEMMA EnteringCall ==
  ASSUME NEW op \in {"persist", "fail"}, NEW i \in Ids, NEW body \in Bodies \cup {Stub, None}
  PROVE  /\ Entering(op, i, body) \in CallShape /\ Entering(op, i, body).op = op
         /\ Entering(op, i, body).at = "fill" /\ Entering(op, i, body).id = i
         /\ Entering(op, i, body).body = body
  BY DEF Entering, Idle, CallShape

\* A call moves to its next step.
LEMMA MovedCall ==
  ASSUME NEW c \in CallShape, NEW at \in {"idle", "fill", "replace", "unlink", "lock"}
  PROVE  /\ [c EXCEPT !.at = at] \in CallShape /\ [c EXCEPT !.at = at].at = at
         /\ [c EXCEPT !.at = at].op = c.op /\ [c EXCEPT !.at = at].id = c.id
         /\ [c EXCEPT !.at = at].body = c.body
  BY DEF CallShape

LEMMA StoreFacts ==
  ASSUME StoreIInv
  PROVE  /\ clock \in Nat /\ clock \in 0..MaxTime
         /\ pending \in [Ids -> Files] /\ pendingTmp \in [Ids -> Files]
         /\ failed \in [Ids -> Files] /\ failedTmp \in [Ids -> Files]
         /\ call \in [Threads -> CallShape] /\ holder \in Threads \cup {None} /\ owed \subseteq Ids
         /\ \A i \in Ids : /\ pending[i] \in Files /\ pendingTmp[i] \in Files
                           /\ failed[i] \in Files /\ failedTmp[i] \in Files
                           /\ Exists(pending[i]) => pending[i].whole /\ pending[i].body \in Bodies
                           /\ Exists(failed[i]) => failed[i].whole
         /\ \A t \in Threads : call[t] \in CallShape /\ CallOK(call[t]) /\ (Inside(call[t]) <=> holder = t)
         /\ \A i \in owed : pending[i].body \in Bodies
<1>1. clock \in 0..MaxTime
  BY DEF StoreIInv, StoreTypeOK
<1>2. clock \in Nat
  BY <1>1, StoreConstants
<1>3. QED
  BY <1>1, <1>2 DEF StoreIInv, StoreTypeOK, OwedWaits

----------------------------------------------------------------------------
(* Initial states and steps *)

LEMMA InitStoreIInv == StoreInit => StoreIInv
<1> SUFFICES ASSUME StoreInit PROVE StoreIInv
  OBVIOUS
<1>1. StoreTypeOK
  BY FilesAre, StoreConstants DEF StoreInit, StoreTypeOK
<1>2. call \in [Threads -> CallShape] /\ \A t \in Threads : call[t] = Idle
  BY IdleCall DEF StoreInit
<1>3. ASSUME NEW t \in Threads PROVE CallOK(call[t]) /\ (Inside(call[t]) <=> holder = t)
  BY <1>2, IdleCall, StoreConstants DEF StoreInit
<1>4. QED
  BY <1>1, <1>2, <1>3 DEF StoreIInv, OwedWaits, StoreInit

\* A call outside the lock is idle, or a sweep that waits, and stays so whatever
\* another thread does inside.
LEMMA OutsideStays ==
  ASSUME StoreIInv, NEW u \in Threads, UNCHANGED call[u], ~Inside(call[u]),
         clock' \in Nat, clock <= clock'
  PROVE  CallOK(call[u])' /\ ~Inside(call[u])'
<1>1. call[u] \in CallShape /\ CallOK(call[u]) /\ clock \in Nat
  BY StoreFacts
<1>2. call[u].asked \in Nat /\ call[u].op \in {"none", "persist", "fail", "sweep"}
  BY <1>1 DEF CallShape
<1>3. CASE call[u].op = "none"
  BY <1>1, <1>3 DEF CallOK, Inside
<1>4. CASE call[u].op # "none"
  <2>1. call[u].at = "lock"
    BY <1>4 DEF Inside
  <2>2. call[u].op = "sweep"
    BY <1>1, <1>2, <1>4, <2>1 DEF CallOK, Persisting, Failing
  <2>3. call[u].asked <= clock'
    BY <1>1, <1>2, <2>1, <2>2 DEF CallOK, Sweeping
  <2>4. QED
    BY <2>1, <2>2, <2>3 DEF CallOK, Sweeping, Inside
<1>5. QED
  BY <1>3, <1>4

\* A step of one thread with the lock, or that takes it.
LEMMA LockedStep ==
  ASSUME StoreIInv, NEW t \in Threads, NEW c \in CallShape, call' = [call EXCEPT ![t] = c],
         UNCHANGED clock, holder \in {None, t}, holder' \in {None, t}, Inside(c) <=> holder' = t,
         CallOK(call[t])', StoreTypeOK', OwedWaits'
  PROVE  StoreIInv'
<1>1. call \in [Threads -> CallShape] /\ clock \in Nat
  BY StoreFacts
<1>2. call' \in [Threads -> CallShape] /\ call'[t] = c
  BY <1>1
<1>3. ASSUME NEW u \in Threads PROVE CallOK(call[u])' /\ (Inside(call[u])' <=> holder' = u)
  <2>1. CASE u = t
    <3>1. Inside(call[t])' <=> Inside(c)
      BY <1>2 DEF Inside
    <3>2. QED
      BY <2>1, <3>1
  <2>2. CASE u # t
    <3>1. UNCHANGED call[u] /\ ~Inside(call[u])
      BY <1>1, <2>2, StoreFacts, StoreConstants
    <3>2. CallOK(call[u])' /\ ~Inside(call[u])'
      BY <1>1, <3>1, OutsideStays
    <3>3. QED
      BY <2>2, <3>2, StoreConstants
  <2>3. QED
    BY <2>1, <2>2
<1>4. QED
  BY <1>2, <1>3 DEF StoreIInv

\* The thread that has the lock.
LEMMA InsideHolds ==
  ASSUME StoreIInv, NEW t \in Threads, NEW op \in {"persist", "fail", "sweep"},
         NEW at \in {"fill", "replace", "unlink"}, In(t, op, at)
  PROVE  /\ holder = t /\ call[t] \in CallShape /\ CallOK(call[t])
         /\ call[t].op = op /\ call[t].at = at
         /\ op = "persist" => Persisting(call[t])
         /\ op = "fail" => Failing(call[t])
         /\ op = "sweep" => Sweeping(call[t])
<1>1. call[t].op = op /\ call[t].at = at
  BY DEF In
<1>2. Inside(call[t])
  BY <1>1 DEF Inside
<1>3. QED
  BY <1>1, <1>2, StoreFacts DEF CallOK

\* What an operation may do to the files.
LEMMA FilesStep ==
  ASSUME StoreIInv, UNCHANGED clock,
         pending' \in [Ids -> Files], pendingTmp' \in [Ids -> Files],
         failed' \in [Ids -> Files], failedTmp' \in [Ids -> Files],
         holder' \in Threads \cup {None}, owed' \subseteq Ids,
         \A i \in Ids : \/ UNCHANGED pending[i]
                        \/ pending'[i].whole /\ pending'[i].body \in Bodies
                        \/ pending'[i] = NoFile,
         \A i \in Ids : UNCHANGED failed[i] \/ failed'[i].whole
  PROVE  StoreTypeOK'
<1>1. ASSUME NEW i \in Ids
      PROVE  /\ Exists(pending[i])' => pending'[i].whole /\ pending'[i].body \in Bodies
             /\ Exists(failed[i])' => failed'[i].whole
  BY StoreFacts, FilesAre DEF Exists
<1>2. clock' \in 0..MaxTime
  BY StoreFacts
<1>3. QED
  BY <1>1, <1>2 DEF StoreTypeOK

LEMMA PersistSteps ==
  ASSUME StoreIInv, NEW t \in Threads,
         \/ \E i \in Ids, body \in Bodies : PersistCreate(t, i, body)
         \/ PersistFill(t) \/ PersistReplace(t)
  PROVE  StoreIInv'
<1>0. /\ pending \in [Ids -> Files] /\ pendingTmp \in [Ids -> Files] /\ failed \in [Ids -> Files]
      /\ failedTmp \in [Ids -> Files] /\ owed \subseteq Ids /\ clock \in 0..MaxTime
      /\ holder \in Threads \cup {None} /\ call \in [Threads -> CallShape]
      /\ \A i \in owed : pending[i].body \in Bodies
  BY StoreFacts
<1>1. ASSUME NEW i \in Ids, NEW body \in Bodies, PersistCreate(t, i, body) PROVE StoreIInv'
  <2> DEFINE c == Entering("persist", i, body)
  <2>1. /\ holder = None /\ holder' = t /\ call' = [call EXCEPT ![t] = c]
        /\ pendingTmp' = [pendingTmp EXCEPT ![i] = Torn]
        /\ UNCHANGED <<clock, pending, failed, failedTmp, owed>>
    BY <1>1 DEF PersistCreate, Enters, Enter, Entering
  <2>2. /\ c \in CallShape /\ c.op = "persist" /\ c.at = "fill" /\ c.id = i /\ c.body = body
    BY EnteringCall
  <2> HIDE DEF c
  <2>3. call'[t] = c
    BY <1>0, <2>1
  <2>4. CallOK(call[t])' /\ Inside(c)
    BY <2>2, <2>3 DEF CallOK, Persisting, Inside
  <2>5. StoreTypeOK' /\ OwedWaits'
    BY <1>0, <2>1, FilesAre, FilesStep DEF OwedWaits
  <2>6. QED
    BY <2>1, <2>2, <2>4, <2>5, LockedStep
<1>2. CASE PersistFill(t)
  <2> DEFINE c == [call[t] EXCEPT !.at = "replace"]  f == File(call[t].body, clock)
  <2>1. /\ In(t, "persist", "fill") /\ UNCHANGED holder /\ call' = [call EXCEPT ![t] = c]
        /\ pendingTmp' = [pendingTmp EXCEPT ![call[t].id] = f]
        /\ UNCHANGED <<clock, pending, failed, failedTmp, owed>>
    BY <1>2 DEF PersistFill, Move
  <2>2. holder = t /\ call[t] \in CallShape /\ call[t].op = "persist" /\ Persisting(call[t])
    BY <2>1, InsideHolds
  <2>3. call[t].id \in Ids /\ call[t].body \in Bodies
    BY <2>2 DEF Persisting
  <2>4. f \in Files /\ f.whole /\ f.body = call[t].body
    BY <1>0, <2>3, WrittenFile
  <2> HIDE DEF f
  <2>5. /\ c \in CallShape /\ c.op = "persist" /\ c.at = "replace" /\ c.id = call[t].id /\ c.body = call[t].body
    BY <2>2, MovedCall
  <2> HIDE DEF c
  <2>6. call'[t] = c /\ pendingTmp'[c.id] = f
    BY <1>0, <2>1, <2>3, <2>5
  <2>7. CallOK(call[t])' /\ Inside(c)
    BY <2>3, <2>4, <2>5, <2>6 DEF CallOK, Persisting, Inside
  <2>8. StoreTypeOK' /\ OwedWaits'
    BY <1>0, <2>1, <2>4, FilesStep DEF OwedWaits
  <2>9. QED
    BY <2>1, <2>2, <2>5, <2>7, <2>8, LockedStep
<1>3. CASE PersistReplace(t)
  <2> DEFINE i == call[t].id  f == pendingTmp[i]
  <2>1. /\ In(t, "persist", "replace") /\ holder' = None /\ call' = [call EXCEPT ![t] = Idle]
        /\ pending' = [pending EXCEPT ![i] = f] /\ pendingTmp' = [pendingTmp EXCEPT ![i] = NoFile]
        /\ owed' = owed \cup {i} /\ UNCHANGED <<clock, failed, failedTmp>>
    BY <1>3 DEF PersistReplace, Returns
  <2>2. holder = t /\ call[t] \in CallShape /\ Persisting(call[t]) /\ call[t].at = "replace"
    BY <2>1, InsideHolds
  <2>3. i \in Ids /\ f.whole /\ f.body \in Bodies
    BY <2>2 DEF Persisting
  <2> HIDE DEF i, f
  <2>4. f \in Files
    BY <1>0, <2>3 DEF f
  <2>5. StoreTypeOK' /\ OwedWaits'
    BY <1>0, <2>1, <2>3, <2>4, FilesAre, FilesStep DEF OwedWaits
  <2>6. CallOK(call[t])'
    BY <1>0, <2>1, IdleCall DEF CallOK
  <2>7. QED
    BY <2>1, <2>2, <2>5, <2>6, IdleCall, StoreConstants, LockedStep
<1>4. QED
  BY <1>1, <1>2, <1>3

LEMMA CompleteStep ==
  ASSUME StoreIInv, NEW t \in Threads, NEW i \in Ids, Complete(t, i)
  PROVE  StoreIInv'
<1>0. /\ pending \in [Ids -> Files] /\ pendingTmp \in [Ids -> Files] /\ failed \in [Ids -> Files]
      /\ failedTmp \in [Ids -> Files] /\ owed \subseteq Ids /\ call \in [Threads -> CallShape]
      /\ \A j \in owed : pending[j].body \in Bodies
  BY StoreFacts
<1>1. /\ call[t] = Idle /\ holder = None /\ pending' = [pending EXCEPT ![i] = NoFile]
      /\ owed' = owed \ {i} /\ UNCHANGED <<clock, pendingTmp, failed, failedTmp, call, holder>>
  BY DEF Complete, Enters
<1>2. StoreTypeOK' /\ OwedWaits'
  BY <1>0, <1>1, FilesAre, FilesStep DEF OwedWaits
<1>3. call' = [call EXCEPT ![t] = Idle] /\ CallOK(call[t])'
  BY <1>0, <1>1, IdleCall DEF CallOK
<1>4. QED
  BY <1>1, <1>2, <1>3, IdleCall, StoreConstants, LockedStep

LEMMA FailSteps ==
  ASSUME StoreIInv, NEW t \in Threads,
         \/ \E i \in Ids : FailCreate(t, i)
         \/ FailFill(t) \/ FailReplace(t) \/ FailUnlink(t)
  PROVE  StoreIInv'
<1>0. /\ pending \in [Ids -> Files] /\ pendingTmp \in [Ids -> Files] /\ failed \in [Ids -> Files]
      /\ failedTmp \in [Ids -> Files] /\ owed \subseteq Ids /\ clock \in 0..MaxTime
      /\ holder \in Threads \cup {None} /\ call \in [Threads -> CallShape]
      /\ \A i \in owed : pending[i].body \in Bodies
  BY StoreFacts
<1>1. ASSUME NEW i \in Ids, FailCreate(t, i) PROVE StoreIInv'
  <2> DEFINE body == IF Exists(pending[i]) THEN pending[i].body ELSE Stub
             c == Entering("fail", i, body)
  <2>1. /\ holder = None /\ holder' = t /\ call' = [call EXCEPT ![t] = c]
        /\ failedTmp' = [failedTmp EXCEPT ![i] = Torn]
        /\ UNCHANGED <<clock, pending, pendingTmp, failed, owed>>
    BY <1>1 DEF FailCreate, Enters, Enter, Entering
  <2>2. body \in Bodies \cup {Stub, None}
    BY StoreFacts
  <2>3. /\ c \in CallShape /\ c.op = "fail" /\ c.at = "fill" /\ c.id = i /\ c.body = body
    BY <2>2, EnteringCall
  <2> HIDE DEF c
  <2>4. call'[t] = c
    BY <1>0, <2>1
  <2>5. CallOK(call[t])' /\ Inside(c)
    BY <2>1, <2>3, <2>4 DEF CallOK, Failing, Inside
  <2>6. StoreTypeOK' /\ OwedWaits'
    BY <1>0, <2>1, FilesAre, FilesStep DEF OwedWaits
  <2>7. QED
    BY <2>1, <2>3, <2>5, <2>6, LockedStep
<1>2. CASE FailFill(t)
  <2> DEFINE c == [call[t] EXCEPT !.at = "replace"]  f == File(call[t].body, 0)
  <2>1. /\ In(t, "fail", "fill") /\ UNCHANGED holder /\ call' = [call EXCEPT ![t] = c]
        /\ failedTmp' = [failedTmp EXCEPT ![call[t].id] = f]
        /\ UNCHANGED <<clock, pending, pendingTmp, failed, owed>>
    BY <1>2 DEF FailFill, Move
  <2>2. holder = t /\ call[t] \in CallShape /\ call[t].op = "fail" /\ Failing(call[t])
    BY <2>1, InsideHolds
  <2>3. call[t].id \in Ids /\ call[t].body \in Bodies \cup {Stub, None} /\ 0 \in 0..MaxTime
    BY <2>2, StoreConstants DEF Failing, CallShape
  <2>4. f \in Files /\ f.whole /\ f.body = call[t].body
    BY <2>3, WrittenFile
  <2> HIDE DEF f
  <2>5. /\ c \in CallShape /\ c.op = "fail" /\ c.at = "replace" /\ c.id = call[t].id /\ c.body = call[t].body
    BY <2>2, MovedCall
  <2> HIDE DEF c
  <2>6. call'[t] = c /\ failedTmp'[c.id] = f
    BY <1>0, <2>1, <2>3, <2>5
  <2>7. CallOK(call[t])' /\ Inside(c)
    BY <2>1, <2>2, <2>3, <2>4, <2>5, <2>6 DEF CallOK, Failing, Inside
  <2>8. StoreTypeOK' /\ OwedWaits'
    BY <1>0, <2>1, <2>4, FilesStep DEF OwedWaits
  <2>9. QED
    BY <2>1, <2>2, <2>5, <2>7, <2>8, LockedStep
<1>3. CASE FailReplace(t)
  <2> DEFINE i == call[t].id  f == failedTmp[i]  c == [call[t] EXCEPT !.at = "unlink"]
  <2>1. /\ In(t, "fail", "replace") /\ UNCHANGED holder /\ call' = [call EXCEPT ![t] = c]
        /\ failed' = [failed EXCEPT ![i] = f] /\ failedTmp' = [failedTmp EXCEPT ![i] = NoFile]
        /\ UNCHANGED <<clock, pending, pendingTmp, owed>>
    BY <1>3 DEF FailReplace, Move
  <2>2. holder = t /\ call[t] \in CallShape /\ call[t].op = "fail" /\ Failing(call[t]) /\ call[t].at = "replace"
    BY <2>1, InsideHolds
  <2>3. i \in Ids /\ f.whole /\ f.body = call[t].body
    BY <2>2 DEF Failing
  <2>4. /\ c \in CallShape /\ c.op = "fail" /\ c.at = "unlink" /\ c.id = i /\ c.body = call[t].body
    BY <2>2, MovedCall
  <2> HIDE DEF c
  <2>5. call'[t] = c /\ failed'[i] = f /\ f \in Files
    BY <1>0, <2>1, <2>3
  <2>6. CallOK(call[t])' /\ Inside(c)
    BY <2>1, <2>2, <2>3, <2>4, <2>5 DEF CallOK, Failing, Inside
  <2> HIDE DEF i, f
  <2>7. StoreTypeOK' /\ OwedWaits'
    BY <1>0, <2>1, <2>3, <2>5, FilesAre, FilesStep DEF OwedWaits
  <2>8. QED
    BY <2>1, <2>2, <2>4, <2>6, <2>7, LockedStep
<1>4. CASE FailUnlink(t)
  <2> DEFINE i == call[t].id
  <2>1. /\ In(t, "fail", "unlink") /\ holder' = None /\ call' = [call EXCEPT ![t] = Idle]
        /\ pending' = [pending EXCEPT ![i] = NoFile] /\ owed' = owed \ {i}
        /\ UNCHANGED <<clock, pendingTmp, failed, failedTmp>>
    BY <1>4 DEF FailUnlink, Returns
  <2>2. holder = t /\ i \in Ids
    BY <2>1, InsideHolds DEF Failing
  <2> HIDE DEF i
  <2>3. StoreTypeOK' /\ OwedWaits'
    BY <1>0, <2>1, <2>2, FilesAre, FilesStep DEF OwedWaits
  <2>4. CallOK(call[t])'
    BY <1>0, <2>1, IdleCall DEF CallOK
  <2>5. QED
    BY <2>1, <2>2, <2>3, <2>4, IdleCall, StoreConstants, LockedStep
<1>5. QED
  BY <1>1, <1>2, <1>3, <1>4

LEMMA SweepSteps ==
  ASSUME StoreIInv, NEW t \in Threads,
         SweepAsk(t) \/ SweepList(t) \/ (\E i \in Ids : SweepUnlink(t, i)) \/ SweepEnd(t)
  PROVE  StoreIInv'
<1>0. /\ pending \in [Ids -> Files] /\ pendingTmp \in [Ids -> Files] /\ failed \in [Ids -> Files]
      /\ failedTmp \in [Ids -> Files] /\ owed \subseteq Ids /\ clock \in Nat
      /\ holder \in Threads \cup {None} /\ call \in [Threads -> CallShape]
      /\ \A i \in owed : pending[i].body \in Bodies
      /\ StoreTypeOK /\ OwedWaits
  BY StoreFacts DEF StoreIInv
\* It reads the time and waits for the lock, which another thread may have.
<1>1. CASE SweepAsk(t)
  <2> DEFINE c == [Idle EXCEPT !.op = "sweep", !.at = "lock", !.asked = clock]
  <2>1. /\ call[t] = Idle /\ call' = [call EXCEPT ![t] = c]
        /\ UNCHANGED <<clock, storeFiles, holder, owed>>
    BY <1>0, <1>1 DEF SweepAsk
  <2>2. c \in CallShape /\ c.op = "sweep" /\ c.at = "lock" /\ c.asked = clock
    BY <1>0 DEF Idle, CallShape
  <2> HIDE DEF c
  <2>3. call' \in [Threads -> CallShape] /\ call'[t] = c
    BY <1>0, <2>1, <2>2
  <2>4. StoreTypeOK' /\ OwedWaits'
    BY <1>0, <2>1 DEF storeFiles, StoreTypeOK, OwedWaits
  <2>5. ASSUME NEW u \in Threads PROVE CallOK(call[u])' /\ (Inside(call[u])' <=> holder' = u)
    <3>1. CASE u = t
      <4>1. holder # t
        BY <2>1, IdleCall, StoreFacts
      <4>2. QED
        BY <1>0, <2>1, <2>2, <2>3, <3>1, <4>1 DEF CallOK, Sweeping, Inside
    <3>2. CASE u # t
      <4>1. /\ UNCHANGED <<call[u], clock, pending, pendingTmp, failed, failedTmp, holder>>
            /\ CallOK(call[u]) /\ (Inside(call[u]) <=> holder = u)
        BY <1>0, <2>1, <3>2, StoreFacts DEF storeFiles
      <4>2. QED
        BY <4>1 DEF CallOK, Persisting, Failing, Sweeping, Inside
    <3>3. QED
      BY <3>1, <3>2
  <2>6. QED
    BY <2>3, <2>4, <2>5 DEF StoreIInv
<1>2. CASE SweepList(t)
  <2> DEFINE old == {i \in Ids : Stale(i, call[t].asked)}
             c == [call[t] EXCEPT !.at = "unlink", !.asked = 0, !.left = old]
  <2>1. /\ In(t, "sweep", "lock") /\ holder = None /\ holder' = t /\ call' = [call EXCEPT ![t] = c]
        /\ UNCHANGED <<clock, storeFiles, owed>>
    BY <1>0, <1>2 DEF SweepList
  <2>2. call[t] \in CallShape /\ call[t].op = "sweep" /\ call[t].at = "lock" /\ CallOK(call[t])
    BY <2>1, StoreFacts DEF In
  <2>3. call[t].asked <= clock /\ call[t].asked \in Nat
    BY <2>2 DEF CallOK, Sweeping, CallShape
  <2>4. \A i \in old : clock - pending[i].mtime > MaxAge
    <3>1. SUFFICES ASSUME NEW i \in old PROVE clock - pending[i].mtime > MaxAge
      OBVIOUS
    <3>2. call[t].asked - pending[i].mtime > MaxAge
      BY DEF Stale
    <3>3. pending[i].mtime \in 0..MaxTime
      BY <1>0 DEF Files
    <3>4. pending[i].mtime \in Nat
      BY <3>3, StoreConstants
    <3>5. QED
      BY <1>0, <2>3, <3>2, <3>4, StoreConstants
  <2>5. old \subseteq Ids
    OBVIOUS
  <2> HIDE DEF old
  <2>6. c \in CallShape /\ c.op = "sweep" /\ c.at = "unlink" /\ c.left = old
    BY <2>2, <2>5 DEF CallShape
  <2> HIDE DEF c
  <2>7. call'[t] = c
    BY <1>0, <2>1
  <2>8. CallOK(call[t])' /\ Inside(c)
    BY <2>1, <2>4, <2>6, <2>7 DEF CallOK, Sweeping, Inside, storeFiles
  <2>9. StoreTypeOK' /\ OwedWaits'
    BY <1>0, <2>1 DEF storeFiles, StoreTypeOK, OwedWaits
  <2>10. QED
    BY <2>1, <2>6, <2>8, <2>9, LockedStep
<1>3. ASSUME NEW i \in Ids, SweepUnlink(t, i) PROVE StoreIInv'
  <2> DEFINE c == [call[t] EXCEPT !.left = call[t].left \ {i}]
  <2>1. /\ In(t, "sweep", "unlink") /\ i \in call[t].left /\ call' = [call EXCEPT ![t] = c]
        /\ pending' = [pending EXCEPT ![i] = NoFile]
        /\ owed' = IF clock - pending[i].mtime > MaxAge THEN owed \ {i} ELSE owed
        /\ UNCHANGED <<clock, pendingTmp, failed, failedTmp, holder>>
    BY <1>0, <1>3 DEF SweepUnlink
  <2>2. holder = t /\ call[t] \in CallShape /\ call[t].op = "sweep" /\ call[t].at = "unlink" /\ Sweeping(call[t])
    BY <2>1, InsideHolds
  <2>3. /\ c \in CallShape /\ c.op = "sweep" /\ c.at = "unlink" /\ c.left = call[t].left \ {i}
    BY <2>2 DEF CallShape
  <2> HIDE DEF c
  <2>4. call'[t] = c
    BY <1>0, <2>1
  <2>5. owed' = owed \ {i}
    BY <2>1, <2>2 DEF Sweeping
  <2>6. StoreTypeOK' /\ OwedWaits'
    BY <1>0, <2>1, <2>5, FilesAre, FilesStep DEF OwedWaits
  <2>7. \A j \in c.left : clock' - pending'[j].mtime > MaxAge
    BY <1>0, <2>1, <2>2, <2>3 DEF Sweeping, CallShape
  <2>8. CallOK(call[t])' /\ Inside(c)
    BY <2>3, <2>4, <2>7 DEF CallOK, Sweeping, Inside
  <2>9. QED
    BY <2>1, <2>2, <2>3, <2>6, <2>8, LockedStep
<1>4. CASE SweepEnd(t)
  <2>1. /\ In(t, "sweep", "unlink") /\ holder' = None /\ call' = [call EXCEPT ![t] = Idle]
        /\ UNCHANGED <<clock, storeFiles, owed>>
    BY <1>4 DEF SweepEnd, Returns
  <2>2. holder = t
    BY <2>1, InsideHolds
  <2>3. StoreTypeOK' /\ OwedWaits'
    BY <1>0, <2>1 DEF storeFiles, StoreTypeOK, OwedWaits
  <2>4. CallOK(call[t])'
    BY <1>0, <2>1, IdleCall DEF CallOK
  <2>5. QED
    BY <2>1, <2>2, <2>3, <2>4, IdleCall, StoreConstants, LockedStep
<1>5. QED
  BY <1>1, <1>2, <1>3, <1>4

\* The process dies: what it had published stays, and no call is left.
LEMMA CrashStep ==
  ASSUME StoreIInv, Crash
  PROVE  StoreIInv'
<1>1. /\ call' = [t \in Threads |-> Idle] /\ holder' = None /\ UNCHANGED <<clock, storeFiles, owed>>
  BY DEF Crash
<1>2. call' \in [Threads -> CallShape] /\ \A t \in Threads : call'[t] = Idle
  BY <1>1, IdleCall
<1>3. StoreTypeOK' /\ OwedWaits'
  BY <1>1 DEF StoreIInv, StoreTypeOK, OwedWaits, storeFiles
<1>4. ASSUME NEW t \in Threads PROVE CallOK(call[t])' /\ (Inside(call[t])' <=> holder' = t)
  BY <1>1, <1>2, IdleCall, StoreConstants DEF CallOK, Inside
<1>5. QED
  BY <1>2, <1>3, <1>4 DEF StoreIInv

LEMMA StoreTickStep ==
  ASSUME StoreIInv, StoreTick
  PROVE  StoreIInv'
<1>1. /\ clock \in Nat /\ clock' = clock + 1 /\ clock' \in 0..MaxTime /\ UNCHANGED <<storeFiles, call, holder, owed>>
  BY StoreFacts, StoreConstants DEF StoreTick
<1>2. StoreTypeOK' /\ OwedWaits'
  BY <1>1 DEF StoreIInv, StoreTypeOK, OwedWaits, storeFiles
<1>3. ASSUME NEW t \in Threads PROVE CallOK(call[t])' /\ (Inside(call[t])' <=> holder' = t)
  <2>1. /\ UNCHANGED <<call[t], pending, pendingTmp, failed, failedTmp, holder>>
        /\ call[t] \in CallShape /\ CallOK(call[t]) /\ (Inside(call[t]) <=> holder = t)
    BY <1>1, StoreFacts DEF storeFiles
  <2>2. call[t].op = "persist" => Persisting(call[t])'
    BY <2>1 DEF CallOK, Persisting
  <2>3. call[t].op = "fail" => Failing(call[t])'
    BY <2>1 DEF CallOK, Failing
  <2>4. call[t].op = "sweep" => Sweeping(call[t])'
    <3>1. CASE call[t].op = "sweep"
      <4>1. Sweeping(call[t]) /\ call[t].asked \in Nat /\ call[t].left \subseteq Ids
        BY <2>1, <3>1 DEF CallOK, CallShape
      <4>2. call[t].at = "lock" => call[t].asked <= clock'
        BY <1>1, <4>1 DEF Sweeping
      <4>3. ASSUME NEW i \in call[t].left, call[t].at = "unlink" PROVE clock' - pending[i].mtime > MaxAge
        <5>1. pending[i].mtime \in 0..MaxTime
          BY <4>1, StoreFacts DEF Files
        <5>2. pending[i].mtime \in Nat /\ MaxAge \in Nat
          BY <5>1, StoreConstants
        <5>3. clock - pending[i].mtime > MaxAge
          BY <4>1, <4>3 DEF Sweeping
        <5>4. QED
          BY <1>1, <5>2, <5>3
      <4>4. QED
        BY <2>1, <4>1, <4>2, <4>3 DEF Sweeping
    <3>2. QED
      BY <3>1
  <2>5. QED
    BY <2>1, <2>2, <2>3, <2>4 DEF CallOK, Inside
<1>4. QED
  BY <1>1, <1>2, <1>3, StoreFacts DEF StoreIInv

LEMMA NextStoreIInv == StoreIInv /\ [StoreNext]_storeVars => StoreIInv'
<1> SUFFICES ASSUME StoreIInv, [StoreNext]_storeVars PROVE StoreIInv'
  OBVIOUS
<1>1. ASSUME NEW t \in Threads, StoreStep(t) PROVE StoreIInv'
  BY <1>1, PersistSteps, CompleteStep, FailSteps, SweepSteps DEF StoreStep
<1>2. CASE UNCHANGED storeVars
  BY <1>2 DEF storeVars, storeFiles, StoreIInv, StoreTypeOK, OwedWaits, CallOK, Inside, Persisting, Failing,
     Sweeping
<1>3. QED
  BY <1>1, <1>2, CrashStep, StoreTickStep DEF StoreNext

\* PendingRequestStore: in whatever state the process dies, a reader of the two
\* directories finds whole records, and among them every request that is owed.
THEOREM RequestsAreKept == StoreSpec => []StoreKept
<1>1. StoreIInv => StoreKept
  BY DEF StoreIInv, StoreKept, NothingLost, OwedWaits
<1>2. QED
  BY <1>1, InitStoreIInv, NextStoreIInv, PTL DEF StoreSpec

----------------------------------------------------------------------------
(* The store implements the queue *)

\* Nobody is between putting a failure on record and removing the request.
Quiet == \A t \in Threads : ~In(t, "fail", "unlink")

LEMMA QuietWaiting ==
  ASSUME Quiet
  PROVE  Waiting = [i \in Ids |-> pending[i].body]
  BY DEF Quiet, Waiting

LEMMA QuietIf ==
  ASSUME StoreIInv, NEW t \in Threads, holder \in {None, t}, ~In(t, "fail", "unlink")
  PROVE  Quiet
<1>1. ASSUME NEW u \in Threads, In(u, "fail", "unlink") PROVE FALSE
  <2>1. holder = u
    BY <1>1, InsideHolds
  <2>2. QED
    BY <1>1, <2>1, StoreConstants
<1>2. QED
  BY <1>1 DEF Quiet

\* A step that neither touches a published file nor begins or ends a removal.
LEMMA HiddenStep ==
  ASSUME StoreIInv, UNCHANGED <<pending, failed>>,
         \A t \in Threads : call'[t] = call[t] \/ (~In(t, "fail", "unlink") /\ ~In(t, "fail", "unlink")')
  PROVE  UNCHANGED <<Waiting, OnRecord>>
<1>1. \A i \in Ids : (\E t \in Threads : In(t, "fail", "unlink") /\ call[t].id = i)
                       <=> (\E t \in Threads : In(t, "fail", "unlink") /\ call[t].id = i)'
  BY DEF In
<1>2. Waiting' = Waiting
  BY <1>1 DEF Waiting
<1>3. QED
  BY <1>2 DEF OnRecord

\* The thread t has put a failure on record, and is the only one that has.
LEMMA RemovingWaiting ==
  ASSUME NEW t \in Threads
  PROVE  /\ (\A u \in Threads : In(u, "fail", "unlink") <=> u = t)
               => Waiting = [i \in Ids |-> IF i = call[t].id THEN None ELSE pending[i].body]
         /\ (\A u \in Threads : In(u, "fail", "unlink")' <=> u = t)
               => Waiting' = [i \in Ids |-> IF i = call'[t].id THEN None ELSE pending'[i].body]
<1>1. ASSUME \A u \in Threads : In(u, "fail", "unlink") <=> u = t
      PROVE  Waiting = [i \in Ids |-> IF i = call[t].id THEN None ELSE pending[i].body]
  <2>1. \A i \in Ids : (\E u \in Threads : In(u, "fail", "unlink") /\ call[u].id = i) <=> i = call[t].id
    BY <1>1
  <2>2. QED
    BY <2>1 DEF Waiting
<1>2. ASSUME \A u \in Threads : In(u, "fail", "unlink")' <=> u = t
      PROVE  Waiting' = [i \in Ids |-> IF i = call'[t].id THEN None ELSE pending'[i].body]
  <2>1. \A i \in Ids : (\E u \in Threads : In(u, "fail", "unlink")' /\ call'[u].id = i) <=> i = call'[t].id
    BY <1>2
  <2>2. QED
    BY <2>1 DEF Waiting
<1>3. QED
  BY <1>1, <1>2

\* The holder of the lock leaves, or moves to a step that is no removal.
LEMMA QuietAfter ==
  ASSUME StoreIInv, NEW t \in Threads, holder \in {None, t}, NEW c, call' = [call EXCEPT ![t] = c],
         ~(c.op = "fail" /\ c.at = "unlink")
  PROVE  Quiet' /\ Waiting' = [i \in Ids |-> pending'[i].body]
<1>1. call \in [Threads -> CallShape]
  BY StoreFacts
<1>2. ASSUME NEW u \in Threads, In(u, "fail", "unlink")' PROVE FALSE
  <2>1. CASE u = t
    BY <1>1, <1>2, <2>1 DEF In
  <2>2. CASE u # t
    <3>1. In(u, "fail", "unlink")
      BY <1>1, <1>2, <2>2 DEF In
    <3>2. holder = u
      BY <3>1, InsideHolds
    <3>3. QED
      BY <2>2, <3>2, StoreConstants
  <2>3. QED
    BY <2>1, <2>2
<1>3. Quiet'
  BY <1>2 DEF Quiet
<1>4. QED
  BY <1>3 DEF Quiet, Waiting

\* A step of a thread that changes its own call, and neither was nor is removing.
LEMMA HiddenCall ==
  ASSUME StoreIInv, UNCHANGED <<pending, failed>>, NEW t \in Threads, NEW c,
         call' = [call EXCEPT ![t] = c], ~In(t, "fail", "unlink"), ~(c.op = "fail" /\ c.at = "unlink")
  PROVE  UNCHANGED <<Waiting, OnRecord>>
<1>1. call \in [Threads -> CallShape]
  BY StoreFacts
<1>2. ASSUME NEW u \in Threads
      PROVE  call'[u] = call[u] \/ (~In(u, "fail", "unlink") /\ ~In(u, "fail", "unlink")')
  BY <1>1 DEF In
<1>3. QED
  BY <1>2, HiddenStep

\* persist() shows with its rename, and not before.
LEMMA PersistRefines ==
  ASSUME StoreIInv, NEW t \in Threads
  PROVE  /\ \A i \in Ids, body \in Bodies : PersistCreate(t, i, body) => UNCHANGED <<Waiting, OnRecord>>
         /\ PersistFill(t) => UNCHANGED <<Waiting, OnRecord>>
         /\ PersistReplace(t) => Queue!Next
<1>1. ASSUME NEW i \in Ids, NEW body \in Bodies, PersistCreate(t, i, body)
      PROVE  UNCHANGED <<Waiting, OnRecord>>
  <2> DEFINE c == Entering("persist", i, body)
  <2>1. call[t] = Idle /\ call' = [call EXCEPT ![t] = c] /\ UNCHANGED <<pending, failed>>
    BY <1>1 DEF PersistCreate, Enters, Enter, Entering
  <2>2. c.op = "persist"
    BY EnteringCall
  <2>3. ~In(t, "fail", "unlink")
    BY <2>1, IdleCall DEF In
  <2> HIDE DEF c
  <2>4. QED
    BY <2>1, <2>2, <2>3, HiddenCall
<1>2. ASSUME PersistFill(t) PROVE UNCHANGED <<Waiting, OnRecord>>
  <2> DEFINE c == [call[t] EXCEPT !.at = "replace"]
  <2>1. In(t, "persist", "fill") /\ call' = [call EXCEPT ![t] = c] /\ UNCHANGED <<pending, failed>>
    BY <1>2 DEF PersistFill, Move
  <2>2. c.op = "persist" /\ ~In(t, "fail", "unlink")
    BY <2>1, InsideHolds, MovedCall DEF In
  <2> HIDE DEF c
  <2>3. QED
    BY <2>1, <2>2, HiddenCall
<1>3. ASSUME PersistReplace(t) PROVE Queue!Next
  <2> DEFINE i == call[t].id  body == call[t].body
  <2>1. /\ In(t, "persist", "replace") /\ call' = [call EXCEPT ![t] = Idle]
        /\ pending' = [pending EXCEPT ![i] = pendingTmp[i]] /\ UNCHANGED failed
    BY <1>3 DEF PersistReplace, Returns
  <2>2. holder = t /\ Persisting(call[t]) /\ ~In(t, "fail", "unlink")
    BY <2>1, InsideHolds DEF In
  <2>3. i \in Ids /\ body \in Bodies /\ pendingTmp[i].body = body
    BY <2>1, <2>2 DEF Persisting, In
  <2>4. Waiting = [j \in Ids |-> pending[j].body]
    BY <2>2, QuietIf, QuietWaiting
  <2>5. Waiting' = [j \in Ids |-> pending'[j].body]
    BY <2>1, <2>2, IdleCall, QuietAfter
  <2>6. pending \in [Ids -> Files]
    BY StoreFacts
  <2>7. Waiting' = [Waiting EXCEPT ![i] = body]
    BY <2>1, <2>3, <2>4, <2>5, <2>6
  <2>8. OnRecord' = OnRecord
    BY <2>1 DEF OnRecord
  <2>9. QED
    BY <2>3, <2>7, <2>8 DEF Queue!Next, Queue!Add
<1>4. QED
  BY <1>1, <1>2, <1>3

\* complete(), and each unlink of a sweep, takes one request away.
LEMMA RemovalRefines ==
  ASSUME StoreIInv, NEW t \in Threads, NEW i \in Ids, holder \in {None, t}, ~In(t, "fail", "unlink"),
         NEW c, call' = [call EXCEPT ![t] = c], ~(c.op = "fail" /\ c.at = "unlink"),
         pending' = [pending EXCEPT ![i] = NoFile], UNCHANGED failed
  PROVE  Queue!Next
<1>1. Waiting = [j \in Ids |-> pending[j].body]
  BY QuietIf, QuietWaiting
<1>2. Waiting' = [j \in Ids |-> pending'[j].body]
  BY QuietAfter
<1>3. pending \in [Ids -> Files] /\ NoFile.body = None
  BY StoreFacts, FilesAre
<1>4. Waiting' = [Waiting EXCEPT ![i] = None]
  BY <1>1, <1>2, <1>3
<1>5. OnRecord' = OnRecord
  BY DEF OnRecord
<1>6. QED
  BY <1>4, <1>5 DEF Queue!Next, Queue!Remove

LEMMA CompleteRefines ==
  ASSUME StoreIInv, NEW t \in Threads, NEW i \in Ids, Complete(t, i)
  PROVE  Queue!Next
<1>1. /\ call[t] = Idle /\ holder = None /\ call' = call
      /\ pending' = [pending EXCEPT ![i] = NoFile] /\ UNCHANGED failed
  BY DEF Complete, Enters
<1>2. call' = [call EXCEPT ![t] = Idle] /\ ~In(t, "fail", "unlink") /\ Idle.op = "none"
  BY <1>1, IdleCall, StoreFacts DEF In
<1>3. QED
  BY <1>1, <1>2, RemovalRefines

\* fail() shows when its record is renamed into place: the request stops
\* waiting there, with the payload it waited with, and its removal is not seen.
LEMMA FailRefines ==
  ASSUME StoreIInv, NEW t \in Threads
  PROVE  /\ \A i \in Ids : FailCreate(t, i) => UNCHANGED <<Waiting, OnRecord>>
         /\ FailFill(t) => UNCHANGED <<Waiting, OnRecord>>
         /\ FailReplace(t) => Queue!Next
         /\ FailUnlink(t) => UNCHANGED <<Waiting, OnRecord>>
<1>0. /\ call \in [Threads -> CallShape] /\ pending \in [Ids -> Files] /\ failed \in [Ids -> Files]
      /\ \A i \in Ids : pending[i].body \in Bodies \cup {Stub, None}
  BY StoreFacts DEF Files
<1>1. ASSUME NEW i \in Ids, FailCreate(t, i) PROVE UNCHANGED <<Waiting, OnRecord>>
  <2> DEFINE body == IF Exists(pending[i]) THEN pending[i].body ELSE Stub
             c == Entering("fail", i, body)
  <2>1. call[t] = Idle /\ call' = [call EXCEPT ![t] = c] /\ UNCHANGED <<pending, failed>>
    BY <1>1 DEF FailCreate, Enters, Enter, Entering
  <2>2. body \in Bodies \cup {Stub, None}
    BY <1>0
  <2> HIDE DEF body
  <2>3. c.at = "fill"
    BY <2>2, EnteringCall
  <2>4. ~In(t, "fail", "unlink")
    BY <2>1, IdleCall DEF In
  <2> HIDE DEF c
  <2>5. QED
    BY <2>1, <2>3, <2>4, HiddenCall
<1>2. ASSUME FailFill(t) PROVE UNCHANGED <<Waiting, OnRecord>>
  <2> DEFINE c == [call[t] EXCEPT !.at = "replace"]
  <2>1. In(t, "fail", "fill") /\ call' = [call EXCEPT ![t] = c] /\ UNCHANGED <<pending, failed>>
    BY <1>2 DEF FailFill, Move
  <2>2. c.at = "replace" /\ ~In(t, "fail", "unlink")
    BY <2>1, InsideHolds, MovedCall DEF In
  <2> HIDE DEF c
  <2>3. QED
    BY <2>1, <2>2, HiddenCall
<1>3. ASSUME FailReplace(t) PROVE Queue!Next
  <2> DEFINE i == call[t].id  c == [call[t] EXCEPT !.at = "unlink"]
  <2>1. /\ In(t, "fail", "replace") /\ call' = [call EXCEPT ![t] = c]
        /\ failed' = [failed EXCEPT ![i] = failedTmp[i]] /\ UNCHANGED pending
    BY <1>3 DEF FailReplace, Move
  <2>2. holder = t /\ Failing(call[t]) /\ ~In(t, "fail", "unlink") /\ call[t].op = "fail"
    BY <2>1, InsideHolds DEF In
  <2>3. i \in Ids /\ failedTmp[i].body = IF Exists(pending[i]) THEN pending[i].body ELSE Stub
    BY <2>1, <2>2 DEF Failing, In
  <2>4. Quiet /\ Waiting = [j \in Ids |-> pending[j].body]
    BY <2>2, QuietIf, QuietWaiting
  <2>5. call'[t] = c /\ c.op = "fail" /\ c.at = "unlink" /\ c.id = i
    BY <1>0, <2>1, <2>2, MovedCall
  <2> HIDE DEF c
  <2>6. \A u \in Threads : In(u, "fail", "unlink")' <=> u = t
    BY <1>0, <2>1, <2>4, <2>5 DEF In, Quiet
  <2>7. Waiting' = [j \in Ids |-> IF j = i THEN None ELSE pending[j].body]
    BY <2>1, <2>5, <2>6, RemovingWaiting
  <2>8. Waiting' = [Waiting EXCEPT ![i] = None]
    BY <2>3, <2>4, <2>7
  <2>9. OnRecord' = [OnRecord EXCEPT ![i] = IF Waiting[i] = None THEN Stub ELSE Waiting[i]]
    BY <1>0, <2>1, <2>3, <2>4 DEF OnRecord, Exists
  <2>10. QED
    BY <2>3, <2>8, <2>9 DEF Queue!Next, Queue!Fail
<1>4. ASSUME FailUnlink(t) PROVE UNCHANGED <<Waiting, OnRecord>>
  <2> DEFINE i == call[t].id
  <2>1. /\ In(t, "fail", "unlink") /\ call' = [call EXCEPT ![t] = Idle]
        /\ pending' = [pending EXCEPT ![i] = NoFile] /\ UNCHANGED failed
    BY <1>4 DEF FailUnlink, Returns
  <2>2. holder = t
    BY <2>1, InsideHolds
  <2>3. \A u \in Threads : In(u, "fail", "unlink") <=> u = t
    BY <2>1, <2>2, InsideHolds
  <2>4. Waiting = [j \in Ids |-> IF j = i THEN None ELSE pending[j].body]
    BY <2>3, RemovingWaiting
  <2>5. Waiting' = [j \in Ids |-> pending'[j].body]
    BY <2>1, <2>2, IdleCall, QuietAfter
  <2>6. Waiting' = Waiting
    BY <1>0, <2>1, <2>4, <2>5, FilesAre
  <2>7. QED
    BY <2>1, <2>6 DEF OnRecord
<1>5. QED
  BY <1>1, <1>2, <1>3, <1>4

LEMMA SweepRefines ==
  ASSUME StoreIInv, NEW t \in Threads
  PROVE  /\ SweepAsk(t) => UNCHANGED <<Waiting, OnRecord>>
         /\ SweepList(t) => UNCHANGED <<Waiting, OnRecord>>
         /\ \A i \in Ids : SweepUnlink(t, i) => Queue!Next
         /\ SweepEnd(t) => UNCHANGED <<Waiting, OnRecord>>
<1>0. call \in [Threads -> CallShape] /\ call[t] \in CallShape
  BY StoreFacts
<1>1. ASSUME SweepAsk(t) PROVE UNCHANGED <<Waiting, OnRecord>>
  <2> DEFINE c == [call[t] EXCEPT !.op = "sweep", !.at = "lock", !.asked = clock]
  <2>1. call[t] = Idle /\ call' = [call EXCEPT ![t] = c] /\ UNCHANGED <<pending, failed>>
    BY <1>1 DEF SweepAsk, storeFiles
  <2>2. c.op = "sweep" /\ ~In(t, "fail", "unlink")
    BY <1>0, <2>1, IdleCall DEF CallShape, In
  <2> HIDE DEF c
  <2>3. QED
    BY <2>1, <2>2, HiddenCall
<1>2. ASSUME SweepList(t) PROVE UNCHANGED <<Waiting, OnRecord>>
  <2> DEFINE stale == {i \in Ids : Stale(i, call[t].asked)}
             c == [call[t] EXCEPT !.at = "unlink", !.asked = 0, !.left = stale]
  <2>1. In(t, "sweep", "lock") /\ call' = [call EXCEPT ![t] = c] /\ UNCHANGED <<pending, failed>>
    BY <1>2 DEF SweepList, storeFiles
  <2> HIDE DEF stale
  <2>2. c.op = "sweep" /\ ~In(t, "fail", "unlink")
    BY <1>0, <2>1 DEF CallShape, In
  <2> HIDE DEF c
  <2>3. QED
    BY <2>1, <2>2, HiddenCall
<1>3. ASSUME NEW i \in Ids, SweepUnlink(t, i) PROVE Queue!Next
  <2> DEFINE c == [call[t] EXCEPT !.left = call[t].left \ {i}]
  <2>1. /\ In(t, "sweep", "unlink") /\ call' = [call EXCEPT ![t] = c] /\ UNCHANGED failed
        /\ pending' = [pending EXCEPT ![i] = NoFile]
    BY <1>3 DEF SweepUnlink
  <2>2. holder = t /\ c.op = "sweep" /\ ~In(t, "fail", "unlink")
    BY <1>0, <2>1, InsideHolds DEF CallShape, In
  <2> HIDE DEF c
  <2>3. QED
    BY <2>1, <2>2, RemovalRefines
<1>4. ASSUME SweepEnd(t) PROVE UNCHANGED <<Waiting, OnRecord>>
  <2>1. In(t, "sweep", "unlink") /\ call' = [call EXCEPT ![t] = Idle] /\ UNCHANGED <<pending, failed>>
    BY <1>4 DEF SweepEnd, Returns, storeFiles
  <2>2. ~In(t, "fail", "unlink") /\ Idle.op = "none"
    BY <2>1, IdleCall DEF In
  <2>3. QED
    BY <2>1, <2>2, HiddenCall
<1>5. QED
  BY <1>1, <1>2, <1>3, <1>4

\* A crash is seen when it falls between putting a failure on record and
\* removing the request: then the request waits again.
LEMMA CrashRefines ==
  ASSUME StoreIInv, Crash
  PROVE  Queue!Next \/ UNCHANGED <<Waiting, OnRecord>>
<1>1. /\ call' = [t \in Threads |-> Idle] /\ holder # None /\ UNCHANGED <<pending, failed>>
  BY DEF Crash, storeFiles
<1>2. \A t \in Threads : ~In(t, "fail", "unlink")'
  BY <1>1, IdleCall DEF In
<1>3. Waiting' = [j \in Ids |-> pending[j].body]
  BY <1>1, <1>2 DEF Waiting
<1>4. OnRecord' = OnRecord
  BY <1>1 DEF OnRecord
<1>5. CASE Quiet
  BY <1>3, <1>4, <1>5, QuietWaiting
<1>6. ASSUME NEW t \in Threads, In(t, "fail", "unlink")
      PROVE  Queue!Next \/ UNCHANGED <<Waiting, OnRecord>>
  <2> DEFINE i == call[t].id
  <2>1. holder = t /\ Failing(call[t]) /\ call[t].at = "unlink"
    BY <1>6, InsideHolds
  <2>2. \A u \in Threads : In(u, "fail", "unlink") <=> u = t
    BY <1>6, <2>1, InsideHolds
  <2>3. Waiting = [j \in Ids |-> IF j = i THEN None ELSE pending[j].body]
    BY <2>2, RemovingWaiting
  <2>4. i \in Ids /\ failed[i].body = IF Exists(pending[i]) THEN pending[i].body ELSE Stub
    BY <2>1 DEF Failing
  <2>5. CASE Exists(pending[i])
    <3>1. OnRecord[i] = pending[i].body /\ OnRecord[i] \in Bodies /\ Waiting[i] = None
      BY <2>3, <2>4, <2>5, StoreFacts DEF OnRecord
    <3>2. Waiting' = [Waiting EXCEPT ![i] = OnRecord[i]]
      BY <1>3, <2>3, <2>4, <3>1
    <3>3. Queue!Reappear(i)
      BY <1>4, <3>1, <3>2 DEF Queue!Reappear
    <3>4. QED
      BY <2>4, <3>3 DEF Queue!Next
  <2>6. CASE ~Exists(pending[i])
    <3>1. pending[i].body = None
      BY <2>6 DEF Exists
    <3>2. Waiting' = Waiting
      BY <1>3, <2>3, <3>1
    <3>3. QED
      BY <1>4, <3>2
  <2>7. QED
    BY <2>5, <2>6
<1>7. QED
  BY <1>5, <1>6 DEF Quiet

LEMMA NextStoreRefines ==
  StoreIInv /\ [StoreNext]_storeVars => [Queue!Next]_<<Waiting, OnRecord>>
<1> SUFFICES ASSUME StoreIInv, [StoreNext]_storeVars
             PROVE  Queue!Next \/ UNCHANGED <<Waiting, OnRecord>>
  OBVIOUS
<1>1. ASSUME NEW t \in Threads, StoreStep(t) PROVE Queue!Next \/ UNCHANGED <<Waiting, OnRecord>>
  BY <1>1, PersistRefines, CompleteRefines, FailRefines, SweepRefines DEF StoreStep
<1>2. CASE StoreTick
  BY <1>2, HiddenStep DEF StoreTick, storeFiles
<1>3. CASE UNCHANGED storeVars
  BY <1>3, HiddenStep DEF storeVars, storeFiles
<1>4. QED
  BY <1>1, <1>2, <1>3, CrashRefines DEF StoreNext

\* PendingRequestStore implements RequestQueue: to an observer of the
\* directories each operation is one step, and the one effect of a crash, at
\* any step of any operation, is that a request waits again whose failure is
\* on record.
THEOREM StoreImplementsQueue == StoreSpec => ImplementsQueue
<1>1. StoreInit => Queue!Init
  <2> SUFFICES ASSUME StoreInit PROVE Queue!Init
    OBVIOUS
  <2>1. Quiet
    BY IdleCall DEF StoreInit, Quiet, In
  <2>2. Waiting = [i \in Ids |-> None] /\ OnRecord = [i \in Ids |-> None]
    BY <2>1, QuietWaiting, FilesAre DEF StoreInit, OnRecord
  <2>3. QED
    BY <2>2 DEF Queue!Init
<1>2. QED
  BY <1>1, InitStoreIInv, NextStoreIInv, NextStoreRefines, PTL DEF StoreSpec, ImplementsQueue, Queue!Spec, Queue!vars

----------------------------------------------------------------------------
(* SizeRouting: where its length sends a request *)

RequestShape ==
    [at : {"estimate", "lock", "load", "decide", "done"}, cline : BOOLEAN, heuristic : Nat, true : Int,
     estimate : Int, gaveUp : BOOLEAN, model : {None, "claude-code", "local-long"} \cup TurboModels]

\* What a worker's request carries at each step: whose estimate is the true length,
\* and what the choice of a model says of the estimate it was made by.
RequestOK(r) ==
    /\ r.at \in {"decide", "done"} /\ ~r.gaveUp =>
          \/ r.estimate = r.true
          \/ r.estimate = r.heuristic /\ ~NearTierBoundary(r.heuristic)
    /\ r.at = "done" => /\ r.cline /\ r.model = "local-long" => r.estimate <= SaturationLimit
                        /\ ~r.cline => (r.model = "claude-code" <=> r.estimate > RouteLongMax)

SizeIInv ==
    /\ encoder \in BOOLEAN /\ disabled \in BOOLEAN /\ turboOn \in BOOLEAN
    /\ lock \in Workers \cup {None}
    /\ loads = IF encoder THEN 1 ELSE 0
    /\ work \in [Workers -> RequestShape]
    /\ \A w \in Workers :
          /\ RequestOK(work[w])
          /\ work[w].at = "load" <=> lock = w
          /\ work[w].at = "load" => ~encoder

LEMMA SizeConstants ==
  /\ RouteLongMax \in Nat /\ Sizes \subseteq Nat
  /\ \A m \in TurboModels : Windows[m] \in Nat
  /\ None \notin Workers /\ None \notin TurboModels
  /\ Band \in Nat /\ SaturationLimit \in Nat /\ SaturationLimit <= RouteLongMax
<1>1. RouteLongMax \in Nat
  BY SizeAssumption
<1>2. Band \in Nat /\ SaturationLimit \in Nat /\ SaturationLimit <= RouteLongMax
  BY <1>1 DEF Band, SaturationLimit
<1>3. QED
  BY <1>1, <1>2, SizeAssumption

\* The tier that is picked is a turbo tier, or there is none.
LEMMA TurboPicked ==
  ASSUME NEW tokens
  PROVE  PickTurboBackend(tokens) \in TurboModels \cup {None}
<1> DEFINE fits == {i \in 1..3 : TierOrder[i] \in TurboModels /\ tokens <= Windows[TierOrder[i]]}
<1>1. DOMAIN TierOrder = 1..3
  BY DEF TierOrder
<1>2. CASE fits = {}
  BY <1>1, <1>2 DEF PickTurboBackend
<1>3. CASE fits # {}
  <2>1. \E i \in fits : \A j \in fits : i <= j
    <3>1. CASE 1 \in fits
      BY <3>1
    <3>2. CASE 1 \notin fits /\ 2 \in fits
      BY <3>2
    <3>3. CASE 1 \notin fits /\ 2 \notin fits
      BY <3>3, <1>3
    <3> QED
      BY <3>1, <3>2, <3>3
  <2>2. Min(fits) \in fits
    BY <2>1 DEF Min
  <2> QED
    BY <1>1, <2>2 DEF PickTurboBackend
<1> QED
  BY <1>2, <1>3

LEMMA RoutedTo ==
  ASSUME NEW cline \in BOOLEAN, NEW tokens \in Int
  PROVE  /\ Routed(cline, tokens) \in {"claude-code", "local-long"} \cup TurboModels
         /\ cline /\ Routed(cline, tokens) = "local-long" => tokens <= SaturationLimit
         /\ ~cline => (Routed(cline, tokens) = "claude-code" <=> tokens > RouteLongMax)
BY TurboPicked, SizeConstants DEF Routed, TurboModels

LEMMA InitSizeIInv == SizeInit => SizeIInv
<1> SUFFICES ASSUME SizeInit PROVE SizeIInv
  OBVIOUS
<1>1. work \in [Workers -> Requests]
  BY DEF SizeInit, Work
<1>2. ASSUME NEW r \in Requests PROVE r \in RequestShape /\ RequestOK(r) /\ r.at = "estimate"
  <2>0. PICK c \in BOOLEAN, h \in Sizes, t \in Sizes :
          r = [at |-> "estimate", cline |-> c, heuristic |-> h, true |-> t, estimate |-> 0,
               gaveUp |-> FALSE, model |-> None]
    BY <1>2 DEF Requests
  <2>1. r \in RequestShape /\ r.at = "estimate"
    BY <2>0, SizeConstants DEF RequestShape
  <2> QED
    BY <2>1 DEF RequestOK
<1>3. work \in [Workers -> RequestShape]
  BY <1>1, <1>2
<1> QED
  BY <1>1, <1>2, <1>3, SizeConstants DEF SizeIInv, SizeInit

\* A step of one worker's: the other requests are as they were.
LEMMA OthersStay ==
  ASSUME SizeIInv, NEW w \in Workers, NEW r \in RequestShape, work' = [work EXCEPT ![w] = r]
  PROVE  /\ work' \in [Workers -> RequestShape] /\ work'[w] = r
         /\ \A v \in Workers : v # w => work'[v] = work[v] /\ RequestOK(work'[v])
BY DEF SizeIInv

\* The estimate is made: exact, or where it is trusted, or it is on record that the exact
\* one was not to be had.
LEMMA EstimatedIs ==
  ASSUME SizeIInv, NEW w \in Workers, NEW tokens \in Int, NEW without \in BOOLEAN, Estimated(w, tokens, without),
         \/ without
         \/ tokens = work[w].true
         \/ tokens = work[w].heuristic /\ ~NearTierBoundary(tokens)
  PROVE  \E r \in RequestShape : work' = [work EXCEPT ![w] = r] /\ RequestOK(r) /\ r.at = "decide"
<1> DEFINE r == [work[w] EXCEPT !.at = "decide", !.estimate = tokens, !.gaveUp = without]
<1>1. work[w] \in RequestShape /\ work \in [Workers -> RequestShape]
  BY DEF SizeIInv
<1>2. r \in RequestShape
  BY <1>1 DEF RequestShape
<1>3. r.at = "decide" /\ r.true = work[w].true /\ r.heuristic = work[w].heuristic /\ r.estimate = tokens /\ r.gaveUp = without
  BY <1>1 DEF RequestShape
<1>4. work' = [work EXCEPT ![w] = r]
  BY <1>1 DEF Estimated
<1> HIDE DEF r
<1>5. RequestOK(r)
  BY <1>3 DEF RequestOK
<1> QED
  BY <1>2, <1>3, <1>4, <1>5

LEMMA EncodedIs ==
  ASSUME SizeIInv, NEW w \in Workers, Encoded(w)
  PROVE  \E r \in RequestShape : work' = [work EXCEPT ![w] = r] /\ RequestOK(r) /\ r.at = "decide"
<1>1. work[w].true \in Int /\ work[w].heuristic \in Int
  BY DEF SizeIInv, RequestShape
<1> QED
  BY <1>1, EstimatedIs DEF Encoded

LEMMA HeuristicKeeps ==
  ASSUME SizeIInv, NEW w \in Workers, Heuristic(w) \/ Tokenize(w)
  PROVE  SizeIInv'
<1>1. work[w] \in RequestShape /\ work[w].at = "estimate" /\ UNCHANGED <<encoder, disabled, lock, turboOn, loads>>
  BY DEF SizeIInv, Heuristic, Tokenize
<1>2. work[w].heuristic \in Int /\ NearTierBoundary(work[w].heuristic) \in BOOLEAN
  BY <1>1 DEF RequestShape, NearTierBoundary
<1>3. PICK r \in RequestShape : work' = [work EXCEPT ![w] = r] /\ RequestOK(r) /\ r.at = "decide"
  <2>1. CASE Heuristic(w)
    BY <1>2, <2>1, EstimatedIs DEF Heuristic
  <2>2. CASE Tokenize(w)
    BY <2>2, EncodedIs DEF Tokenize
  <2> QED
    BY <2>1, <2>2
<1>4. /\ work' \in [Workers -> RequestShape] /\ work'[w] = r
      /\ \A v \in Workers : v # w => work'[v] = work[v] /\ RequestOK(work'[v])
  BY <1>1, <1>3, OthersStay
<1> QED
  BY <1>1, <1>3, <1>4 DEF SizeIInv

LEMMA WantKeeps ==
  ASSUME SizeIInv, NEW w \in Workers, WantEncoder(w)
  PROVE  SizeIInv'
<1>1. work[w] \in RequestShape /\ work[w].at = "estimate" /\ UNCHANGED <<encoder, disabled, lock, turboOn, loads>> /\ RequestOK(work[w])
  BY DEF SizeIInv, WantEncoder
<1>0. PICK r \in RequestShape : r = [work[w] EXCEPT !.at = "lock"]
  BY <1>1 DEF RequestShape
<1>2. r.at = "lock" /\ r.heuristic = work[w].heuristic /\ r.true = work[w].true /\ work' = [work EXCEPT ![w] = r]
  BY <1>0, <1>1 DEF RequestShape, WantEncoder, SizeIInv
<1>3. RequestOK(r)
  BY <1>1, <1>2 DEF RequestOK, WantEncoder
<1>4. /\ work' \in [Workers -> RequestShape] /\ work'[w] = r
      /\ \A v \in Workers : v # w => work'[v] = work[v] /\ RequestOK(work'[v])
  BY <1>1, <1>2, OthersStay
<1> QED
  BY <1>1, <1>2, <1>3, <1>4 DEF SizeIInv

LEMMA LockKeeps ==
  ASSUME SizeIInv, NEW w \in Workers, Lock(w)
  PROVE  SizeIInv'
<1>1. work[w] \in RequestShape /\ work[w].at = "lock" /\ lock = None /\ UNCHANGED <<encoder, disabled, turboOn, loads>> /\ RequestOK(work[w])
  BY DEF SizeIInv, Lock
<1>2. work[w].true \in Int
  BY <1>1 DEF RequestShape
<1>3. CASE encoder
  <2>1. PICK r \in RequestShape : work' = [work EXCEPT ![w] = r] /\ RequestOK(r) /\ r.at = "decide"
    BY <1>1, <1>2, <1>3, EncodedIs DEF Lock
  <2>2. /\ work' \in [Workers -> RequestShape] /\ work'[w] = r
        /\ \A v \in Workers : v # w => work'[v] = work[v] /\ RequestOK(work'[v])
    BY <1>1, <2>1, OthersStay
  <2>3. UNCHANGED lock
    BY <1>3 DEF Lock
  <2> QED
    BY <1>1, <2>1, <2>2, <2>3 DEF SizeIInv
<1>4. CASE ~encoder
  <2>0. PICK r \in RequestShape : r = [work[w] EXCEPT !.at = "load"]
    BY <1>1 DEF RequestShape
  <2>1. r.at = "load" /\ r.heuristic = work[w].heuristic /\ r.true = work[w].true /\ work' = [work EXCEPT ![w] = r] /\ lock' = w
    BY <2>0, <1>1, <1>4 DEF RequestShape, Lock, SizeIInv
  <2>2. RequestOK(r)
    BY <1>1, <2>1 DEF RequestOK
  <2>3. /\ work' \in [Workers -> RequestShape] /\ work'[w] = r
        /\ \A v \in Workers : v # w => work'[v] = work[v] /\ RequestOK(work'[v])
    BY <1>1, <2>1, OthersStay
  <2>4. \A v \in Workers : work[v].at # "load"
    BY <1>1, SizeConstants DEF SizeIInv
  <2> QED
    BY <1>1, <1>4, <2>1, <2>2, <2>3, <2>4 DEF SizeIInv
<1> QED
  BY <1>3, <1>4

LEMMA LoadKeeps ==
  ASSUME SizeIInv, NEW w \in Workers, Load(w)
  PROVE  SizeIInv'
<1>1. work[w] \in RequestShape /\ work[w].at = "load" /\ lock = w /\ ~encoder /\ loads = 0 /\ lock' = None /\ UNCHANGED turboOn
  BY DEF SizeIInv, Load
<1>2. work[w].heuristic \in Int /\ work[w].true \in Int
  BY <1>1 DEF RequestShape
<1>3. /\ encoder' \in BOOLEAN /\ disabled' \in BOOLEAN
      /\ loads' = IF encoder' THEN 1 ELSE 0
      /\ \E r \in RequestShape : work' = [work EXCEPT ![w] = r] /\ RequestOK(r) /\ r.at = "decide"
  <2>1. CASE encoder' = TRUE /\ loads' = loads + 1 /\ Encoded(w) /\ UNCHANGED disabled
    BY <1>1, <1>2, <2>1, EncodedIs DEF SizeIInv
  <2>2. CASE encoder' = FALSE /\ disabled' = TRUE /\ Estimated(w, work[w].heuristic, TRUE) /\ UNCHANGED loads
    BY <1>1, <1>2, <2>2, EstimatedIs DEF SizeIInv
  <2> QED
    BY <2>1, <2>2 DEF Load
<1>4. PICK r \in RequestShape : work' = [work EXCEPT ![w] = r] /\ RequestOK(r) /\ r.at = "decide"
  BY <1>3
<1>5. /\ work' \in [Workers -> RequestShape] /\ work'[w] = r
      /\ \A v \in Workers : v # w => work'[v] = work[v] /\ RequestOK(work'[v])
  BY <1>3, <1>4, OthersStay
<1>6. \A v \in Workers : v # w => work[v].at # "load"
  BY <1>1 DEF SizeIInv
<1> QED
  BY <1>1, <1>3, <1>4, <1>5, <1>6, SizeConstants DEF SizeIInv

LEMMA DecideKeeps ==
  ASSUME SizeIInv, NEW w \in Workers, Decide(w)
  PROVE  SizeIInv'
<1>1. work[w] \in RequestShape /\ work[w].at = "decide" /\ UNCHANGED <<encoder, disabled, lock, turboOn, loads>> /\ RequestOK(work[w])
  BY DEF SizeIInv, Decide
<1>2. work[w].cline \in BOOLEAN /\ work[w].estimate \in Int
  BY <1>1 DEF RequestShape
<1>3. PICK m \in {"claude-code", "local-long"} \cup TurboModels : m = Routed(work[w].cline, work[w].estimate)
  BY <1>2, RoutedTo
<1>4. PICK r \in RequestShape : r = [work[w] EXCEPT !.at = "done", !.model = m]
  BY <1>1, <1>3 DEF RequestShape
<1>5. /\ r.at = "done" /\ r.heuristic = work[w].heuristic /\ r.true = work[w].true
      /\ r.cline = work[w].cline /\ r.estimate = work[w].estimate /\ r.gaveUp = work[w].gaveUp /\ r.model = m /\ work' = [work EXCEPT ![w] = r]
  BY <1>1, <1>3, <1>4 DEF RequestShape, Decide, SizeIInv
<1>7. RequestOK(r)
  BY <1>1, <1>2, <1>3, <1>5, RoutedTo DEF RequestOK
<1>8. /\ work' \in [Workers -> RequestShape] /\ work'[w] = r
      /\ \A v \in Workers : v # w => work'[v] = work[v] /\ RequestOK(work'[v])
  BY <1>1, <1>5, OthersStay
<1> QED
  BY <1>1, <1>5, <1>7, <1>8 DEF SizeIInv

LEMMA SizeStepKeeps == SizeIInv /\ [SizeNext]_sizeVars => SizeIInv'
<1> SUFFICES ASSUME SizeIInv, [SizeNext]_sizeVars PROVE SizeIInv'
  OBVIOUS
<1>1. ASSUME NEW w \in Workers, Estimate(w) PROVE SizeIInv'
  BY <1>1, HeuristicKeeps, WantKeeps, LockKeeps, LoadKeeps, DecideKeeps DEF Estimate
<1>2. CASE UNCHANGED sizeVars
  BY <1>2 DEF SizeIInv, sizeVars, RequestOK
<1> QED
  BY <1>1, <1>2 DEF SizeNext

(* Where its length sends a request, for any threads, sizes and windows, whatever the
   heuristic and the tokenizer say: a request on the wrong side of ROUTE_LONG_MAX is there
   by an error wider than the band or without a tokenizer, which is loaded once
   (_estimate_tokens, _get_tiktoken_encoder, decide_tier, decide_tier_cline). *)
THEOREM LengthsAreHonest == SizeSpec => []SizedRight
<1>1. SizeIInv => SizedRight
  <2> SUFFICES ASSUME SizeIInv PROVE SizedRight
    OBVIOUS
  <2>1. ASSUME NEW w \in Workers, work[w].at = "done", Misplaced(work[w]), ~work[w].gaveUp
        PROVE Distance(work[w].heuristic, work[w].true) > Band
    <3>0. PICK r \in RequestShape : r = work[w]
      BY DEF SizeIInv
    <3>1. RequestOK(r) /\ r.at = "done" /\ Misplaced(r) /\ ~r.gaveUp
      BY <2>1, <3>0 DEF SizeIInv
    <3>2. r.heuristic \in Nat /\ r.true \in Int /\ r.estimate \in Int /\ r.cline \in BOOLEAN
      BY DEF RequestShape
    <3>3. r.estimate = r.true \/ (r.estimate = r.heuristic /\ ~NearTierBoundary(r.heuristic))
      BY <3>1 DEF RequestOK
    <3>4. \/ r.estimate <= RouteLongMax /\ r.true > RouteLongMax
          \/ r.estimate > RouteLongMax /\ r.true <= RouteLongMax
      <4>1. r.cline /\ r.model = "local-long" => r.estimate <= SaturationLimit
        BY <3>1 DEF RequestOK
      <4>2. ~r.cline => (r.model = "claude-code" <=> r.estimate > RouteLongMax)
        BY <3>1 DEF RequestOK
      <4>3. CASE r.cline
        BY <3>1, <3>2, <4>1, <4>3, SizeConstants DEF Misplaced
      <4>4. CASE ~r.cline
        BY <3>1, <3>2, <4>2, <4>4, SizeConstants DEF Misplaced
      <4> QED
        BY <4>3, <4>4
    <3>5. r.estimate = r.heuristic /\ ~NearTierBoundary(r.heuristic)
      BY <3>2, <3>3, <3>4, SizeConstants
    <3>6. CASE RouteLongMax = 0
      <4>1. Band = 0
        BY <3>6 DEF Band
      <4> QED
        BY <3>0, <3>2, <3>4, <3>5, <3>6, <4>1 DEF Distance
    <3>7. CASE RouteLongMax > 0
      <4>1. Distance(r.heuristic, RouteLongMax) > Band
        BY <3>2, <3>5, <3>7, SizeConstants DEF NearTierBoundary, Distance
      <4> QED
        BY <3>0, <3>2, <3>4, <3>5, <4>1, SizeConstants DEF Distance
    <3> QED
      BY <3>0, <3>6, <3>7, SizeConstants
  <2>2. LoadedOnce
    BY DEF LoadedOnce, SizeIInv
  <2> QED
    BY <2>1, <2>2 DEF SizedRight, RightSideOfTheLine
<1>2. QED
  BY InitSizeIInv, SizeStepKeeps, <1>1, PTL DEF SizeSpec

----------------------------------------------------------------------------
(* TaskTalk: what a turn is by its conversation *)

AnySignals == [panic : Nat, py : Nat, js : Nat, err : Nat]

\* The messages of a conversation that began with the task: its first one as rendered
\* at some turn, the model's answers, results, and results that show an envelope.
Openings == {Opening(n) : n \in Nat}
Answer == Said("assistant", None, None, NoSignals)
Results == {Said("user", None, None, h) : h \in Signals}
Shown == {Said("user", Written(t, 0, 0), None, NoSignals) : t \in TaskTexts}
Messages == Openings \cup {Answer} \cup Results \cup Shown

TalkIInv ==
    /\ protocol \in {"envelope", "plain"} /\ begun \in TaskTexts /\ quoted \in BOOLEAN /\ talked \in Nat
    /\ turns \in Seq(Messages) /\ turns # <<>> /\ turns[1] \in Openings
    /\ protocol = "plain" /\ ~quoted => \A i \in DOMAIN turns : turns[i].envelope = None

LEMMA TalkConstants ==
  /\ \A t \in TaskTexts : t.tag \in TagNames \cup {None} /\ t.marks \subseteq Marks
  /\ \A t \in TaskTexts : Written(t, 0, 0) # None /\ Written(t, 1, 0) # None
  /\ Signals \subseteq AnySignals /\ NoSignals \in AnySignals
  /\ None \notin TagNames \cup Marks
<1>1. NoSignals \in AnySignals
  BY DEF NoSignals, AnySignals
<1> QED
  BY <1>1, TalkAssumption DEF AnySignals

LEMMA OpeningIs ==
  ASSUME TalkIInv, NEW m \in Openings
  PROVE  /\ m.role = "user" /\ m.hits = NoSignals
         /\ protocol = "envelope" => \E l \in 0..1 : m.envelope = Written(begun, l, 0) /\ m.envelope # None
         /\ protocol = "plain" => m.envelope = None /\ \E l \in 0..1, n \in Nat : m.words = Written(begun, l, n)
<1>1. PICK n \in Nat : m = Opening(n)
  BY DEF Openings
<1>2. n % 2 \in 0..1 /\ begun \in TaskTexts /\ protocol \in {"envelope", "plain"}
  BY DEF TalkIInv
<1>3. CASE protocol = "envelope"
  <2>1. m = Said("user", Written(begun, n % 2, 0), None, NoSignals)
    BY <1>1, <1>3 DEF Opening
  <2>2. m.role = "user" /\ m.hits = NoSignals /\ m.envelope = Written(begun, n % 2, 0)
    BY <2>1 DEF Said
  <2>3. Written(begun, n % 2, 0) # None
    BY <1>2, TalkConstants
  <2> QED
    BY <1>2, <1>3, <2>2, <2>3
<1>4. CASE protocol = "plain"
  <2>1. m = Said("user", None, Written(begun, n % 2, n), NoSignals)
    BY <1>1, <1>4 DEF Opening
  <2>2. m.role = "user" /\ m.hits = NoSignals /\ m.envelope = None /\ m.words = Written(begun, n % 2, n)
    BY <2>1 DEF Said
  <2> QED
    BY <1>2, <1>4, <2>2
<1> QED
  BY <1>2, <1>3, <1>4

LEMMA MessageIs ==
  ASSUME TalkIInv, NEW m \in Messages
  PROVE  /\ m.role \in {"user", "assistant"} /\ m.hits \in AnySignals
         /\ m \notin Openings \cup Shown => m.envelope = None
<1>1. CASE m \in Openings
  BY <1>1, OpeningIs, TalkConstants
<1>2. CASE m = Answer
  BY <1>2, TalkConstants DEF Answer, Said
<1>3. CASE m \in Results
  BY <1>3, TalkConstants DEF Results, Said
<1>4. CASE m \in Shown
  BY <1>4, TalkConstants DEF Shown, Said
<1> QED
  BY <1>1, <1>2, <1>3, <1>4 DEF Messages

LEMMA InitTalkIInv == TalkInit => TalkIInv
<1> SUFFICES ASSUME TalkInit PROVE TalkIInv
  OBVIOUS
<1>1. Opening(1) \in Openings
  BY DEF Openings
<1>2. turns = <<Opening(1)>> /\ turns \in Seq(Messages)
  BY <1>1 DEF TalkInit, Messages
<1>3. protocol = "plain" => Opening(1).envelope = None
  BY DEF Opening, Said
<1> QED
  <2>1. turns # <<>> /\ turns[1] = Opening(1) /\ DOMAIN turns = {1}
    BY <1>2
  <2>2. protocol \in {"envelope", "plain"} /\ begun \in TaskTexts /\ quoted \in BOOLEAN /\ talked \in Nat
    BY DEF TalkInit
  <2> QED
    BY <1>1, <1>2, <1>3, <2>1, <2>2 DEF TalkIInv

\* A turn: the first message is rendered anew, an answer and a result follow.
LEMMA AnsweredKeeps ==
  ASSUME TalkIInv, NEW result \in Results \cup Shown, NEW keep \in BOOLEAN, Answered(result, keep),
         UNCHANGED quoted \/ quoted' = TRUE, quoted' = FALSE => result \in Results
  PROVE  TalkIInv'
<1>1. talked' \in Nat /\ UNCHANGED <<protocol, begun>> /\ Opening(talked') \in Openings /\ Openings' = Openings
  BY DEF TalkIInv, Answered, Openings, Opening
<1>2. Messages' = Messages
  BY <1>1 DEF Messages
<1> DEFINE old == IF keep THEN Tail(turns) ELSE <<>>
           rest == <<Answer, result>>
<1>3. turns' = <<Opening(talked')>> \o old \o rest
  BY <1>1 DEF Answered, Answer, Opening
<1>4. old \in Seq(Messages) /\ \A i \in DOMAIN old : \E j \in DOMAIN turns : old[i] = turns[j]
  BY DEF TalkIInv
<1>5. rest \in Seq(Messages) /\ Len(rest) = 2 /\ rest[1] = Answer /\ rest[2] = result
  BY DEF Messages
<1> HIDE DEF old, rest
<1>6. <<Opening(talked')>> \in Seq(Messages)
  BY <1>1 DEF Messages
<1>7. /\ turns' \in Seq(Messages) /\ turns'[1] = Opening(talked') /\ turns' # <<>>
      /\ \A i \in DOMAIN turns' : \/ turns'[i] = Opening(talked') \/ turns'[i] = Answer \/ turns'[i] = result
                                   \/ \E j \in DOMAIN turns : turns'[i] = turns[j]
  <2> DEFINE s == <<Opening(talked')>> \o old
  <2>1. s \in Seq(Messages) /\ s[1] = Opening(talked') /\ Len(s) >= 1
        /\ \A i \in DOMAIN s : s[i] = Opening(talked') \/ \E j \in DOMAIN turns : s[i] = turns[j]
    BY <1>4, <1>6
  <2> HIDE DEF s
  <2>2. turns' = s \o rest
    BY <1>3 DEF s
  <2>3. turns' \in Seq(Messages) /\ turns'[1] = s[1] /\ Len(turns') = Len(s) + 2
    <3>0. s \in Seq(Messages) /\ rest \in Seq(Messages) /\ Len(rest) = 2
      BY <2>1, <1>5
    <3>1. s \o rest \in Seq(Messages) /\ Len(s \o rest) = Len(s) + Len(rest)
      BY <3>0, ConcatProperties
    <3>2. (s \o rest)[1] = s[1]
      BY <2>1, <1>5
    <3> QED
      BY <2>2, <3>0, <3>1, <3>2
  <2>4. ASSUME NEW i \in DOMAIN turns'
        PROVE  \/ i \in DOMAIN s /\ turns'[i] = s[i]
               \/ turns'[i] = rest[1] \/ turns'[i] = rest[2]
    <3>1. i \in 1..(Len(s) + 2) /\ Len(s) \in Nat
      BY <2>1, <2>3
    <3>2. CASE i <= Len(s)
      BY <3>1, <3>2, <2>1, <2>2, <1>5
    <3>3. CASE i = Len(s) + 1
      BY <3>3, <2>1, <2>2, <1>5
    <3>4. CASE i = Len(s) + 2
      BY <3>4, <2>1, <2>2, <1>5
    <3> QED
      BY <3>1, <3>2, <3>3, <3>4
  <2>5. turns' # <<>>
    BY <2>3, <2>1
  <2> QED
    BY <2>1, <2>3, <2>4, <2>5, <1>5
<1>8. protocol = "plain" /\ ~quoted' => \A i \in DOMAIN turns' : turns'[i].envelope = None
  <2> SUFFICES ASSUME protocol = "plain", ~quoted', NEW i \in DOMAIN turns' PROVE turns'[i].envelope = None
    OBVIOUS
  <2>1. result \in Results /\ ~quoted
    BY DEF TalkIInv
  <2>2. Answer.envelope = None /\ result.envelope = None
    BY <2>1 DEF Answer, Results, Said
  <2>3. Opening(talked').envelope = None
    BY <1>1, OpeningIs
  <2> QED
    BY <1>7, <2>1, <2>2, <2>3 DEF TalkIInv
<1>9. quoted' \in BOOLEAN
  BY DEF TalkIInv
<1> QED
  BY <1>1, <1>2, <1>7, <1>8, <1>9 DEF TalkIInv

LEMMA TalkStepKeeps == TalkIInv /\ [TalkNext]_talkVars => TalkIInv'
<1> SUFFICES ASSUME TalkIInv, [TalkNext]_talkVars PROVE TalkIInv'
  OBVIOUS
<1>1. ASSUME NEW keep \in BOOLEAN, NEW h \in Signals, ToolResult(h, keep) PROVE TalkIInv'
  <2>1. Said("user", None, None, h) \in Results
    BY DEF Results
  <2> QED
    BY <1>1, <2>1, AnsweredKeeps DEF ToolResult
<1>2. ASSUME NEW keep \in BOOLEAN, NEW t \in TaskTexts, ShowsEnvelope(t, keep) PROVE TalkIInv'
  <2>1. Said("user", Written(t, 0, 0), None, NoSignals) \in Shown
    BY DEF Shown
  <2> QED
    BY <1>2, <2>1, AnsweredKeeps DEF ShowsEnvelope
<1>3. CASE UNCHANGED talkVars
  BY <1>3 DEF TalkIInv, talkVars, Messages, Openings, Opening
<1> QED
  BY <1>1, <1>2, <1>3 DEF TalkNext

\* The reading of a conversation finds the task it began with.
LEMMA TaskFound ==
  ASSUME TalkIInv, protocol = "envelope" \/ ~quoted
  PROVE  \E l \in 0..1 : ExtractUserTask = Written(begun, l, 0)
<1>1. turns \in Seq(Messages) /\ 1 \in DOMAIN turns /\ DOMAIN turns \subseteq Nat \ {0} /\ turns[1] \in Openings
  BY DEF TalkIInv
<1>2. turns[1].role = "user" /\ 1 \in FromUser /\ FromUser \subseteq Nat \ {0}
  BY <1>1, OpeningIs DEF FromUser
<1>3. Min(FromUser) = 1
  <2>0. \A j \in FromUser : j \in Nat \ {0}
    BY <1>2
  <2>1. \A j \in FromUser : 1 <= j
    BY <2>0
  <2>2. \A x \in FromUser : (\A j \in FromUser : x <= j) => x = 1
    <3>1. ASSUME NEW x \in FromUser, \A j \in FromUser : x <= j PROVE x = 1
      <4>1. x \in Nat \ {0} /\ x <= 1
        BY <1>2, <2>0, <3>1
      <4> QED
        BY <4>1
    <3> QED
      BY <3>1
  <2> QED
    BY <1>2, <2>1, <2>2 DEF Min
<1>4. CASE protocol = "envelope"
  <2>1. PICK l \in 0..1 : turns[1].envelope = Written(begun, l, 0) /\ turns[1].envelope # None
    BY <1>1, <1>4, OpeningIs
  <2>2. 1 \in Envelopes /\ Envelopes \subseteq Nat \ {0}
    BY <1>2, <2>1 DEF Envelopes
  <2>3. Min(Envelopes) = 1
    <3>1. \A j \in Envelopes : 1 <= j
      BY <2>2
    <3>2. \A x \in Envelopes : (\A j \in Envelopes : x <= j) => x = 1
      BY <2>2
    <3> QED
      BY <2>2, <3>1, <3>2 DEF Min
  <2> QED
    BY <2>1, <2>2, <2>3 DEF ExtractUserTask
<1>5. CASE protocol = "plain" /\ ~quoted
  <2>1. Envelopes = {}
    BY <1>5 DEF Envelopes, TalkIInv, FromUser
  <2>2. PICK l \in 0..1, n \in Nat : turns[1].words = Written(begun, l, n)
    BY <1>1, <1>5, OpeningIs
  <2>3. [turns[1].words EXCEPT !.details = 0] = Written(begun, l, 0)
    BY <2>2 DEF Written
  <2> QED
    BY <1>3, <2>1, <2>3 DEF ExtractUserTask
<1> QED
  BY <1>4, <1>5 DEF TalkIInv

\* classify() gives the first of its patterns that the task has, and none if it has none.
LEMMA ClassifyIs ==
  ASSUME NEW marks \in SUBSET Marks
  PROVE  /\ Classify(marks) \in marks \cup {None}
         /\ Classify(marks) = None <=> marks = {}
         /\ Classify(marks) = "local" <=> "local" \in marks
<1> DEFINE hits == {i \in 1..5 : Patterns[i] \in marks}
<1>1. DOMAIN Patterns = 1..5 /\ Patterns[1] = "local" /\ Marks = {Patterns[i] : i \in 1..5}
      /\ \A i \in 2..5 : Patterns[i] # "local"
  BY DEF Patterns, Marks
<1>2. CASE marks = {}
  BY <1>1, <1>2, TalkConstants DEF Classify, Marks
<1>3. CASE marks # {}
  <2>1. hits # {}
    BY <1>1, <1>3
  <2>2. \E i \in hits : \A j \in hits : i <= j
    <3>1. CASE 1 \in hits
      BY <3>1
    <3>2. CASE 1 \notin hits /\ 2 \in hits
      BY <3>2
    <3>3. CASE 1 \notin hits /\ 2 \notin hits /\ 3 \in hits
      BY <3>3
    <3>4. CASE 1 \notin hits /\ 2 \notin hits /\ 3 \notin hits /\ 4 \in hits
      BY <3>4
    <3>5. CASE 1 \notin hits /\ 2 \notin hits /\ 3 \notin hits /\ 4 \notin hits
      BY <3>5, <2>1
    <3> QED
      BY <3>1, <3>2, <3>3, <3>4, <3>5
  <2>3. Min(hits) \in hits /\ \A j \in hits : Min(hits) <= j
    BY <2>2 DEF Min
  <2>4. Classify(marks) = Patterns[Min(hits)]
    BY <1>1, <2>1 DEF Classify
  <2> HIDE DEF hits
  <2>5. Min(hits) \in 1..5 /\ Patterns[Min(hits)] \in marks /\ ("local" \in marks => Min(hits) = 1)
    BY <2>3, <1>1 DEF hits
  <2> QED
    BY <1>1, <1>3, <2>4, <2>5, TalkConstants
<1> QED
  BY <1>2, <1>3

LEMMA TaskIsStable == TalkIInv => TaskStable
<1> SUFFICES ASSUME TalkIInv, protocol = "envelope" \/ ~quoted
             PROVE  /\ TaskFingerprint = Written(begun, 0, 0) /\ ModelOverride = begun.tag
                    /\ TaskKind = "local" <=> "local" \in begun.marks
                    /\ TaskKind = "plain" <=> begun.marks = {} /\ begun.tag = None
  BY DEF TaskStable
<1>1. PICK l \in 0..1 : ExtractUserTask = Written(begun, l, 0)
  BY TaskFound
<1>2. TaskFingerprint = Written(begun, 0, 0) /\ ModelOverride = begun.tag /\ ExtractUserTask.marks = begun.marks
  BY <1>1 DEF TaskFingerprint, ModelOverride, Written
<1>3. begun.tag \in TagNames \cup {None} /\ begun.marks \in SUBSET Marks /\ None \notin TagNames \cup Marks
  BY TalkConstants DEF TalkIInv
<1> DEFINE why == Classify(begun.marks)
<1>4. why \in begun.marks \cup {None} /\ (why = None <=> begun.marks = {}) /\ (why = "local" <=> "local" \in begun.marks)
  BY <1>3, ClassifyIs
<1> HIDE DEF why
<1>5. TaskKind = IF why = "local" THEN "local" ELSE IF begun.tag # None THEN begun.tag ELSE IF why # None THEN "complex" ELSE "plain"
  BY <1>2 DEF TaskKind, why
<1>6. (TaskKind = "local") <=> ("local" \in begun.marks)
  BY <1>3, <1>4, <1>5 DEF TagNames
<1>7. (TaskKind = "plain") <=> (begun.marks = {} /\ begun.tag = None)
  BY <1>3, <1>4, <1>5 DEF TagNames
<1> QED
  BY <1>2, <1>6, <1>7

\* What two signals, or two kinds of them, come to.
LEMMA FailureNeeds ==
  ASSUME NEW h \in AnySignals, LooksLikeFailure(h)
  PROVE  /\ h.panic + h.py + h.js + h.err >= 2 /\ h.panic + h.py + h.js >= 1
         /\ \A c \in DOMAIN h : LooksLikeFailure([h EXCEPT ![c] = @ + 1])
<1>1. h.panic \in Nat /\ h.py \in Nat /\ h.js \in Nat /\ h.err \in Nat /\ DOMAIN h = {"panic", "py", "js", "err"}
      /\ h = [panic |-> h.panic, py |-> h.py, js |-> h.js, err |-> h.err]
  BY DEF AnySignals
<1>2. \A g \in AnySignals :
        /\ \A c : c \in Categories(g) <=> \/ c \in {"panic", "py", "js"} /\ g[c] > 0
                                          \/ c = "err" /\ g.err >= 3
  BY DEF Categories
<1>3. h.panic + h.py + h.js + h.err >= 2 /\ h.panic + h.py + h.js >= 1
  <2>1. CASE h.panic >= 2 \/ h.py >= 2 \/ h.js >= 3
    BY <2>1, <1>1
  <2>2. ASSUME NEW c \in Categories(h), NEW d \in Categories(h), c # d
        PROVE  h.panic + h.py + h.js + h.err >= 2 /\ h.panic + h.py + h.js >= 1
    <3>1. c \in {"panic", "py", "js", "err"} /\ d \in {"panic", "py", "js", "err"}
      BY <1>2
    <3>2. /\ (c = "panic" \/ d = "panic") => h.panic >= 1
          /\ (c = "py" \/ d = "py") => h.py >= 1
          /\ (c = "js" \/ d = "js") => h.js >= 1
          /\ (c = "err" \/ d = "err") => h.err >= 3
      BY <1>1, <1>2
    <3> QED
      BY <1>1, <2>2, <3>1, <3>2
  <2> QED
    BY <2>1, <2>2 DEF LooksLikeFailure
<1>4. ASSUME NEW c \in DOMAIN h PROVE LooksLikeFailure([h EXCEPT ![c] = @ + 1])
  <2>1. PICK g \in AnySignals : g = [h EXCEPT ![c] = @ + 1]
    <3>1. h[c] + 1 \in Nat
      BY <1>1
    <3> QED
      BY <1>1, <1>4, <3>1 DEF AnySignals
  <2>2. g.panic >= h.panic /\ g.py >= h.py /\ g.js >= h.js /\ g.err >= h.err
        /\ g.panic \in Nat /\ g.py \in Nat /\ g.js \in Nat /\ g.err \in Nat
    BY <2>1, <1>1, <1>4
  <2>3. \A x \in Categories(h) : x \in Categories(g)
    BY <2>2, <1>1 DEF Categories
  <2>4. LooksLikeFailure(g)
    BY <2>2, <2>3, <1>1 DEF LooksLikeFailure
  <2> QED
    BY <2>1, <2>4
<1> QED
  BY <1>3, <1>4

LEMMA FailuresAreCorroborated == TalkIInv => FailureIsCorroborated
<1> SUFFICES ASSUME TalkIInv, FailedTurn
             PROVE  LET h == Last(turns).hits IN
                    /\ h.panic + h.py + h.js + h.err >= 2 /\ h.panic + h.py + h.js >= 1
                    /\ \A c \in DOMAIN h : LooksLikeFailure([h EXCEPT ![c] = @ + 1])
  BY DEF FailureIsCorroborated
<1>1. Last(turns) \in Messages
  BY DEF TalkIInv, Last
<1>2. Last(turns).hits \in AnySignals
  BY <1>1, MessageIs
<1>3. ~LooksLikeFailure(NoSignals)
  BY DEF LooksLikeFailure, Categories, NoSignals
<1>4. LooksLikeFailure(Last(turns).hits)
  BY <1>3 DEF FailedTurn, LatestToolResult
<1> QED
  BY <1>2, <1>4, FailureNeeds

(* In a conversation of any length, however rendered and cut short: every turn is known
   by the task it began with, and escalates only for failures that two signals of its
   own result corroborate (_extract_user_task, classify, _looks_like_failure). *)
THEOREM TurnsAreUnderstood == TalkSpec => []TalkUnderstood
<1>1. TalkIInv => TalkUnderstood
  BY TaskIsStable, FailuresAreCorroborated DEF TalkUnderstood
<1>2. QED
  BY InitTalkIInv, TalkStepKeeps, <1>1, PTL DEF TalkSpec

----------------------------------------------------------------------------
(* ThinkStream *)

\* What the reference is in between two letters.
SortStates == [think : BOOLEAN, skip : Nat, out : [Channels -> Seq(Letters)]]
At(think, skip, out) == [think |-> think, skip |-> skip, out |-> out]

\* tag stands at the i-th letter of s.
Stands(s, i, tag) == i + Len(tag) - 1 <= Len(s) /\ SubSeq(s, i, i + Len(tag) - 1) = tag

\* The inductive invariant: p letters of the text are sorted, q are read.
StreamIInv ==
    /\ text \in Seq(Letters) /\ inThink \in BOOLEAN
    /\ \E q \in 0..Len(text) : \E p \in 0..q :
         /\ buffer = SubSeq(text, p + 1, q)
         /\ coming = SubSeq(text, q + 1, Len(text))
         /\ Sorting(text)[p] = At(inThink, 0, sent)
    /\ buffer = Upto(TagOf(inThink), Len(buffer)) /\ Len(buffer) < Len(TagOf(inThink))
    /\ ended => coming = <<>>

\* A set of numbers that is not empty has a least one.
LEMMA LeastNumber ==
  ASSUME NEW S \in SUBSET Nat, S # {}
  PROVE \E n \in S : \A m \in S : n <= m
<1> DEFINE T == {1..n : n \in S}
           Order == StrictSubsetOrdering(Nat)
<1>1. T \subseteq FiniteSubsetsOf(Nat) /\ T # {}
  <2>1. ASSUME NEW n \in S PROVE 1..n \in FiniteSubsetsOf(Nat)
    <3>1. IsFiniteSet(1..n) /\ 1..n \subseteq Nat
      BY FS_Interval
    <3>2. QED
      BY <3>1 DEF FiniteSubsetsOf
  <2>2. QED
    BY <2>1
<1>2. IsWellFoundedOn(Order, FiniteSubsetsOf(Nat))
  BY FS_StrictSubsetOrderingWellFounded
<1>3. PICK x \in T : \A y \in T : ~(<<y, x>> \in Order)
  <2> HIDE DEF T, Order
  <2>1. QED
    BY <1>1, <1>2, WFMin
<1>4. PICK n \in S : x = 1..n
  OBVIOUS
<1>5. ASSUME NEW m \in S, m < n PROVE FALSE
  <2>1. 1..m \in T /\ 1..m \subseteq x /\ n \in x /\ n \notin 1..m /\ x \subseteq Nat
    BY <1>4, <1>5
  <2>2. <<1..m, x>> \in Order
    BY <2>1 DEF StrictSubsetOrdering
  <2>3. QED
    BY <1>3, <2>1, <2>2
<1>6. QED
  BY <1>5

\* What is so at the first number, and at each next one when it is so at the one
\* before, is so up to the last.
LEMMA UpTo ==
  ASSUME NEW a \in Nat, NEW b \in Nat, NEW S, a \in S, \A i \in a + 1..b : i - 1 \in S => i \in S
  PROVE  \A i \in a..b : i \in S
<1> DEFINE bad == {i \in a..b : i \notin S}
<1> SUFFICES ASSUME bad # {} PROVE FALSE
  OBVIOUS
<1>1. PICK i \in bad : \A m \in bad : i <= m
  <2>1. bad \in SUBSET Nat
    OBVIOUS
  <2> HIDE DEF bad
  <2> QED
    BY <2>1, LeastNumber
<1>2. i # a /\ i \in a + 1..b
  OBVIOUS
<1>3. i - 1 \in a..b /\ ~(i <= i - 1)
  BY <1>2
<1>4. i - 1 \notin bad
  BY <1>1, <1>3
<1>5. i - 1 \in S
  BY <1>3, <1>4
<1> QED
  BY <1>2, <1>5

\* A function of the numbers up to n that is defined by what it is at 0 and how it
\* goes on is there.
Recurs(A, n, base, step) == \E g \in [0..n -> A] : g[0] = base /\ \A i \in 1..n : g[i] = step[i][g[i - 1]]

LEMMA RecursionUpTo ==
  ASSUME NEW A, NEW n \in Nat, NEW base \in A, NEW step \in [1..n -> [A -> A]]
  PROVE  Recurs(A, n, base, step)
<1> DEFINE Sol(m, g) == g \in [0..m -> A] /\ g[0] = base /\ \A i \in 1..m : g[i] = step[i][g[i - 1]]
           S == {m \in 0..n : \E g : Sol(m, g)}
<1>1. 0 \in S
  <2> DEFINE h == [i \in 0..0 |-> base]
  <2>1. h \in [0..0 -> A] /\ h[0] = base /\ 0 \in 0..n
    OBVIOUS
  <2> HIDE DEF h
  <2>2. \E g : Sol(0, g)
    BY <2>1
  <2> QED
    BY <2>1, <2>2
<1>2. ASSUME NEW m \in 0 + 1..n, m - 1 \in S PROVE m \in S
  <2>1. PICK g : Sol(m - 1, g)
    BY <1>2
  <2> DEFINE h == [i \in 0..m |-> IF i = m THEN step[m][g[m - 1]] ELSE g[i]]
  <2>2. g[m - 1] \in A /\ step[m] \in [A -> A] /\ \A i \in 0..m - 1 : g[i] \in A
    BY <2>1
  <2>3. h \in [0..m -> A]
    BY <2>2
  <2>4. h[0] = base
    BY <2>1
  <2>5. ASSUME NEW i \in 1..m PROVE h[i] = step[i][h[i - 1]]
    <3>1. h[i - 1] = g[i - 1]
      OBVIOUS
    <3>2. CASE i = m
      BY <3>1, <3>2
    <3>3. CASE i # m
      <4>1. i \in 1..m - 1
        BY <3>3
      <4> QED
        BY <4>1, <3>1, <3>3, <2>1
    <3> QED
      BY <3>2, <3>3
  <2>6. Sol(m, h)
    BY <2>3, <2>4, <2>5
  <2> HIDE DEF h
  <2> QED
    BY <2>6
<1>3. n \in S
  <2> HIDE DEF S
  <2>1. \A i \in 0..n : i \in S
    BY <1>1, <1>2, UpTo
  <2> QED
    BY <2>1
<1> QED
  BY <1>3 DEF Recurs

\* A piece of a piece.
LEMMA Piece ==
  ASSUME NEW S, NEW s \in Seq(S), NEW a \in 1..Len(s) + 1, NEW b \in a - 1..Len(s)
  PROVE  /\ SubSeq(s, a, b) \in Seq(S) /\ Len(SubSeq(s, a, b)) = b - a + 1
         /\ \A i \in 1..b - a + 1 : SubSeq(s, a, b)[i] = s[a + i - 1]
<1>1. \A i \in a..b : s[i] \in S
  <2>1. \A i \in a..b : i \in 1..Len(s)
    BY LenProperties
  <2> QED
    BY <2>1, ElementOfSeq
<1>2. a \in Int /\ b \in Int /\ (a <= b \/ b - a + 1 = 0)
  BY LenProperties
<1> QED
  BY <1>1, <1>2, SubSeqProperties

\* The piece of a sequence after its first a members.
LEMMA PieceAfter ==
  ASSUME NEW V, NEW s \in Seq(V), NEW a \in 0..Len(s), NEW b \in a..Len(s)
  PROVE  /\ SubSeq(s, a + 1, b) \in Seq(V) /\ Len(SubSeq(s, a + 1, b)) = b - a
         /\ \A k \in 1..b - a : SubSeq(s, a + 1, b)[k] = s[a + k]
<1>1. PICK c \in Nat : c = a + 1
  BY LenProperties
<1>2. c \in 1..Len(s) + 1 /\ b \in c - 1..Len(s)
  BY <1>1, LenProperties
<1>3. /\ SubSeq(s, c, b) \in Seq(V) /\ Len(SubSeq(s, c, b)) = b - c + 1
      /\ \A i \in 1..b - c + 1 : SubSeq(s, c, b)[i] = s[c + i - 1]
  BY <1>2, Piece
<1>4. b - c + 1 = b - a /\ \A k \in 1..b - a : c + k - 1 = a + k
  BY <1>1
<1> QED
  BY <1>1, <1>3, <1>4

LEMMA PieceOfPiece ==
  ASSUME NEW S, NEW s \in Seq(S), NEW a \in 1..Len(s) + 1, NEW b \in a - 1..Len(s),
         NEW c \in 1..b - a + 2, NEW d \in c - 1..b - a + 1
  PROVE  SubSeq(SubSeq(s, a, b), c, d) = SubSeq(s, a + c - 1, a + d - 1)
<1> DEFINE u == SubSeq(s, a, b)
<1>1. u \in Seq(S) /\ Len(u) = b - a + 1 /\ \A i \in 1..b - a + 1 : u[i] = s[a + i - 1]
  BY Piece
<1>2. Len(s) \in Nat
  BY LenProperties
<1>3. c \in 1..Len(u) + 1 /\ d \in c - 1..Len(u) /\ a + c - 1 \in 1..Len(s) + 1
      /\ a + d - 1 \in (a + c - 1) - 1..Len(s) /\ (a + d - 1) - (a + c - 1) + 1 = d - c + 1
  BY <1>1, <1>2
<1> HIDE DEF u
<1>4. SubSeq(u, c, d) \in Seq(S) /\ Len(SubSeq(u, c, d)) = d - c + 1
      /\ \A i \in 1..d - c + 1 : SubSeq(u, c, d)[i] = u[c + i - 1]
  BY <1>1, <1>3, Piece
<1> DEFINE e == a + c - 1
           f == a + d - 1
<1>5. SubSeq(s, e, f) \in Seq(S) /\ Len(SubSeq(s, e, f)) = f - e + 1
      /\ \A i \in 1..f - e + 1 : SubSeq(s, e, f)[i] = s[e + i - 1]
  <2>1. e \in 1..Len(s) + 1 /\ f \in e - 1..Len(s)
    BY <1>3
  <2> HIDE DEF e, f
  <2> QED
    BY <2>1, Piece
<1>6. ASSUME NEW i \in 1..d - c + 1 PROVE SubSeq(u, c, d)[i] = SubSeq(s, e, f)[i]
  <2>1. c + i - 1 \in 1..b - a + 1 /\ i \in 1..f - e + 1 /\ a + (c + i - 1) - 1 = e + i - 1
    BY <1>2
  <2>2. SubSeq(u, c, d)[i] = u[c + i - 1] /\ u[c + i - 1] = s[a + (c + i - 1) - 1]
    BY <1>4, <1>1, <2>1
  <2>3. SubSeq(s, e, f)[i] = s[e + i - 1]
    BY <1>5, <2>1
  <2> QED
    BY <2>1, <2>2, <2>3
<1>7. Len(SubSeq(u, c, d)) = Len(SubSeq(s, e, f)) /\ Len(SubSeq(u, c, d)) = d - c + 1
  BY <1>2, <1>4, <1>5
<1>8. SubSeq(u, c, d) = SubSeq(s, e, f)
  <2> HIDE DEF e, f
  <2> QED
    BY <1>4, <1>5, <1>6, <1>7, SeqEqual
<1> QED
  BY <1>8 DEF u

\* A sequence with more after it begins with it.
LEMMA PrefixOfJoined ==
  ASSUME NEW S, NEW a \in Seq(S), NEW u \in Seq(S)
  PROVE  IsPrefix(a, a \o u)
<1> DEFINE b == a \o u
<1>1. PICK l \in Nat, m \in Nat : l = Len(a) /\ m = Len(u)
  BY LenProperties
<1>2. Len(b) = l + m /\ \A k \in 1..l : b[k] = a[k]
  <2>1. Len(a \o u) = l + m /\ \A k \in 1..l + m : (a \o u)[k] = IF k <= l THEN a[k] ELSE u[k - l]
    BY <1>1, ConcatProperties
  <2>2. \A k \in 1..l : k \in 1..l + m /\ k <= l
    OBVIOUS
  <2> QED
    BY <2>1, <2>2
<1>3. b \in Seq(S)
  BY ConcatProperties
<1> HIDE DEF b
<1>4. /\ 1 \in 1..Len(a) + 1 /\ l \in 1 - 1..Len(a) /\ 1 \in 1..Len(b) + 1 /\ l \in 1 - 1..Len(b)
      /\ l - 1 + 1 = l /\ \A k \in 1..l : 1 + k - 1 = k
  BY <1>1, <1>2
<1>5. SubSeq(a, 1, l) \in Seq(S) /\ Len(SubSeq(a, 1, l)) = l /\ \A k \in 1..l : SubSeq(a, 1, l)[k] = a[k]
  BY <1>4, Piece
<1>6. SubSeq(b, 1, l) \in Seq(S) /\ Len(SubSeq(b, 1, l)) = l /\ \A k \in 1..l : SubSeq(b, 1, l)[k] = b[k]
  BY <1>3, <1>4, Piece
<1>7. SubSeq(a, 1, l) = SubSeq(b, 1, l)
  BY <1>2, <1>5, <1>6, SeqEqual
<1>8. Len(a) <= Len(b)
  BY <1>1, <1>2
<1> QED
  BY <1>1, <1>7, <1>8 DEF IsPrefix, b

LEMMA StreamConstants ==
  ASSUME NEW think \in BOOLEAN
  PROVE  /\ TagOf(think) \in Seq(Letters) /\ Len(TagOf(think)) \in Nat /\ Len(TagOf(think)) > 1
         /\ ChannelOf(think) \in Channels
  BY StreamAssumption DEF TagOf, ChannelOf, Channels

LEMMA SilenceIs == Silence \in [Channels -> Seq(Letters)]
<1>1. <<>> \in Seq(Letters)
  BY EmptySeq
<1> QED
  BY <1>1 DEF Silence

\* What On() does to each channel.
LEMMA OnIs ==
  ASSUME NEW out \in [Channels -> Seq(Letters)], NEW think \in BOOLEAN, NEW s \in Seq(Letters)
  PROVE  /\ On(out, think, s) \in [Channels -> Seq(Letters)]
         /\ \A c \in Channels : On(out, think, s)[c] = IF c = ChannelOf(think) THEN out[c] \o s ELSE out[c]
<1>1. ChannelOf(think) \in Channels
  BY StreamConstants
<1>2. out[ChannelOf(think)] \o s \in Seq(Letters)
  BY <1>1, ConcatProperties
<1> QED
  BY <1>1, <1>2 DEF On

LEMMA OnAgain ==
  ASSUME NEW out \in [Channels -> Seq(Letters)], NEW think \in BOOLEAN,
         NEW s \in Seq(Letters), NEW u \in Seq(Letters)
  PROVE  On(On(out, think, s), think, u) = On(out, think, s \o u)
<1>1. s \o u \in Seq(Letters)
  BY ConcatProperties
<1>2. On(out, think, s) \in [Channels -> Seq(Letters)]
  BY OnIs
<1> DEFINE m == On(out, think, s)
           l == On(m, think, u)
           r == On(out, think, s \o u)
<1>3. /\ m \in [Channels -> Seq(Letters)] /\ l \in [Channels -> Seq(Letters)] /\ r \in [Channels -> Seq(Letters)]
      /\ \A c \in Channels : m[c] = IF c = ChannelOf(think) THEN out[c] \o s ELSE out[c]
      /\ \A c \in Channels : l[c] = IF c = ChannelOf(think) THEN m[c] \o u ELSE m[c]
      /\ \A c \in Channels : r[c] = IF c = ChannelOf(think) THEN out[c] \o (s \o u) ELSE out[c]
  <2>1. m \in [Channels -> Seq(Letters)] /\ \A c \in Channels : m[c] = IF c = ChannelOf(think) THEN out[c] \o s ELSE out[c]
    BY OnIs
  <2>2. r \in [Channels -> Seq(Letters)]
        /\ \A c \in Channels : r[c] = IF c = ChannelOf(think) THEN out[c] \o (s \o u) ELSE out[c]
    BY <1>1, OnIs
  <2> HIDE DEF m
  <2>3. l \in [Channels -> Seq(Letters)] /\ \A c \in Channels : l[c] = IF c = ChannelOf(think) THEN m[c] \o u ELSE m[c]
    BY <2>1, OnIs
  <2> QED
    BY <2>1, <2>2, <2>3
<1> HIDE DEF m, l, r
<1>4. ASSUME NEW c \in Channels PROVE l[c] = r[c]
  <2>1. CASE c = ChannelOf(think)
    <3>1. l[c] = (out[c] \o s) \o u /\ r[c] = out[c] \o (s \o u)
      BY <1>3, <2>1
    <3>2. out[c] \in Seq(Letters)
      OBVIOUS
    <3>3. \A a \in Seq(Letters) : (a \o s) \o u = a \o (s \o u)
      BY ConcatAssociative
    <3> QED
      BY <3>1, <3>2, <3>3
  <2>2. CASE c # ChannelOf(think)
    BY <1>3, <2>2
  <2> QED
    BY <2>1, <2>2
<1>5. l = r
  BY <1>3, <1>4
<1> QED
  BY <1>5 DEF m, l, r

LEMMA OnNothing ==
  ASSUME NEW out \in [Channels -> Seq(Letters)], NEW think \in BOOLEAN
  PROVE  On(out, think, <<>>) = out
<1>1. <<>> \in Seq(Letters)
  BY EmptySeq
<1> DEFINE l == On(out, think, <<>>)
<1>2. l \in [Channels -> Seq(Letters)] /\ \A c \in Channels : l[c] = IF c = ChannelOf(think) THEN out[c] \o <<>> ELSE out[c]
  BY <1>1, OnIs
<1> HIDE DEF l
<1>3. \A c \in Channels : out[c] \o <<>> = out[c]
  BY ConcatEmptySeq
<1>4. l = out
  BY <1>2, <1>3
<1> QED
  BY <1>4 DEF l

\* Each letter takes the reference from a state to a state.
LEMMA SortIs ==
  ASSUME NEW s \in Seq(Letters), NEW i \in 1..Len(s), NEW was \in SortStates
  PROVE  Sort(s, i, was) \in SortStates
<1>1. s[i] \in Letters
  BY ElementOfSeq
<1>2. <<s[i]>> \in Seq(Letters)
  BY <1>1
<1>3. On(was.out, was.think, <<s[i]>>) \in [Channels -> Seq(Letters)]
  BY <1>2, OnIs DEF SortStates
<1>4. Len(TagOf(was.think)) - 1 \in Nat
  BY StreamConstants DEF SortStates
<1>5. CASE was.skip > 0
  <2>1. was.skip - 1 \in Nat
    BY <1>5 DEF SortStates
  <2>2. Sort(s, i, was) = [was EXCEPT !.skip = was.skip - 1]
    BY <1>5 DEF Sort
  <2> QED
    BY <2>1, <2>2 DEF SortStates
<1>6. CASE ~(was.skip > 0)
  <2> DEFINE whole == i + Len(TagOf(was.think)) - 1 <= Len(s)
                      /\ SubSeq(s, i, i + Len(TagOf(was.think)) - 1) = TagOf(was.think)
             out == On(was.out, was.think, <<s[i]>>)
  <2>1. Sort(s, i, was) = IF whole THEN [was EXCEPT !.think = ~was.think, !.skip = Len(TagOf(was.think)) - 1]
                          ELSE [was EXCEPT !.out = out]
    BY <1>6 DEF Sort
  <2> HIDE DEF whole, out
  <2>2. out \in [Channels -> Seq(Letters)]
    BY <1>3 DEF out
  <2> QED
    BY <2>1, <2>2, <1>4 DEF SortStates
<1> QED
  BY <1>5, <1>6

LEMMA SortingIs ==
  ASSUME NEW s \in Seq(Letters)
  PROVE  /\ Sorting(s) \in [0..Len(s) -> SortStates]
         /\ Sorting(s)[0] = At(FALSE, 0, Silence)
         /\ \A i \in 1..Len(s) : Sorting(s)[i] = Sort(s, i, Sorting(s)[i - 1])
<1> DEFINE n == Len(s)
           base == At(FALSE, 0, Silence)
           step == [i \in 1..n |-> [was \in SortStates |-> Sort(s, i, was)]]
           Eq(g) == g = [i \in 0..n |-> IF i = 0 THEN [think |-> FALSE, skip |-> 0, out |-> Silence]
                                        ELSE Sort(s, i, g[i - 1])]
<1>1. n \in Nat /\ base \in SortStates
  BY LenProperties, SilenceIs DEF SortStates, At
<1>2. step \in [1..n -> [SortStates -> SortStates]]
  BY SortIs
<1>3. \E g : Eq(g)
  <2>1. PICK g \in [0..n -> SortStates] : g[0] = base /\ \A i \in 1..n : g[i] = step[i][g[i - 1]]
    <3>1. Recurs(SortStates, n, base, step)
      <4> HIDE DEF n, base, step
      <4> QED
        BY <1>1, <1>2, RecursionUpTo
    <3> HIDE DEF step
    <3> QED
      BY <3>1 DEF Recurs
  <2>2. ASSUME NEW i \in 0..n PROVE g[i] = IF i = 0 THEN [think |-> FALSE, skip |-> 0, out |-> Silence]
                                           ELSE Sort(s, i, g[i - 1])
    <3>1. CASE i = 0
      BY <2>1, <3>1 DEF At
    <3>2. CASE i # 0
      <4>1. i \in 1..n /\ g[i - 1] \in SortStates
        BY <3>2, <1>1
      <4> QED
        BY <4>1, <3>2, <2>1
    <3> QED
      BY <3>1, <3>2
  <2>3. Eq(g)
    BY <2>2
  <2> QED
    BY <2>3
<1>4. Sorting(s) = CHOOSE g : Eq(g)
  BY DEF Sorting
<1>5. Eq(Sorting(s))
  <2> HIDE DEF Eq
  <2> QED
    BY <1>3, <1>4
<1>6. Sorting(s)[0] = base /\ \A i \in 1..n : Sorting(s)[i] = Sort(s, i, Sorting(s)[i - 1])
  <2>1. \A i \in 0..n : Sorting(s)[i] = IF i = 0 THEN [think |-> FALSE, skip |-> 0, out |-> Silence]
                                        ELSE Sort(s, i, Sorting(s)[i - 1])
    BY <1>5
  <2>2. 0 \in 0..n /\ \A i \in 1..n : i \in 0..n /\ i # 0
    BY <1>1
  <2> QED
    BY <2>1, <2>2 DEF At
<1>7. \A i \in 0..n : Sorting(s)[i] \in SortStates
  <2> DEFINE S == {i \in 0..n : Sorting(s)[i] \in SortStates}
  <2>1. 0 \in S
    <3>1. 0 \in 0..n /\ Sorting(s)[0] \in SortStates
      <4> HIDE DEF base, n
      <4> QED
        BY <1>1, <1>6
    <3> QED
      BY <3>1
  <2>2. ASSUME NEW i \in 0 + 1..n, i - 1 \in S PROVE i \in S
    BY <1>1, <1>6, <2>2, SortIs
  <2>3. \A i \in 0..n : i \in S
    <3> HIDE DEF S
    <3> QED
      BY <1>1, <2>1, <2>2, UpTo
  <2> QED
    BY <2>3
<1>8. Sorting(s) \in [0..n -> SortStates]
  <2>1. DOMAIN Sorting(s) = 0..n /\ Sorting(s) = [i \in 0..n |-> Sorting(s)[i]]
    BY <1>5
  <2> QED
    BY <2>1, <1>7
<1> QED
  BY <1>6, <1>8

LEMMA AtIs ==
  ASSUME NEW think \in BOOLEAN, NEW skip \in Nat, NEW out \in [Channels -> Seq(Letters)]
  PROVE  At(think, skip, out) \in SortStates
  BY DEF At, SortStates

\* A stretch of the text where no tag stands goes to one channel.
LEMMA RunsOn ==
  ASSUME NEW s \in Seq(Letters), NEW p \in 0..Len(s), NEW q \in p..Len(s),
         NEW think \in BOOLEAN, NEW out \in [Channels -> Seq(Letters)],
         Sorting(s)[p] = At(think, 0, out),
         \A i \in p + 1..q : ~Stands(s, i, TagOf(think))
  PROVE  Sorting(s)[q] = At(think, 0, On(out, think, SubSeq(s, p + 1, q)))
<1> DEFINE Gone(i) == On(out, think, SubSeq(s, p + 1, i))
           S == {i \in p..q : Sorting(s)[i] = At(think, 0, Gone(i))}
<1>0. Len(s) \in Nat /\ p \in Nat /\ q \in Nat
  BY LenProperties
<1>1. p \in S
  <2>1. SubSeq(s, p + 1, p) = <<>>
    BY <1>0, SubSeqEmpty
  <2>2. Gone(p) = out
    BY <2>1, OnNothing
  <2> QED
    BY <2>2, <1>0
<1>2. ASSUME NEW i \in p + 1..q, i - 1 \in S PROVE i \in S
  <2>1. i \in 1..Len(s) /\ p + 1 \in 1..Len(s) /\ i \in p + 1..Len(s) /\ i - 1 \in (p + 1) - 1..Len(s)
    BY <1>0
  <2>2. SubSeq(s, p + 1, i) = SubSeq(s, p + 1, i - 1) \o <<s[i]>>
    BY <2>1, SubSeqRecursiveSecond
  <2>3. SubSeq(s, p + 1, i - 1) \in Seq(Letters)
    <3>1. p + 1 \in 1..Len(s) + 1
      BY <1>0
    <3> QED
      BY <2>1, <3>1, Piece
  <2>4. <<s[i]>> \in Seq(Letters)
    <3>1. s[i] \in Letters
      BY <2>1, ElementOfSeq
    <3> QED
      BY <3>1
  <2>5. On(Gone(i - 1), think, <<s[i]>>) = Gone(i)
    <3> DEFINE u == SubSeq(s, p + 1, i - 1)
               v == <<s[i]>>
    <3>1. u \in Seq(Letters) /\ v \in Seq(Letters) /\ SubSeq(s, p + 1, i) = u \o v
      BY <2>2, <2>3, <2>4
    <3> HIDE DEF u, v
    <3>2. On(On(out, think, u), think, v) = On(out, think, u \o v)
      BY <3>1, OnAgain
    <3> QED
      BY <3>1, <3>2 DEF u, v
  <2>6. Sorting(s)[i - 1] = At(think, 0, Gone(i - 1))
    BY <1>2
  <2>7. Sorting(s)[i] = Sort(s, i, Sorting(s)[i - 1])
    BY <2>1, SortingIs
  <2> HIDE DEF Gone
  <2>8. Sorting(s)[i] = [At(think, 0, Gone(i - 1)) EXCEPT !.out = On(Gone(i - 1), think, <<s[i]>>)]
    BY <2>6, <2>7 DEF Sort, At, Stands
  <2>9. Sorting(s)[i] = At(think, 0, Gone(i))
    BY <2>5, <2>8 DEF At
  <2> QED
    BY <2>9, <1>0
<1>3. q \in S
  <2> HIDE DEF S
  <2>1. \A i \in p..q : i \in S
    BY <1>0, <1>1, <1>2, UpTo
  <2> QED
    BY <2>1, <1>0
<1> QED
  BY <1>3

\* A tag is skipped, and the mode changes.
LEMMA SkipsTag ==
  ASSUME NEW s \in Seq(Letters), NEW p \in 0..Len(s),
         NEW think \in BOOLEAN, NEW out \in [Channels -> Seq(Letters)],
         Sorting(s)[p] = At(think, 0, out), Stands(s, p + 1, TagOf(think))
  PROVE  p + Len(TagOf(think)) \in 0..Len(s) /\ Sorting(s)[p + Len(TagOf(think))] = At(~think, 0, out)
<1>1. PICK n \in Nat : n = Len(TagOf(think)) /\ n > 1
  BY StreamConstants
<1>2. PICK l \in Nat : l = Len(s)
  BY LenProperties
<1>3. p \in Nat /\ p + n <= l
  BY <1>1, <1>2 DEF Stands
<1> DEFINE S == {i \in p + 1..p + n : Sorting(s)[i] = At(~think, p + n - i, out)}
<1>4. p + 1 \in S
  <2>1. p + 1 \in 1..Len(s) /\ (p + 1) - 1 = p
    BY <1>1, <1>2, <1>3
  <2>2. Sorting(s)[p + 1] = Sort(s, p + 1, Sorting(s)[p])
    BY <2>1, SortingIs
  <2> DEFINE was == Sorting(s)[p]
  <2>5. was.think = think /\ ~(was.skip > 0)
    BY DEF At
  <2>6. Sorting(s)[p + 1] = [was EXCEPT !.think = ~was.think, !.skip = Len(TagOf(was.think)) - 1]
    BY <2>2, <2>5 DEF Sort, Stands
  <2>7. Sorting(s)[p + 1] = [was EXCEPT !.think = ~think, !.skip = n - 1]
    BY <2>5, <2>6, <1>1
  <2>8. PICK k, b, m : k = n - 1 /\ b = ~think /\ m = [At(think, 0, out) EXCEPT !.think = b]
    OBVIOUS
  <2>9. m = At(b, 0, out)
    BY <2>8 DEF At
  <2>10. [m EXCEPT !.skip = k] = At(b, k, out)
    BY <2>9 DEF At
  <2>3. Sorting(s)[p + 1] = At(~think, n - 1, out)
    BY <2>7, <2>8, <2>10
  <2>4. n - 1 = p + n - (p + 1) /\ p + 1 \in p + 1..p + n
    BY <1>1, <1>3
  <2> QED
    BY <2>3, <2>4
<1>5. ASSUME NEW i \in (p + 1) + 1..p + n, i - 1 \in S PROVE i \in S
  <2>1. i \in 1..Len(s) /\ p + n - (i - 1) > 0 /\ (p + n - (i - 1)) - 1 = p + n - i /\ i \in p + 1..p + n
    BY <1>1, <1>2, <1>3
  <2>2. Sorting(s)[i] = Sort(s, i, Sorting(s)[i - 1])
    BY <2>1, SortingIs
  <2>3. Sorting(s)[i - 1] = At(~think, p + n - (i - 1), out)
    BY <1>5
  <2> DEFINE k == p + n - (i - 1)
  <2>4. Sorting(s)[i] = At(~think, k - 1, out)
    <3>1. k > 0 /\ Sorting(s)[i - 1] = At(~think, k, out)
      BY <2>1, <2>3
    <3> HIDE DEF k
    <3> QED
      BY <2>2, <3>1 DEF Sort, At
  <2> QED
    BY <2>1, <2>4
<1>6. p + n \in S
  <2> HIDE DEF S
  <2>1. p + 1 \in Nat /\ p + n \in Nat /\ p + n \in p + 1..p + n
    BY <1>1, <1>3
  <2>2. \A i \in p + 1..p + n : i \in S
    BY <2>1, <1>4, <1>5, UpTo
  <2> QED
    BY <2>1, <2>2
<1>7. p + n - (p + n) = 0 /\ p + n \in 0..Len(s)
  BY <1>1, <1>2, <1>3
<1> QED
  BY <1>1, <1>6, <1>7

\* Find() is the first place where the tag stands.
LEMMA FindIs ==
  ASSUME NEW s \in Seq(Letters), NEW tag \in Seq(Letters)
  PROVE  /\ Find(s, tag) = 0 => \A j \in 1..Len(s) - Len(tag) + 1 : ~Stands(s, j, tag)
         /\ Find(s, tag) # 0 => /\ Find(s, tag) \in 1..Len(s) - Len(tag) + 1
                                /\ Stands(s, Find(s, tag), tag)
                                /\ \A j \in 1..Find(s, tag) - 1 : ~Stands(s, j, tag)
<1> DEFINE hits == {i \in 1..(Len(s) - Len(tag) + 1) : SubSeq(s, i, i + Len(tag) - 1) = tag}
<1>0. Len(s) \in Nat /\ Len(tag) \in Nat
  BY LenProperties
<1>1. \A i \in 1..Len(s) - Len(tag) + 1 : i \in hits <=> Stands(s, i, tag)
  BY <1>0 DEF Stands
<1>2. hits \in SUBSET Nat /\ hits \subseteq 1..Len(s) - Len(tag) + 1
  BY <1>0
<1>3. Find(s, tag) = IF hits = {} THEN 0 ELSE CHOOSE i \in hits : \A j \in hits : i <= j
  BY DEF Find
<1> HIDE DEF hits
<1>4. hits # {} => Find(s, tag) \in hits /\ \A j \in hits : Find(s, tag) <= j
  BY <1>2, <1>3, LeastNumber
<1>5. CASE hits = {}
  BY <1>1, <1>3, <1>5
<1>6. CASE hits # {}
  <2> DEFINE at == Find(s, tag)
  <2>3. at \in hits
    BY <1>4, <1>6
  <2> HIDE DEF at
  <2>4. at \in 1..Len(s) - Len(tag) + 1
    BY <1>2, <2>3
  <2>1. Find(s, tag) \in 1..Len(s) - Len(tag) + 1 /\ Find(s, tag) # 0
    BY <2>4, <1>0 DEF at
  <2>2. ASSUME NEW j \in 1..Find(s, tag) - 1 PROVE ~Stands(s, j, tag)
    <3>1. j \in 1..Len(s) - Len(tag) + 1 /\ ~(Find(s, tag) <= j)
      BY <2>1, <1>0
    <3> QED
      BY <3>1, <1>1, <1>4, <1>6
  <2> QED
    BY <2>1, <2>2, <1>1, <1>4, <1>6
<1> QED
  BY <1>5, <1>6

\* Held() is the longest end of s that the tag begins with.
LEMMA HeldIs ==
  ASSUME NEW s \in Seq(Letters), NEW tag \in Seq(Letters), Len(tag) > 1
  PROVE  /\ Held(s, tag) \in 0..Len(tag) - 1 /\ Held(s, tag) <= Len(s)
         /\ From(s, Len(s) - Held(s, tag) + 1) = Upto(tag, Held(s, tag))
         /\ \A k \in 0..Len(tag) - 1 :
              k <= Len(s) /\ From(s, Len(s) - k + 1) = Upto(tag, k) => k <= Held(s, tag)
<1> DEFINE ks == {k \in 0..(Len(tag) - 1) : k <= Len(s) /\ From(s, Len(s) - k + 1) = Upto(tag, k)}
           far == {Len(tag) - k : k \in ks}
<1>0. Len(s) \in Nat /\ Len(tag) \in Nat
  BY LenProperties
<1>1. 0 \in ks
  <2>1. From(s, Len(s) - 0 + 1) = <<>> /\ Upto(tag, 0) = <<>>
    BY <1>0, SubSeqEmpty DEF From, Upto
  <2> QED
    BY <2>1, <1>0
<1>2. \E m \in ks : \A j \in ks : j <= m
  <2>1. far \in SUBSET Nat /\ far # {}
    BY <1>0, <1>1
  <2>2. PICK n \in far : \A m \in far : n <= m
    <3> HIDE DEF far
    <3> QED
      BY <2>1, LeastNumber
  <2>3. PICK m \in ks : n = Len(tag) - m
    OBVIOUS
  <2>4. ASSUME NEW j \in ks PROVE j <= m
    <3>1. Len(tag) - j \in far
      OBVIOUS
    <3>2. Len(tag) - m <= Len(tag) - j
      BY <2>2, <2>3, <3>1
    <3> QED
      BY <3>2, <1>0
  <2> QED
    BY <2>4
<1>3. Held(s, tag) = CHOOSE k \in ks : \A j \in ks : j <= k
  BY DEF Held
<1>4. Held(s, tag) \in ks /\ \A j \in ks : j <= Held(s, tag)
  <2> HIDE DEF ks
  <2> QED
    BY <1>2, <1>3
<1> QED
  BY <1>4

\* A tag stands in a piece where it stands in the whole.
LEMMA StandsIn ==
  ASSUME NEW s \in Seq(Letters), NEW tag \in Seq(Letters), Len(tag) > 1,
         NEW q \in 0..Len(s), NEW p \in 0..q, NEW i \in 1..q - p - Len(tag) + 1
  PROVE  Stands(SubSeq(s, p + 1, q), i, tag) <=> Stands(s, p + i, tag)
<1>0. Len(s) \in Nat /\ Len(tag) \in Nat
  BY LenProperties
<1> DEFINE a == p + 1
           d == i + Len(tag) - 1
<1>1. a \in 1..Len(s) + 1 /\ q \in a - 1..Len(s) /\ i \in 1..q - a + 2 /\ d \in i - 1..q - a + 1
      /\ a + i - 1 = p + i /\ a + d - 1 = (p + i) + Len(tag) - 1
  BY <1>0
<1> HIDE DEF a, d
<1>2. SubSeq(SubSeq(s, a, q), i, d) = SubSeq(s, a + i - 1, a + d - 1)
  BY <1>1, PieceOfPiece
<1>3. Len(SubSeq(s, a, q)) = q - a + 1
  BY <1>1, Piece
<1>4. SubSeq(SubSeq(s, a, q), i, d) = SubSeq(s, p + i, (p + i) + Len(tag) - 1)
  BY <1>1, <1>2
<1>5. d <= Len(SubSeq(s, a, q)) /\ (p + i) + Len(tag) - 1 <= Len(s)
  BY <1>0, <1>1, <1>3
<1> QED
  BY <1>4, <1>5 DEF Stands, a, d

\* What was sent, and what comes out, channel by channel.
Joined(was, out) == [c \in Channels |-> was[c] \o out[c]]

LEMMA JoinedIs ==
  ASSUME NEW was \in [Channels -> Seq(Letters)], NEW out \in [Channels -> Seq(Letters)]
  PROVE  Joined(was, out) \in [Channels -> Seq(Letters)]
<1>1. ASSUME NEW c \in Channels PROVE was[c] \o out[c] \in Seq(Letters)
  BY ConcatProperties
<1> QED
  BY <1>1 DEF Joined

LEMMA JoinedOn ==
  ASSUME NEW was \in [Channels -> Seq(Letters)], NEW out \in [Channels -> Seq(Letters)],
         NEW think \in BOOLEAN, NEW u \in Seq(Letters)
  PROVE  On(Joined(was, out), think, u) = Joined(was, On(out, think, u))
<1> DEFINE l == On(Joined(was, out), think, u)
           m == On(out, think, u)
<1>1. m \in [Channels -> Seq(Letters)] /\ \A c \in Channels : m[c] = IF c = ChannelOf(think) THEN out[c] \o u ELSE out[c]
  BY OnIs
<1>2. /\ l \in [Channels -> Seq(Letters)]
      /\ \A c \in Channels : l[c] = IF c = ChannelOf(think) THEN Joined(was, out)[c] \o u ELSE Joined(was, out)[c]
  BY JoinedIs, OnIs
<1>3. \A c \in Channels : (was[c] \o out[c]) \o u = was[c] \o (out[c] \o u)
  BY ConcatAssociative
<1> HIDE DEF l, m
<1>4. \A c \in Channels : l[c] = was[c] \o m[c]
  BY <1>1, <1>2, <1>3 DEF Joined
<1>5. l = Joined(was, m)
  BY <1>2, <1>4 DEF Joined
<1> QED
  BY <1>5 DEF l, m

\* The letters of s up to q are sorted or left over in r.
Settled(s, q, was, r) ==
    /\ r.inThink \in BOOLEAN /\ r.out \in [Channels -> Seq(Letters)] /\ r.more \in BOOLEAN
    /\ \E p \in 0..q : /\ r.buffer = SubSeq(s, p + 1, q)
                       /\ Sorting(s)[p] = At(r.inThink, 0, Joined(was, r.out))
    /\ ~r.more => r.buffer = Upto(TagOf(r.inThink), Len(r.buffer)) /\ Len(r.buffer) < Len(TagOf(r.inThink))

LEMMA RoundKeeps ==
  ASSUME NEW s \in Seq(Letters), NEW q \in 0..Len(s), NEW was \in [Channels -> Seq(Letters)],
         NEW r, Settled(s, q, was, r)
  PROVE  Settled(s, q, was, Round(r)) /\ (Round(r).more => Len(Round(r).buffer) < Len(r.buffer))
<1> DEFINE tag == TagOf(r.inThink)
           t == Round(r)
<1>1. PICK p \in 0..q : /\ r.buffer = SubSeq(s, p + 1, q)
                        /\ Sorting(s)[p] = At(r.inThink, 0, Joined(was, r.out))
  BY DEF Settled
<1>2. r.inThink \in BOOLEAN /\ r.out \in [Channels -> Seq(Letters)]
  BY DEF Settled
<1>3. tag \in Seq(Letters) /\ Len(tag) \in Nat /\ Len(tag) > 1
  BY <1>2, StreamConstants
<1>4. r.buffer \in Seq(Letters) /\ Len(r.buffer) = q - p
  <2>1. p + 1 \in 1..Len(s) + 1 /\ q \in (p + 1) - 1..Len(s) /\ q - (p + 1) + 1 = q - p
    BY LenProperties
  <2> QED
    BY <1>1, <2>1, Piece
<1>5. Len(s) \in Nat /\ p \in Nat /\ q \in Nat /\ p <= q /\ q <= Len(s)
  BY LenProperties
<1>6. \A k \in 1..q - p + 1 : \A m \in k - 1..q - p : SubSeq(r.buffer, k, m) = SubSeq(s, p + k, p + m)
  <2> SUFFICES ASSUME NEW k \in 1..q - p + 1, NEW m \in k - 1..q - p
               PROVE  SubSeq(r.buffer, k, m) = SubSeq(s, p + k, p + m)
    OBVIOUS
  <2> DEFINE a == p + 1
  <2>1. a \in 1..Len(s) + 1 /\ q \in a - 1..Len(s) /\ k \in 1..q - a + 2 /\ m \in k - 1..q - a + 1
        /\ a + k - 1 = p + k /\ a + m - 1 = p + m
    BY <1>5
  <2>2. r.buffer = SubSeq(s, a, q)
    BY <1>1
  <2> HIDE DEF a
  <2>3. SubSeq(SubSeq(s, a, q), k, m) = SubSeq(s, a + k - 1, a + m - 1)
    BY <2>1, PieceOfPiece
  <2> QED
    BY <2>1, <2>2, <2>3
<1>7. \A i \in 1..q - p - Len(tag) + 1 : Stands(r.buffer, i, tag) <=> Stands(s, p + i, tag)
  <2> HIDE DEF tag
  <2> QED
    BY <1>1, <1>3, StandsIn
<1>8. CASE Find(r.buffer, tag) # 0
  <2> DEFINE i == Find(r.buffer, tag)
             e == p + i - 1
             u == Upto(r.buffer, i - 1)
  <2>1. t = [buffer |-> From(r.buffer, i + Len(tag)), inThink |-> ~r.inThink,
             out |-> On(r.out, r.inThink, u), more |-> TRUE]
    BY <1>8 DEF Round
  <2>2. i \in 1..q - p - Len(tag) + 1 /\ Stands(r.buffer, i, tag)
        /\ \A j \in 1..i - 1 : ~Stands(r.buffer, j, tag)
    BY <1>3, <1>4, <1>8, FindIs
  <2> HIDE DEF i
  <2>3. e \in 0..Len(s) /\ e \in p..Len(s) /\ e + Len(tag) \in 0..q /\ e + 1 = p + i /\ p \in 0..Len(s)
    BY <1>3, <1>5, <2>2
  <2>4. ASSUME NEW j \in p + 1..e PROVE ~Stands(s, j, tag)
    <3>1. j - p \in 1..i - 1 /\ j - p \in 1..q - p - Len(tag) + 1 /\ p + (j - p) = j
      BY <1>3, <1>5, <2>2
    <3> QED
      BY <3>1, <1>7, <2>2
  <2>5. u = SubSeq(s, p + 1, e) /\ u \in Seq(Letters)
    <3>1. 1 \in 1..q - p + 1 /\ i - 1 \in 1 - 1..q - p /\ p + (i - 1) = e /\ p + 1 \in 1..Len(s) + 1 /\ e \in (p + 1) - 1..Len(s)
      BY <1>3, <1>5, <2>2
    <3>2. u = SubSeq(s, p + 1, p + (i - 1))
      BY <1>6, <3>1 DEF Upto
    <3>3. SubSeq(s, p + 1, e) \in Seq(Letters)
      BY <3>1, Piece
    <3> QED
      BY <3>1, <3>2, <3>3
  <2>6. Sorting(s)[e] = At(r.inThink, 0, On(Joined(was, r.out), r.inThink, SubSeq(s, p + 1, e)))
    <3>1. Joined(was, r.out) \in [Channels -> Seq(Letters)]
      BY <1>2, JoinedIs
    <3> HIDE DEF e
    <3> QED
      BY <1>1, <1>2, <2>3, <2>4, <3>1, RunsOn
  <2>7. On(Joined(was, r.out), r.inThink, SubSeq(s, p + 1, e)) = Joined(was, On(r.out, r.inThink, u))
    <3> HIDE DEF u
    <3>1. On(Joined(was, r.out), r.inThink, u) = Joined(was, On(r.out, r.inThink, u))
      BY <1>2, <2>5, JoinedOn
    <3> QED
      BY <2>5, <3>1
  <2>8. On(r.out, r.inThink, u) \in [Channels -> Seq(Letters)]
    BY <1>2, <2>5, OnIs
  <2>9. Sorting(s)[e + Len(tag)] = At(~r.inThink, 0, Joined(was, On(r.out, r.inThink, u)))
    <3>1. Stands(s, e + 1, tag)
      BY <2>2, <2>3, <1>7
    <3>2. Joined(was, On(r.out, r.inThink, u)) \in [Channels -> Seq(Letters)]
      BY <2>8, JoinedIs
    <3> HIDE DEF e, u
    <3> QED
      BY <1>2, <2>3, <2>6, <2>7, <3>1, <3>2, SkipsTag
  <2>10. t.buffer = SubSeq(s, (e + Len(tag)) + 1, q) /\ Len(t.buffer) = q - (e + Len(tag))
    <3>1. i + Len(tag) \in 1..q - p + 1 /\ q - p \in (i + Len(tag)) - 1..q - p /\ p + (i + Len(tag)) = (e + Len(tag)) + 1
          /\ p + (q - p) = q /\ (e + Len(tag)) + 1 \in 1..Len(s) + 1 /\ q \in ((e + Len(tag)) + 1) - 1..Len(s)
          /\ q - ((e + Len(tag)) + 1) + 1 = q - (e + Len(tag))
      BY <1>3, <1>5, <2>2
    <3>2. t.buffer = SubSeq(r.buffer, i + Len(tag), q - p)
      <4> HIDE DEF t, u, tag
      <4>1. t.buffer = From(r.buffer, i + Len(tag))
        BY <2>1
      <4> QED
        BY <4>1, <1>4 DEF From
    <3>3. t.buffer = SubSeq(s, (e + Len(tag)) + 1, q)
      BY <1>6, <3>1, <3>2
    <3>4. e + Len(tag) \in 0..Len(s) /\ q \in e + Len(tag)..Len(s)
      BY <1>3, <1>5, <2>2
    <3> HIDE DEF e, t
    <3> QED
      BY <3>3, <3>4, PieceAfter
  <2>11. Len(t.buffer) < Len(r.buffer)
    BY <2>10, <1>3, <1>4, <1>5, <2>2
  <2>12. t.inThink = ~r.inThink /\ t.out = On(r.out, r.inThink, u) /\ t.more = TRUE
    BY <2>1
  <2> HIDE DEF t, e, u, tag
  <2>13. Settled(s, q, was, t)
    BY <1>2, <2>3, <2>8, <2>9, <2>10, <2>12 DEF Settled
  <2> QED
    BY <2>11, <2>13 DEF t
<1>9. CASE Find(r.buffer, tag) = 0
  <2> DEFINE hold == Held(r.buffer, tag)
             e == q - hold
             u == Upto(r.buffer, Len(r.buffer) - hold)
  <2>1. t = [buffer |-> From(r.buffer, Len(r.buffer) - hold + 1), inThink |-> r.inThink,
             out |-> On(r.out, r.inThink, u), more |-> FALSE]
    BY <1>9 DEF Round
  <2>2. /\ hold \in 0..Len(tag) - 1 /\ hold <= q - p
        /\ From(r.buffer, Len(r.buffer) - hold + 1) = Upto(tag, hold)
        /\ \A k \in 0..Len(tag) - 1 : k <= Len(r.buffer) /\ From(r.buffer, Len(r.buffer) - k + 1) = Upto(tag, k) => k <= hold
    <3> HIDE DEF tag
    <3> QED
      BY <1>3, <1>4, HeldIs
  <2>3. \A j \in 1..q - p - Len(tag) + 1 : ~Stands(s, p + j, tag)
    <3>1. \A j \in 1..Len(r.buffer) - Len(tag) + 1 : ~Stands(r.buffer, j, tag)
      BY <1>3, <1>4, <1>9, FindIs
    <3> QED
      BY <3>1, <1>4, <1>7
  <2> HIDE DEF hold
  <2>4. e \in p..Len(s) /\ e \in 0..q /\ q - p - hold = e - p /\ p \in 0..Len(s)
    BY <1>5, <2>2
  <2>5. ASSUME NEW j \in p + 1..e PROVE ~Stands(s, j, tag)
    <3>1. CASE j - p <= q - p - Len(tag) + 1
      <4>1. j - p \in 1..q - p - Len(tag) + 1 /\ p + (j - p) = j
        BY <3>1, <1>3, <1>5
      <4> QED
        BY <4>1, <2>3
    <3>2. CASE ~(j - p <= q - p - Len(tag) + 1)
      <4> DEFINE k == q - j + 1
                 m == j - p
      <4>1. k \in 0..Len(tag) - 1 /\ k <= Len(r.buffer) /\ ~(k <= hold) /\ Len(r.buffer) - k + 1 = m
        BY <3>2, <1>3, <1>4, <1>5, <2>2
      <4>2. m \in 1..q - p + 1 /\ q - p \in m - 1..q - p /\ p + m = j /\ p + (q - p) = q
        BY <1>5, <2>2
      <4>3. From(r.buffer, Len(r.buffer) - k + 1) = SubSeq(s, j, q)
        <5> HIDE DEF m, k
        <5>1. From(r.buffer, Len(r.buffer) - k + 1) = SubSeq(r.buffer, m, q - p)
          BY <4>1, <1>4 DEF From
        <5> QED
          BY <5>1, <4>2, <1>6
      <4>4. SubSeq(s, j, q) # Upto(tag, k)
        BY <4>1, <4>3, <2>2
      <4> SUFFICES ASSUME Stands(s, j, tag) PROVE FALSE
        OBVIOUS
      <4>5. j + Len(tag) - 1 <= Len(s) /\ SubSeq(s, j, j + Len(tag) - 1) = tag
        BY DEF Stands
      <4>6. j \in 1..Len(s) + 1 /\ j + Len(tag) - 1 \in j - 1..Len(s) /\ k \in 1 - 1..(j + Len(tag) - 1) - j + 1
            /\ 1 \in 1..(j + Len(tag) - 1) - j + 2 /\ j + 1 - 1 = j /\ j + k - 1 = q
        BY <4>1, <4>5, <1>3, <1>5
      <4> HIDE DEF k
      <4>7. SubSeq(SubSeq(s, j, j + Len(tag) - 1), 1, k) = SubSeq(s, j + 1 - 1, j + k - 1)
        BY <4>6, PieceOfPiece
      <4> QED
        BY <4>4, <4>5, <4>6, <4>7 DEF Upto
    <3> QED
      BY <3>1, <3>2
  <2>6. u = SubSeq(s, p + 1, e) /\ u \in Seq(Letters)
    <3>1. 1 \in 1..q - p + 1 /\ q - p - hold \in 1 - 1..q - p /\ p + (q - p - hold) = e /\ p + 1 \in 1..Len(s) + 1 /\ e \in (p + 1) - 1..Len(s)
      BY <1>5, <2>2
    <3>2. u = SubSeq(s, p + 1, p + (q - p - hold))
      BY <1>4, <1>6, <3>1 DEF Upto
    <3>3. SubSeq(s, p + 1, e) \in Seq(Letters)
      BY <3>1, Piece
    <3> QED
      BY <3>1, <3>2, <3>3
  <2>7. Sorting(s)[e] = At(r.inThink, 0, On(Joined(was, r.out), r.inThink, SubSeq(s, p + 1, e)))
    <3>1. Joined(was, r.out) \in [Channels -> Seq(Letters)]
      BY <1>2, JoinedIs
    <3> HIDE DEF e
    <3> QED
      BY <1>1, <1>2, <2>4, <2>5, <3>1, RunsOn
  <2>8. On(Joined(was, r.out), r.inThink, SubSeq(s, p + 1, e)) = Joined(was, On(r.out, r.inThink, u))
    <3> HIDE DEF u
    <3>1. On(Joined(was, r.out), r.inThink, u) = Joined(was, On(r.out, r.inThink, u))
      BY <1>2, <2>6, JoinedOn
    <3> QED
      BY <2>6, <3>1
  <2>9. On(r.out, r.inThink, u) \in [Channels -> Seq(Letters)]
    BY <1>2, <2>6, OnIs
  <2>10. t.buffer = SubSeq(s, e + 1, q) /\ Len(t.buffer) = hold
    <3>1. q - p - hold + 1 \in 1..q - p + 1 /\ q - p \in (q - p - hold + 1) - 1..q - p /\ p + (q - p - hold + 1) = e + 1
          /\ p + (q - p) = q /\ e + 1 \in 1..Len(s) + 1 /\ q \in (e + 1) - 1..Len(s) /\ q - (e + 1) + 1 = hold
      BY <1>5, <2>2
    <3>2. t.buffer = SubSeq(r.buffer, q - p - hold + 1, q - p)
      <4> HIDE DEF t, u
      <4>1. t.buffer = From(r.buffer, Len(r.buffer) - hold + 1)
        BY <2>1
      <4> QED
        BY <4>1, <1>4 DEF From
    <3>3. t.buffer = SubSeq(s, e + 1, q)
      BY <1>6, <3>1, <3>2
    <3> HIDE DEF e, t
    <3>4. Len(SubSeq(s, e + 1, q)) = q - (e + 1) + 1
      BY <3>1, Piece
    <3> QED
      BY <3>1, <3>3, <3>4
  <2>11. t.inThink = r.inThink /\ t.out = On(r.out, r.inThink, u) /\ t.more = FALSE /\ t.buffer = Upto(tag, hold)
    BY <2>1, <2>2
  <2>12. hold < Len(tag)
    BY <2>2, <1>3
  <2> HIDE DEF t, e, u
  <2>13. Sorting(s)[e] = At(t.inThink, 0, Joined(was, t.out))
    BY <2>7, <2>8, <2>11
  <2>14. Settled(s, q, was, t)
    BY <1>2, <2>4, <2>9, <2>10, <2>11, <2>12, <2>13 DEF Settled
  <2> QED
    BY <2>11, <2>14 DEF t
<1> QED
  BY <1>8, <1>9

\* What a round may start from.
RoundStates == [buffer : Seq(Letters), inThink : BOOLEAN, out : [Channels -> Seq(Letters)], more : BOOLEAN]

LEMMA RoundIs ==
  ASSUME NEW r \in RoundStates
  PROVE  Round(r) \in RoundStates
<1> DEFINE tag == TagOf(r.inThink)
           i == Find(r.buffer, tag)
           hold == Held(r.buffer, tag)
           l == Len(r.buffer)
<1>1. r.buffer \in Seq(Letters) /\ r.inThink \in BOOLEAN /\ r.out \in [Channels -> Seq(Letters)]
  BY DEF RoundStates
<1>2. tag \in Seq(Letters) /\ Len(tag) \in Nat /\ Len(tag) > 1 /\ l \in Nat
  BY <1>1, StreamConstants, LenProperties
<1>3. i # 0 => i \in 1..l - Len(tag) + 1
  <2> HIDE DEF tag
  <2> QED
    BY <1>1, <1>2, FindIs
<1>4. hold \in 0..Len(tag) - 1 /\ hold <= l
  <2> HIDE DEF tag
  <2> QED
    BY <1>1, <1>2, HeldIs
<1>5. \A a \in 1..l + 1 : \A b \in a - 1..l : SubSeq(r.buffer, a, b) \in Seq(Letters)
  BY <1>1, Piece
<1>6. CASE i # 0
  <2> DEFINE u == Upto(r.buffer, i - 1)
             v == From(r.buffer, i + Len(tag))
             o == On(r.out, r.inThink, u)
  <2>1. Round(r) = [buffer |-> v, inThink |-> ~r.inThink, out |-> o, more |-> TRUE]
    BY <1>6 DEF Round
  <2> HIDE DEF tag, i, l
  <2>2. 1 \in 1..l + 1 /\ i - 1 \in 1 - 1..l /\ i + Len(tag) \in 1..l + 1 /\ l \in (i + Len(tag)) - 1..l
    BY <1>2, <1>3, <1>6
  <2>3. u \in Seq(Letters) /\ v \in Seq(Letters)
    BY <1>5, <2>2 DEF Upto, From, l
  <2> HIDE DEF u, v
  <2>4. o \in [Channels -> Seq(Letters)]
    BY <1>1, <2>3, OnIs
  <2> HIDE DEF o
  <2> QED
    BY <1>1, <2>1, <2>3, <2>4 DEF RoundStates
<1>7. CASE i = 0
  <2> DEFINE u == Upto(r.buffer, l - hold)
             v == From(r.buffer, l - hold + 1)
             o == On(r.out, r.inThink, u)
  <2>1. Round(r) = [buffer |-> v, inThink |-> r.inThink, out |-> o, more |-> FALSE]
    BY <1>7 DEF Round
  <2> HIDE DEF tag, i, hold, l
  <2>2. 1 \in 1..l + 1 /\ l - hold \in 1 - 1..l /\ l - hold + 1 \in 1..l + 1 /\ l \in (l - hold + 1) - 1..l
    BY <1>2, <1>4
  <2>3. u \in Seq(Letters) /\ v \in Seq(Letters)
    BY <1>5, <2>2 DEF Upto, From, l
  <2> HIDE DEF u, v
  <2>4. o \in [Channels -> Seq(Letters)]
    BY <1>1, <2>3, OnIs
  <2> HIDE DEF o
  <2> QED
    BY <1>1, <2>1, <2>3, <2>4 DEF RoundStates
<1> QED
  BY <1>6, <1>7

\* The loop: it begins with the whole buffer, and there is no tag left when it ends.
Begins(b, think) == [buffer |-> b, inThink |-> think, out |-> Silence, more |-> TRUE]

LEMMA SplitIs ==
  ASSUME NEW s \in Seq(Letters), NEW q \in 0..Len(s), NEW was \in [Channels -> Seq(Letters)],
         NEW b \in Seq(Letters), NEW think \in BOOLEAN, Settled(s, q, was, Begins(b, think))
  PROVE  Settled(s, q, was, Split(b, think)) /\ ~Split(b, think).more /\ Split(b, think) \in RoundStates
<1> DEFINE n == Len(b) + 1
           first == Begins(b, think)
           turn == [r \in RoundStates |-> IF r.more THEN Round(r) ELSE r]
           step == [i \in 1..n |-> turn]
           Eq(g) == g = [i \in 0..n |-> IF i = 0 THEN [buffer |-> b, inThink |-> think, out |-> Silence, more |-> TRUE]
                                        ELSE IF g[i - 1].more THEN Round(g[i - 1]) ELSE g[i - 1]]
           rounds == CHOOSE g : Eq(g)
<1>1. n \in Nat /\ first \in RoundStates
  BY LenProperties, SilenceIs DEF RoundStates, Begins
<1>2. step \in [1..n -> [RoundStates -> RoundStates]]
  BY RoundIs
<1>3. \E g : Eq(g)
  <2>1. PICK g \in [0..n -> RoundStates] : g[0] = first /\ \A i \in 1..n : g[i] = step[i][g[i - 1]]
    <3>1. Recurs(RoundStates, n, first, step)
      <4> HIDE DEF n, first, step
      <4> QED
        BY <1>1, <1>2, RecursionUpTo
    <3> HIDE DEF step, n
    <3> QED
      BY <3>1 DEF Recurs
  <2>2. ASSUME NEW i \in 0..n
        PROVE  g[i] = IF i = 0 THEN [buffer |-> b, inThink |-> think, out |-> Silence, more |-> TRUE]
                      ELSE IF g[i - 1].more THEN Round(g[i - 1]) ELSE g[i - 1]
    <3>1. CASE i = 0
      BY <2>1, <3>1 DEF Begins
    <3>2. CASE i # 0
      <4>1. i \in 1..n /\ g[i - 1] \in RoundStates
        <5> HIDE DEF n
        <5>1. i \in 1..n /\ i - 1 \in 0..n
          BY <3>2, <1>1
        <5> QED
          BY <5>1, <2>1
      <4>2. g[i] = turn[g[i - 1]]
        BY <4>1, <2>1
      <4> QED
        BY <4>1, <4>2, <3>2
    <3> QED
      BY <3>1, <3>2
  <2>3. Eq(g)
    BY <2>2
  <2> QED
    BY <2>3
<1>4. Eq(rounds)
  <2> HIDE DEF Eq
  <2> QED
    BY <1>3
<1>5. Split(b, think) = rounds[n]
  BY DEF Split
<1> HIDE DEF rounds
<1>6. rounds[0] = first /\ \A i \in 1..n : rounds[i] = IF rounds[i - 1].more THEN Round(rounds[i - 1]) ELSE rounds[i - 1]
  <2>1. \A i \in 0..n : rounds[i] = IF i = 0 THEN [buffer |-> b, inThink |-> think, out |-> Silence, more |-> TRUE]
                                    ELSE IF rounds[i - 1].more THEN Round(rounds[i - 1]) ELSE rounds[i - 1]
    BY <1>4
  <2>2. 0 \in 0..n /\ \A i \in 1..n : i \in 0..n /\ i # 0
    BY <1>1
  <2> HIDE DEF n
  <2> QED
    BY <2>1, <2>2 DEF Begins
<1> HIDE DEF first, n, Eq
<1> DEFINE S == {i \in 0..n : /\ rounds[i] \in RoundStates
                              /\ Settled(s, q, was, rounds[i])
                              /\ rounds[i].more => Len(rounds[i].buffer) + i < n}
<1>7. 0 \in S
  <2>1. first.more = TRUE /\ first.buffer = b /\ Settled(s, q, was, first)
    BY DEF first, Begins
  <2>2. Len(b) + 0 < n
    BY <1>1, LenProperties DEF n
  <2>3. 0 \in 0..n
    BY <1>1
  <2> QED
    BY <1>1, <1>6, <2>1, <2>2, <2>3
<1>8. ASSUME NEW i \in 0 + 1..n, i - 1 \in S PROVE i \in S
  <2> DEFINE r == rounds[i - 1]
  <2>1. i \in 1..n /\ i \in 0..n
    BY <1>1
  <2>2. /\ r \in RoundStates /\ Settled(s, q, was, r)
        /\ r.more => Len(r.buffer) + (i - 1) < n
    BY <1>8
  <2>3. rounds[i] = IF r.more THEN Round(r) ELSE r
    BY <1>6, <2>1
  <2> HIDE DEF r
  <2>4. CASE r.more
    <3>1. rounds[i] = Round(r)
      BY <2>3, <2>4
    <3>2. Round(r) \in RoundStates
      BY <2>2, RoundIs
    <3>3. Settled(s, q, was, Round(r)) /\ (Round(r).more => Len(Round(r).buffer) < Len(r.buffer))
      BY <2>2, RoundKeeps
    <3>4. Len(Round(r).buffer) \in Nat /\ Len(r.buffer) \in Nat
      BY <2>2, <3>2, LenProperties DEF RoundStates
    <3>5. Round(r).more => Len(Round(r).buffer) + i < n
      BY <1>1, <2>1, <2>2, <2>4, <3>3, <3>4
    <3> QED
      BY <2>1, <3>1, <3>2, <3>3, <3>5
  <2>5. CASE ~r.more
    BY <2>1, <2>2, <2>3, <2>5
  <2> QED
    BY <2>4, <2>5
<1>9. n \in S
  <2> HIDE DEF S
  <2>1. \A i \in 0..n : i \in S
    BY <1>1, <1>7, <1>8, UpTo
  <2> QED
    BY <1>1, <2>1
<1>10. ~rounds[n].more
  <2>1. rounds[n].more => Len(rounds[n].buffer) + n < n
    BY <1>9
  <2>2. Len(rounds[n].buffer) \in Nat
    BY <1>9, LenProperties DEF RoundStates
  <2> QED
    BY <1>1, <2>1, <2>2
<1> QED
  BY <1>5, <1>9, <1>10

\* What a channel has is never taken back by the reference.
LEMMA SortedGrows ==
  ASSUME NEW s \in Seq(Letters), NEW p \in 0..Len(s), NEW c \in Channels
  PROVE  IsPrefix(Sorting(s)[p].out[c], Sorted(s)[c])
<1> DEFINE n == Len(s)
           Has(i) == Sorting(s)[i].out[c]
           S == {i \in p..n : \E u \in Seq(Letters) : Has(i) = Has(p) \o u}
<1>1. n \in Nat /\ p \in Nat /\ p <= n
  BY LenProperties
<1>2. \A i \in 0..n : /\ Sorting(s)[i] \in SortStates /\ Has(i) \in Seq(Letters)
                      /\ Sorting(s)[i].out \in [Channels -> Seq(Letters)] /\ Sorting(s)[i].think \in BOOLEAN
  <2> SUFFICES ASSUME NEW i \in 0..n
               PROVE  /\ Sorting(s)[i] \in SortStates /\ Has(i) \in Seq(Letters)
                      /\ Sorting(s)[i].out \in [Channels -> Seq(Letters)] /\ Sorting(s)[i].think \in BOOLEAN
    OBVIOUS
  <2>1. Sorting(s)[i] \in SortStates
    BY SortingIs
  <2> QED
    BY <2>1 DEF SortStates
<1>3. p \in S
  <2>1. Has(p) \in Seq(Letters) /\ <<>> \in Seq(Letters)
    BY <1>1, <1>2, EmptySeq
  <2> HIDE DEF Has
  <2>2. Has(p) = Has(p) \o <<>>
    BY <2>1, ConcatEmptySeq
  <2>3. \E u \in Seq(Letters) : Has(p) = Has(p) \o u
    BY <2>1, <2>2
  <2> QED
    BY <1>1, <2>3
<1>4. ASSUME NEW i \in p + 1..n, i - 1 \in S PROVE i \in S
  <2> DEFINE was == Sorting(s)[i - 1]
  <2>1. i \in 1..Len(s) /\ i - 1 \in 0..n /\ i \in p..n /\ p \in 0..n
    BY <1>1
  <2>2. Sorting(s)[i] = Sort(s, i, was)
    BY <2>1, SortingIs
  <2>3. was \in SortStates /\ was.out \in [Channels -> Seq(Letters)] /\ was.think \in BOOLEAN
    BY <1>2, <2>1
  <2>4. s[i] \in Letters
    BY <2>1, ElementOfSeq
  <2>5. <<s[i]>> \in Seq(Letters)
    BY <2>4
  <2>6. /\ On(was.out, was.think, <<s[i]>>) \in [Channels -> Seq(Letters)]
        /\ \A k \in Channels : On(was.out, was.think, <<s[i]>>)[k] = IF k = ChannelOf(was.think) THEN was.out[k] \o <<s[i]>> ELSE was.out[k]
    BY <2>3, <2>5, OnIs
  <2>7. Sorting(s)[i].out = was.out \/ Sorting(s)[i].out = On(was.out, was.think, <<s[i]>>)
    <3> DEFINE whole == i + Len(TagOf(was.think)) - 1 <= Len(s)
                        /\ SubSeq(s, i, i + Len(TagOf(was.think)) - 1) = TagOf(was.think)
               o == On(was.out, was.think, <<s[i]>>)
    <3>1. Sorting(s)[i] = IF was.skip > 0 THEN [was EXCEPT !.skip = was.skip - 1]
                          ELSE IF whole THEN [was EXCEPT !.think = ~was.think, !.skip = Len(TagOf(was.think)) - 1]
                          ELSE [was EXCEPT !.out = o]
      BY <2>2 DEF Sort
    <3> HIDE DEF whole, o, was
    <3> QED
      BY <3>1, <2>3 DEF SortStates, o
  <2>8. Has(i) = was.out[c] \/ Has(i) = was.out[c] \o <<s[i]>>
    BY <2>6, <2>7
  <2>9. PICK u \in Seq(Letters) : was.out[c] = Has(p) \o u
    BY <1>4
  <2>10. Has(p) \in Seq(Letters)
    BY <1>2, <2>1
  <2> HIDE DEF was, Has
  <2>11. (Has(p) \o u) \o <<s[i]>> = Has(p) \o (u \o <<s[i]>>) /\ u \o <<s[i]>> \in Seq(Letters)
    <3> DEFINE v == <<s[i]>>
    <3>1. v \in Seq(Letters)
      BY <2>5
    <3> HIDE DEF v
    <3>2. \A b \in Seq(Letters) : (b \o u) \o v = b \o (u \o v)
      BY <3>1, ConcatAssociative
    <3>3. u \o v \in Seq(Letters)
      BY <3>1, ConcatProperties
    <3> QED
      BY <2>10, <3>2, <3>3 DEF v
  <2>12. \E v \in Seq(Letters) : Has(i) = Has(p) \o v
    BY <2>8, <2>9, <2>11
  <2> QED
    BY <2>1, <2>12
<1>5. n \in S
  <2> HIDE DEF S, n
  <2>1. \A i \in p..n : i \in S
    BY <1>1, <1>3, <1>4, UpTo
  <2> QED
    BY <1>1, <2>1
<1>6. PICK u \in Seq(Letters) : Has(n) = Has(p) \o u
  BY <1>5
<1>7. Has(p) \in Seq(Letters) /\ Has(n) \in Seq(Letters) /\ Sorted(s)[c] = Has(n)
  BY <1>1, <1>2 DEF Sorted
<1> HIDE DEF Has
<1> DEFINE a == Has(p)
           b == Has(n)
<1>8. IsPrefix(a, b)
  <2>1. a \in Seq(Letters) /\ u \in Seq(Letters) /\ b = a \o u
    BY <1>6, <1>7
  <2> HIDE DEF a, b
  <2> QED
    BY <2>1, PrefixOfJoined
<1> QED
  BY <1>7, <1>8 DEF a, b, Has

LEMMA InitStreamIInv == StreamInit => StreamIInv
<1> SUFFICES ASSUME StreamInit PROVE StreamIInv
  OBVIOUS
<1>1. text \in Seq(Letters)
  BY DEF StreamInit, WholeTexts
<1>2. coming = text /\ buffer = <<>> /\ inThink = FALSE /\ sent = Silence /\ ended = FALSE
  BY DEF StreamInit
<1>3. 0 \in 0..Len(text) /\ 0 \in 0..0 /\ 0 + 1 = 1
  BY <1>1, LenProperties
<1>4. buffer = SubSeq(text, 1, 0) /\ Len(buffer) = 0 /\ buffer = Upto(TagOf(inThink), Len(buffer))
  <2>1. \A z : SubSeq(z, 1, 0) = <<>>
    BY SubSeqEmpty
  <2>2. Len(<<>>) = 0
    BY EmptySeq
  <2> QED
    BY <2>1, <2>2, <1>2 DEF Upto
<1>5. coming = SubSeq(text, 1, Len(text))
  BY <1>1, <1>2, SubSeqFull
<1>6. Sorting(text)[0] = At(inThink, 0, sent)
  BY <1>1, <1>2, SortingIs
<1>7. 0 < Len(TagOf(inThink))
  <2>1. inThink \in BOOLEAN
    BY <1>2
  <2>2. Len(TagOf(inThink)) \in Nat /\ Len(TagOf(inThink)) > 1
    BY <2>1, StreamConstants
  <2> QED
    BY <2>2
<1>8. \E q \in 0..Len(text) : \E p \in 0..q :
        /\ buffer = SubSeq(text, p + 1, q)
        /\ coming = SubSeq(text, q + 1, Len(text))
        /\ Sorting(text)[p] = At(inThink, 0, sent)
  BY <1>3, <1>4, <1>5, <1>6
<1> QED
  BY <1>1, <1>2, <1>4, <1>7, <1>8 DEF StreamIInv

\* A chunk.
LEMMA ChunkKeeps ==
  ASSUME StreamIInv, NEW n \in Nat, n > 0, Chunk(n)
  PROVE  StreamIInv'
<1>1. text \in Seq(Letters) /\ inThink \in BOOLEAN
  BY DEF StreamIInv
<1>2. PICK q, p :
        /\ q \in 0..Len(text) /\ p \in 0..q
        /\ buffer = SubSeq(text, p + 1, q)
        /\ coming = SubSeq(text, q + 1, Len(text))
        /\ Sorting(text)[p] = At(inThink, 0, sent)
  BY Zenon DEF StreamIInv
<1> DEFINE l == Len(text)
<1>3. l \in Nat /\ p \in Nat /\ q \in Nat /\ p <= q /\ q <= l /\ p \in 0..Len(text)
  <2>1. Len(text) \in Nat
    BY <1>1, LenProperties
  <2>2. q \in 0..Len(text)
    BY <1>2, Zenon
  <2>3. p \in 0..q
    BY <1>2, Zenon
  <2> QED
    BY <2>1, <2>2, <2>3
<1>4. Len(coming) = l - q /\ n <= l - q
  <2>1. q + 1 \in 1..Len(text) + 1 /\ l \in (q + 1) - 1..Len(text) /\ l - (q + 1) + 1 = l - q
    BY <1>3
  <2>2. Len(SubSeq(text, q + 1, l)) = l - (q + 1) + 1
    <3> HIDE DEF l
    <3> QED
      BY <1>1, <2>1, Piece
  <2> QED
    BY <1>2, <2>1, <2>2, Zenon DEF Chunk
<1> DEFINE e == q + n
           b == buffer \o Upto(coming, n)
<1>5. b = SubSeq(text, p + 1, e) /\ b \in Seq(Letters)
  <2>1. Upto(coming, n) = SubSeq(text, q + 1, e)
    <3>1. /\ q + 1 \in 1..Len(text) + 1 /\ l \in (q + 1) - 1..Len(text) /\ 1 \in 1..l - (q + 1) + 2
          /\ n \in 1 - 1..l - (q + 1) + 1 /\ (q + 1) + 1 - 1 = q + 1 /\ (q + 1) + n - 1 = e
      BY <1>3, <1>4
    <3> DEFINE a == q + 1
    <3>3. a \in 1..Len(text) + 1 /\ l \in a - 1..Len(text) /\ 1 \in 1..l - a + 2 /\ n \in 1 - 1..l - a + 1
      BY <3>1
    <3> HIDE DEF l, e, a
    <3>4. SubSeq(SubSeq(text, a, l), 1, n) = SubSeq(text, a + 1 - 1, a + n - 1)
      BY <1>1, <3>3, PieceOfPiece
    <3>2. SubSeq(SubSeq(text, q + 1, l), 1, n) = SubSeq(text, (q + 1) + 1 - 1, (q + 1) + n - 1)
      BY <3>4 DEF a
    <3> QED
      BY <1>2, <3>1, <3>2 DEF Upto, l
  <2>2. /\ p + 1 \in 1..Len(text) + 1 /\ q \in (p + 1) - 1..Len(text) /\ e \in q..Len(text) /\ e \in (p + 1) - 1..Len(text)
    BY <1>3, <1>4
  <2> HIDE DEF e
  <2>3. SubSeq(text, p + 1, q) \o SubSeq(text, q + 1, e) = SubSeq(text, p + 1, e)
    BY <1>1, <2>2, ConcatAdjacentSubSeq
  <2>4. SubSeq(text, p + 1, e) \in Seq(Letters)
    BY <1>1, <2>2, Piece
  <2> QED
    BY <1>2, <2>1, <2>3, <2>4
<1>6. sent \in [Channels -> Seq(Letters)]
  <2>1. Sorting(text)[p] \in SortStates
    BY <1>1, <1>3, SortingIs
  <2> QED
    BY <2>1, <1>2 DEF SortStates, At
<1>7. Joined(sent, Silence) = sent
  <2>1. \A c \in Channels : sent[c] \o <<>> = sent[c]
    BY <1>6, ConcatEmptySeq
  <2> QED
    BY <2>1, <1>6 DEF Joined, Silence
<1>8. e \in 0..Len(text) /\ p \in 0..e
  BY <1>3, <1>4
<1>9. Settled(text, e, sent, Begins(b, inThink))
  <2> DEFINE r == Begins(b, inThink)
  <2>1. r.inThink = inThink /\ r.out = Silence /\ r.more = TRUE /\ r.buffer = SubSeq(text, p + 1, e)
    BY <1>5 DEF Begins
  <2> HIDE DEF r, e
  <2>2. Sorting(text)[p] = At(r.inThink, 0, Joined(sent, r.out))
    BY <1>2, <1>7, <2>1
  <2>3. r.out \in [Channels -> Seq(Letters)]
    BY <2>1, SilenceIs
  <2>4. Settled(text, e, sent, r)
    BY <1>1, <1>8, <2>1, <2>2, <2>3 DEF Settled
  <2> QED
    BY <2>4 DEF r
<1>10. PICK r : r = Split(b, inThink)
  OBVIOUS
<1>11. Settled(text, e, sent, r) /\ ~r.more
  <2> HIDE DEF e, b
  <2> QED
    BY <1>1, <1>5, <1>6, <1>8, <1>9, <1>10, SplitIs
<1>12. /\ buffer' = r.buffer /\ inThink' = r.inThink /\ sent' = Joined(sent, r.out)
       /\ coming' = From(coming, n + 1) /\ text' = text /\ ended' = ended /\ ~ended
  BY <1>10 DEF Chunk, Delta, Joined
<1> HIDE DEF b, e
<1>13. PICK k \in 0..e : /\ buffer' = SubSeq(text, k + 1, e)
                         /\ Sorting(text)[k] = At(inThink', 0, sent')
  BY <1>11, <1>12 DEF Settled
<1>14. inThink' \in BOOLEAN /\ buffer' = Upto(TagOf(inThink'), Len(buffer')) /\ Len(buffer') < Len(TagOf(inThink'))
  BY <1>11, <1>12 DEF Settled
<1>15. coming' = SubSeq(text, e + 1, Len(text))
  <2>1. /\ q + 1 \in 1..Len(text) + 1 /\ l \in (q + 1) - 1..Len(text) /\ n + 1 \in 1..l - (q + 1) + 2
        /\ l - q \in (n + 1) - 1..l - (q + 1) + 1 /\ (q + 1) + (n + 1) - 1 = e + 1 /\ (q + 1) + (l - q) - 1 = l
    BY <1>3, <1>4 DEF e
  <2> DEFINE a == q + 1
             c == n + 1
             d == l - q
  <2>4. a \in 1..Len(text) + 1 /\ l \in a - 1..Len(text) /\ c \in 1..l - a + 2 /\ d \in c - 1..l - a + 1
    BY <2>1
  <2> HIDE DEF l, a, c, d
  <2>5. SubSeq(SubSeq(text, a, l), c, d) = SubSeq(text, a + c - 1, a + d - 1)
    BY <1>1, <2>4, PieceOfPiece
  <2>2. SubSeq(SubSeq(text, q + 1, l), n + 1, l - q) = SubSeq(text, (q + 1) + (n + 1) - 1, (q + 1) + (l - q) - 1)
    BY <2>5 DEF a, c, d
  <2>3. coming = SubSeq(text, q + 1, l) /\ coming' = SubSeq(coming, n + 1, l - q)
    BY <1>2, <1>4, <1>12 DEF From, l
  <2> QED
    BY <2>1, <2>2, <2>3 DEF l
<1> QED
  BY <1>1, <1>8, <1>12, <1>13, <1>14, <1>15 DEF StreamIInv

\* What was held back goes out after the end: it is too short for a tag.
LEMMA FlushKeeps == ASSUME StreamIInv, Flush PROVE StreamIInv'
<1>1. text \in Seq(Letters) /\ inThink \in BOOLEAN /\ Len(buffer) < Len(TagOf(inThink)) /\ coming = <<>>
  BY DEF StreamIInv, Flush
<1>2. PICK q, p :
        /\ q \in 0..Len(text) /\ p \in 0..q
        /\ buffer = SubSeq(text, p + 1, q)
        /\ coming = SubSeq(text, q + 1, Len(text))
        /\ Sorting(text)[p] = At(inThink, 0, sent)
  BY DEF StreamIInv
<1> DEFINE l == Len(text)
<1>3. l \in Nat /\ p \in Nat /\ q \in Nat /\ p <= q /\ q <= l /\ p \in 0..Len(text)
  <2>1. Len(text) \in Nat
    BY <1>1, LenProperties
  <2>2. q \in 0..Len(text) /\ p \in 0..q
    BY <1>2
  <2> QED
    BY <2>1, <2>2
<1>4. q = l
  <2>1. q + 1 \in 1..Len(text) + 1 /\ l \in (q + 1) - 1..Len(text) /\ l - (q + 1) + 1 = l - q
    BY <1>3
  <2>2. Len(SubSeq(text, q + 1, l)) = l - (q + 1) + 1
    <3> HIDE DEF l
    <3> QED
      BY <1>1, <2>1, Piece
  <2>3. Len(coming) = 0
    BY <1>1, EmptySeq
  <2>4. Len(coming) = l - (q + 1) + 1
    BY <1>2, <2>2
  <2> QED
    BY <1>3, <2>3, <2>4
<1>5. Len(buffer) = l - p
  <2>1. p + 1 \in 1..Len(text) + 1 /\ l \in (p + 1) - 1..Len(text) /\ l - (p + 1) + 1 = l - p
    BY <1>3
  <2> HIDE DEF l
  <2>2. Len(SubSeq(text, p + 1, l)) = l - (p + 1) + 1
    BY <1>1, <2>1, Piece
  <2> QED
    BY <1>2, <1>4, <2>1, <2>2
<1>6. sent \in [Channels -> Seq(Letters)]
  <2>1. Sorting(text)[p] \in SortStates
    BY <1>1, <1>3, SortingIs
  <2> QED
    BY <2>1, <1>2 DEF SortStates, At
<1>7. Sorting(text)[l] = At(inThink, 0, On(sent, inThink, buffer))
  <2>1. ASSUME NEW i \in p + 1..l PROVE ~Stands(text, i, TagOf(inThink))
    <3>1. Len(TagOf(inThink)) \in Nat
      BY <1>1, StreamConstants
    <3>2. ~(i + Len(TagOf(inThink)) - 1 <= Len(text))
      BY <1>1, <1>3, <1>5, <3>1
    <3> QED
      BY <3>2 DEF Stands
  <2>2. p \in 0..Len(text) /\ l \in p..Len(text)
    BY <1>3
  <2>3. buffer = SubSeq(text, p + 1, l)
    BY <1>2, <1>4
  <2> HIDE DEF l
  <2> QED
    BY <1>1, <1>2, <1>6, <2>1, <2>2, <2>3, RunsOn
<1>8. buffer' = <<>> /\ sent' = On(sent, inThink, buffer) /\ UNCHANGED <<coming, inThink, ended, text>>
  BY DEF Flush
<1>9. buffer' = SubSeq(text, l + 1, l) /\ Len(buffer') = 0 /\ buffer' = Upto(TagOf(inThink), Len(buffer'))
      /\ coming = SubSeq(text, l + 1, Len(text))
  <2>1. \A z : SubSeq(z, 1, 0) = <<>>
    BY SubSeqEmpty
  <2>2. SubSeq(text, l + 1, l) = <<>>
    BY <1>3, SubSeqEmpty
  <2>3. Len(<<>>) = 0
    BY EmptySeq
  <2> QED
    BY <2>1, <2>2, <2>3, <1>1, <1>8 DEF Upto
<1>10. 0 < Len(TagOf(inThink)) /\ l \in 0..Len(text) /\ l \in 0..l
  BY <1>1, <1>3, StreamConstants
<1>11. \E k \in 0..Len(text) : \E m \in 0..k :
        /\ buffer' = SubSeq(text, m + 1, k)
        /\ coming' = SubSeq(text, k + 1, Len(text))
        /\ Sorting(text)[m] = At(inThink, 0, sent')
  <2>1. coming' = SubSeq(text, l + 1, Len(text)) /\ Sorting(text)[l] = At(inThink, 0, sent')
    BY <1>7, <1>8, <1>9
  <2> HIDE DEF l
  <2> QED
    BY <2>1, <1>9, <1>10
<1> HIDE DEF l
<1> QED
  BY <1>1, <1>8, <1>9, <1>10, <1>11 DEF StreamIInv

LEMMA StreamStepKeeps == StreamIInv /\ [StreamNext]_streamVars => StreamIInv'
<1> SUFFICES ASSUME StreamIInv, [StreamNext]_streamVars PROVE StreamIInv'
  OBVIOUS
<1>1. CASE \E n \in 1..ChunkMax : Chunk(n)
  <2>1. PICK n \in 1..ChunkMax : Chunk(n)
    BY <1>1
  <2>2. n \in Nat /\ n > 0
    BY StreamAssumption
  <2> QED
    BY <2>1, <2>2, ChunkKeeps
<1>2. CASE Finish
  BY <1>2 DEF Finish, StreamIInv
<1>3. CASE Flush
  BY <1>3, FlushKeeps
<1>4. CASE UNCHANGED streamVars
  BY <1>4 DEF streamVars, StreamIInv
<1> QED
  BY <1>1, <1>2, <1>3, <1>4 DEF StreamNext

LEMMA ChannelsExact == StreamIInv => SplitExact
<1> SUFFICES ASSUME StreamIInv PROVE SplitExact
  OBVIOUS
<1>1. text \in Seq(Letters) /\ (ended => coming = <<>>)
  BY DEF StreamIInv
<1>2. PICK q, p :
        /\ q \in 0..Len(text) /\ p \in 0..q
        /\ buffer = SubSeq(text, p + 1, q)
        /\ coming = SubSeq(text, q + 1, Len(text))
        /\ Sorting(text)[p] = At(inThink, 0, sent)
  BY DEF StreamIInv
<1> DEFINE l == Len(text)
<1>3. l \in Nat /\ p \in Nat /\ q \in Nat /\ p <= q /\ q <= l /\ p \in 0..Len(text)
  <2>1. Len(text) \in Nat
    BY <1>1, LenProperties
  <2>2. q \in 0..Len(text) /\ p \in 0..q
    BY <1>2
  <2> QED
    BY <2>1, <2>2
<1>4. Sorting(text)[p].out = sent
  BY <1>2 DEF At
<1>5. EveryLetterSorted
  <2> SUFFICES ASSUME ended, buffer = <<>> PROVE sent = Sorted(text)
    BY DEF EveryLetterSorted
  <2>1. Len(coming) = 0 /\ Len(buffer) = 0
    BY <1>1, EmptySeq
  <2>2. Len(coming) = l - (q + 1) + 1
    <3>1. q + 1 \in 1..Len(text) + 1 /\ l \in (q + 1) - 1..Len(text)
      BY <1>3
    <3>2. coming = SubSeq(text, q + 1, l)
      BY <1>2
    <3> HIDE DEF l
    <3> QED
      BY <1>1, <3>1, <3>2, Piece
  <2>3. Len(buffer) = q - (p + 1) + 1
    <3>1. p + 1 \in 1..Len(text) + 1 /\ q \in (p + 1) - 1..Len(text)
      BY <1>3
    <3> QED
      BY <1>1, <1>2, <3>1, Piece
  <2>4. p = l
    BY <1>3, <2>1, <2>2, <2>3
  <2> QED
    BY <1>4, <2>4 DEF Sorted
<1>6. OnlyTagsAreHeld
  <2>1. ASSUME NEW c \in Channels PROVE IsPrefix(sent[c], Sorted(text)[c])
    <3>1. IsPrefix(Sorting(text)[p].out[c], Sorted(text)[c])
      BY <1>1, <1>3, SortedGrows
    <3> QED
      BY <3>1, <1>4
  <2> QED
    BY <2>1 DEF OnlyTagsAreHeld, StreamIInv
<1> QED
  BY <1>5, <1>6 DEF SplitExact

\* Whatever the tags, however long the text and however it is cut into chunks: the
\* splitter of think-streams sends on each channel the beginning of what the whole text
\* has for it, all of it in the end, and holds nothing back but the beginning of a tag.
THEOREM ChannelsAreExact == StreamSpec => []SplitExact
<1>1. StreamSpec => []StreamIInv
  <2>1. StreamInit => StreamIInv
    BY InitStreamIInv
  <2>2. StreamIInv /\ [StreamNext]_streamVars => StreamIInv'
    BY StreamStepKeeps
  <2> QED
    BY <2>1, <2>2, PTL DEF StreamSpec
<1>2. StreamIInv => SplitExact
  BY ChannelsExact
<1> QED
  BY <1>1, <1>2, PTL

----------------------------------------------------------------------------
(* RequestTranslation *)

BlockShape == [kind : Kinds, word : Nat, length : Lengths]
MessageShape == [role : {"user", "human", "assistant"}, blocks : Seq(BlockShape), plain : BOOLEAN]

\* Fresh words are later words.
Ascending(blocks) == \A j, k \in DOMAIN blocks : j < k => blocks[j].word < blocks[k].word
UsedUpTo(blocks, w) == \A j \in DOMAIN blocks : blocks[j].word <= w

\* The inductive invariant.
RequestIInv ==
    /\ system \in {None} \cup [kind : {"text"}, word : {0}, length : Lengths]
    /\ said \in Seq(MessageShape) /\ words \in Nat
    /\ \A i \in DOMAIN said : Ascending(said[i].blocks) /\ UsedUpTo(said[i].blocks, words)
    /\ went # None => went = IF EstimatedTokens(said) <= ProxyLongMax THEN "local" ELSE "upstream"

\* What of the first blocks of a message is in the string.
LEMMA FlatteningIs ==
  ASSUME NEW V, NEW blocks \in Seq(V)
  PROVE  /\ Flattening(blocks) \in [0..Len(blocks) -> Seq(V)] /\ Flattening(blocks)[0] = <<>>
         /\ \A i \in 1..Len(blocks) : Flattening(blocks)[i] = IF HasText(blocks[i]) THEN Append(Flattening(blocks)[i - 1], blocks[i]) ELSE Flattening(blocks)[i - 1]
<1> DEFINE n == Len(blocks)
           base == <<>>
           step == [i \in 1..n |-> [was \in Seq(V) |-> IF HasText(blocks[i]) THEN Append(was, blocks[i]) ELSE was]]
           Eq(g) == g = [i \in 0..n |-> IF i = 0 THEN <<>> ELSE IF HasText(blocks[i]) THEN Append(g[i - 1], blocks[i]) ELSE g[i - 1]]
           upto == CHOOSE g : Eq(g)
<1>1. n \in Nat /\ base \in Seq(V) /\ \A i \in 1..n : blocks[i] \in V
  BY LenProperties, ElementOfSeq, EmptySeq
<1>2. \A i \in 1..n : \A was \in Seq(V) : (IF HasText(blocks[i]) THEN Append(was, blocks[i]) ELSE was) \in Seq(V)
  <2> HIDE DEF n
  <2> QED
    BY <1>1, AppendProperties
<1>3. step \in [1..n -> [Seq(V) -> Seq(V)]]
  <2> HIDE DEF n
  <2> QED
    BY <1>2
<1>4. PICK g \in [0..n -> Seq(V)] : g[0] = base /\ \A i \in 1..n : g[i] = step[i][g[i - 1]]
  <2>1. Recurs(Seq(V), n, base, step)
    <3> HIDE DEF n, base, step
    <3> QED
      BY <1>1, <1>3, RecursionUpTo
  <2> HIDE DEF step, n
  <2> QED
    BY <2>1 DEF Recurs
<1>5. Eq(g)
  <2>1. ASSUME NEW i \in 0..n PROVE g[i] = IF i = 0 THEN <<>> ELSE IF HasText(blocks[i]) THEN Append(g[i - 1], blocks[i]) ELSE g[i - 1]
    <3>1. CASE i = 0
      BY <1>4, <3>1
    <3>2. CASE i # 0
      <4>1. i \in 1..n /\ g[i - 1] \in Seq(V)
        <5>1. i \in 1..n /\ i - 1 \in 0..n
          BY <1>1, <3>2
        <5> HIDE DEF n
        <5> QED
          BY <1>4, <5>1
      <4> HIDE DEF n
      <4> QED
        BY <1>4, <3>2, <4>1
    <3> QED
      BY <3>1, <3>2
  <2> QED
    BY <2>1
<1>6. Eq(upto)
  <2> HIDE DEF Eq
  <2> QED
    BY <1>5
<1>7. Flattening(blocks) = upto
  BY DEF Flattening
<1> HIDE DEF upto
<1>8. upto[0] = <<>> /\ \A i \in 1..n : upto[i] = IF HasText(blocks[i]) THEN Append(upto[i - 1], blocks[i]) ELSE upto[i - 1]
  <2>1. \A i \in 0..n : upto[i] = IF i = 0 THEN <<>> ELSE IF HasText(blocks[i]) THEN Append(upto[i - 1], blocks[i]) ELSE upto[i - 1]
    BY <1>6
  <2>2. 0 \in 0..n /\ \A i \in 1..n : i \in 0..n /\ i # 0
    BY <1>1
  <2> HIDE DEF n
  <2> QED
    BY <2>1, <2>2
<1>9. \A i \in 0..n : upto[i] \in Seq(V)
  <2> DEFINE S == {i \in 0..n : upto[i] \in Seq(V)}
  <2>1. 0 \in S
    <3>1. 0 \in 0..n /\ upto[0] \in Seq(V)
      <4> HIDE DEF n
      <4> QED
        BY <1>1, <1>8
    <3> QED
      BY <3>1
  <2>2. ASSUME NEW i \in 0 + 1..n, i - 1 \in S PROVE i \in S
    <3>1. i \in 1..n /\ i \in 0..n /\ upto[i - 1] \in Seq(V)
      BY <1>1, <2>2
    <3>2. upto[i] \in Seq(V)
      <4> HIDE DEF n
      <4> QED
        BY <1>2, <1>8, <3>1
    <3> QED
      BY <3>1, <3>2
  <2> HIDE DEF S, n
  <2>3. \A i \in 0..n : i \in S
    BY <1>1, <2>1, <2>2, UpTo
  <2> QED
    BY <2>3 DEF S
<1>10. upto \in [0..n -> Seq(V)]
  <2>1. upto = [i \in 0..n |-> IF i = 0 THEN <<>> ELSE IF HasText(blocks[i]) THEN Append(upto[i - 1], blocks[i]) ELSE upto[i - 1]]
    BY <1>6
  <2> HIDE DEF n
  <2> QED
    BY <1>9, <2>1
<1> QED
  BY <1>7, <1>8, <1>10

\* The sum of the first of several lengths.
LEMMA AddingIs ==
  ASSUME NEW lengths \in Seq(Nat)
  PROVE  /\ Adding(lengths) \in [0..Len(lengths) -> Nat] /\ Adding(lengths)[0] = 0
         /\ \A i \in 1..Len(lengths) : Adding(lengths)[i] = Adding(lengths)[i - 1] + lengths[i]
<1> DEFINE n == Len(lengths)
           base == 0
           step == [i \in 1..n |-> [was \in Nat |-> was + lengths[i]]]
           Eq(g) == g = [i \in 0..n |-> IF i = 0 THEN 0 ELSE g[i - 1] + lengths[i]]
           upto == CHOOSE g : Eq(g)
<1>1. n \in Nat /\ base \in Nat /\ \A i \in 1..n : lengths[i] \in Nat
  BY LenProperties, ElementOfSeq, EmptySeq
<1>2. \A i \in 1..n : \A was \in Nat : (was + lengths[i]) \in Nat
  <2> HIDE DEF n
  <2> QED
    BY <1>1
<1>3. step \in [1..n -> [Nat -> Nat]]
  <2> HIDE DEF n
  <2> QED
    BY <1>2
<1>4. PICK g \in [0..n -> Nat] : g[0] = base /\ \A i \in 1..n : g[i] = step[i][g[i - 1]]
  <2>1. Recurs(Nat, n, base, step)
    <3> HIDE DEF n, base, step
    <3> QED
      BY <1>1, <1>3, RecursionUpTo
  <2> HIDE DEF step, n
  <2> QED
    BY <2>1 DEF Recurs
<1>5. Eq(g)
  <2>1. ASSUME NEW i \in 0..n PROVE g[i] = IF i = 0 THEN 0 ELSE g[i - 1] + lengths[i]
    <3>1. CASE i = 0
      BY <1>4, <3>1
    <3>2. CASE i # 0
      <4>1. i \in 1..n /\ g[i - 1] \in Nat
        <5>1. i \in 1..n /\ i - 1 \in 0..n
          BY <1>1, <3>2
        <5> HIDE DEF n
        <5> QED
          BY <1>4, <5>1
      <4> HIDE DEF n
      <4> QED
        BY <1>4, <3>2, <4>1
    <3> QED
      BY <3>1, <3>2
  <2> QED
    BY <2>1
<1>6. Eq(upto)
  <2> HIDE DEF Eq
  <2> QED
    BY <1>5
<1>7. Adding(lengths) = upto
  BY DEF Adding
<1> HIDE DEF upto
<1>8. upto[0] = 0 /\ \A i \in 1..n : upto[i] = upto[i - 1] + lengths[i]
  <2>1. \A i \in 0..n : upto[i] = IF i = 0 THEN 0 ELSE upto[i - 1] + lengths[i]
    BY <1>6
  <2>2. 0 \in 0..n /\ \A i \in 1..n : i \in 0..n /\ i # 0
    BY <1>1
  <2> HIDE DEF n
  <2> QED
    BY <2>1, <2>2
<1>9. \A i \in 0..n : upto[i] \in Nat
  <2> DEFINE S == {i \in 0..n : upto[i] \in Nat}
  <2>1. 0 \in S
    <3>1. 0 \in 0..n /\ upto[0] \in Nat
      <4> HIDE DEF n
      <4> QED
        BY <1>1, <1>8
    <3> QED
      BY <3>1
  <2>2. ASSUME NEW i \in 0 + 1..n, i - 1 \in S PROVE i \in S
    <3>1. i \in 1..n /\ i \in 0..n /\ upto[i - 1] \in Nat
      BY <1>1, <2>2
    <3>2. upto[i] \in Nat
      <4> HIDE DEF n
      <4> QED
        BY <1>2, <1>8, <3>1
    <3> QED
      BY <3>1, <3>2
  <2> HIDE DEF S, n
  <2>3. \A i \in 0..n : i \in S
    BY <1>1, <2>1, <2>2, UpTo
  <2> QED
    BY <2>3 DEF S
<1>10. upto \in [0..n -> Nat]
  <2>1. upto = [i \in 0..n |-> IF i = 0 THEN 0 ELSE upto[i - 1] + lengths[i]]
    BY <1>6
  <2> HIDE DEF n
  <2> QED
    BY <1>9, <2>1
<1> QED
  BY <1>7, <1>8, <1>10

\* The blocks of the first messages, one after the other.
LEMMA JoiningIs ==
  ASSUME NEW messages \in Seq(MessageShape)
  PROVE  /\ Joining(messages) \in [0..Len(messages) -> Seq(BlockShape)] /\ Joining(messages)[0] = <<>>
         /\ \A i \in 1..Len(messages) : Joining(messages)[i] = Joining(messages)[i - 1] \o messages[i].blocks
<1> DEFINE n == Len(messages)
           base == <<>>
           step == [i \in 1..n |-> [was \in Seq(BlockShape) |-> was \o messages[i].blocks]]
           Eq(g) == g = [i \in 0..n |-> IF i = 0 THEN <<>> ELSE g[i - 1] \o messages[i].blocks]
           upto == CHOOSE g : Eq(g)
<1>1. n \in Nat /\ base \in Seq(BlockShape) /\ \A i \in 1..n : messages[i] \in MessageShape
  BY LenProperties, ElementOfSeq, EmptySeq
<1>2. \A i \in 1..n : \A was \in Seq(BlockShape) : (was \o messages[i].blocks) \in Seq(BlockShape)
  <2> HIDE DEF n
  <2> QED
    BY <1>1, ConcatProperties DEF MessageShape
<1>3. step \in [1..n -> [Seq(BlockShape) -> Seq(BlockShape)]]
  <2> HIDE DEF n
  <2> QED
    BY <1>2
<1>4. PICK g \in [0..n -> Seq(BlockShape)] : g[0] = base /\ \A i \in 1..n : g[i] = step[i][g[i - 1]]
  <2>1. Recurs(Seq(BlockShape), n, base, step)
    <3> HIDE DEF n, base, step
    <3> QED
      BY <1>1, <1>3, RecursionUpTo
  <2> HIDE DEF step, n
  <2> QED
    BY <2>1 DEF Recurs
<1>5. Eq(g)
  <2>1. ASSUME NEW i \in 0..n PROVE g[i] = IF i = 0 THEN <<>> ELSE g[i - 1] \o messages[i].blocks
    <3>1. CASE i = 0
      BY <1>4, <3>1
    <3>2. CASE i # 0
      <4>1. i \in 1..n /\ g[i - 1] \in Seq(BlockShape)
        <5>1. i \in 1..n /\ i - 1 \in 0..n
          BY <1>1, <3>2
        <5> HIDE DEF n
        <5> QED
          BY <1>4, <5>1
      <4> HIDE DEF n
      <4> QED
        BY <1>4, <3>2, <4>1
    <3> QED
      BY <3>1, <3>2
  <2> QED
    BY <2>1
<1>6. Eq(upto)
  <2> HIDE DEF Eq
  <2> QED
    BY <1>5
<1>7. Joining(messages) = upto
  BY DEF Joining
<1> HIDE DEF upto
<1>8. upto[0] = <<>> /\ \A i \in 1..n : upto[i] = upto[i - 1] \o messages[i].blocks
  <2>1. \A i \in 0..n : upto[i] = IF i = 0 THEN <<>> ELSE upto[i - 1] \o messages[i].blocks
    BY <1>6
  <2>2. 0 \in 0..n /\ \A i \in 1..n : i \in 0..n /\ i # 0
    BY <1>1
  <2> HIDE DEF n
  <2> QED
    BY <2>1, <2>2
<1>9. \A i \in 0..n : upto[i] \in Seq(BlockShape)
  <2> DEFINE S == {i \in 0..n : upto[i] \in Seq(BlockShape)}
  <2>1. 0 \in S
    <3>1. 0 \in 0..n /\ upto[0] \in Seq(BlockShape)
      <4> HIDE DEF n
      <4> QED
        BY <1>1, <1>8
    <3> QED
      BY <3>1
  <2>2. ASSUME NEW i \in 0 + 1..n, i - 1 \in S PROVE i \in S
    <3>1. i \in 1..n /\ i \in 0..n /\ upto[i - 1] \in Seq(BlockShape)
      BY <1>1, <2>2
    <3>2. upto[i] \in Seq(BlockShape)
      <4> HIDE DEF n
      <4> QED
        BY <1>2, <1>8, <3>1
    <3> QED
      BY <3>1, <3>2
  <2> HIDE DEF S, n
  <2>3. \A i \in 0..n : i \in S
    BY <1>1, <2>1, <2>2, UpTo
  <2> QED
    BY <2>3 DEF S
<1>10. upto \in [0..n -> Seq(BlockShape)]
  <2>1. upto = [i \in 0..n |-> IF i = 0 THEN <<>> ELSE upto[i - 1] \o messages[i].blocks]
    BY <1>6
  <2> HIDE DEF n
  <2> QED
    BY <1>9, <2>1
<1> QED
  BY <1>7, <1>8, <1>10

\* What is in the string: of the blocks those that say something, in their order.
SaysFirst(told, blocks, n) ==
    /\ told \in Seq(BlockShape)
    /\ \A k \in 1..Len(told) : \E j \in 1..n : told[k] = blocks[j] /\ HasText(blocks[j])
    /\ \A j \in 1..n : HasText(blocks[j]) => \E k \in 1..Len(told) : told[k] = blocks[j]
    /\ \A j, k \in 1..Len(told) : j < k => told[j].word < told[k].word

LEMMA OneMoreBlock ==
  ASSUME NEW blocks \in Seq(BlockShape), NEW i \in 1..Len(blocks), NEW told,
         \A j, k \in 1..Len(blocks) : j < k => blocks[j].word < blocks[k].word, SaysFirst(told, blocks, i - 1)
  PROVE  SaysFirst(IF HasText(blocks[i]) THEN Append(told, blocks[i]) ELSE told, blocks, i)
<1>1. PICK z \in Nat : z = Len(blocks)
  BY LenProperties
<1>2. i \in 1..z /\ \A j \in 1..z : blocks[j] \in BlockShape
  BY <1>1, ElementOfSeq
<1>3. /\ told \in Seq(BlockShape)
      /\ \A k \in 1..Len(told) : \E j \in 1..i - 1 : told[k] = blocks[j] /\ HasText(blocks[j])
      /\ \A j \in 1..i - 1 : HasText(blocks[j]) => \E k \in 1..Len(told) : told[k] = blocks[j]
      /\ \A j, k \in 1..Len(told) : j < k => told[j].word < told[k].word
  BY DEF SaysFirst
<1>4. PICK y \in Nat : y = Len(told)
  BY <1>3, LenProperties
<1>5. \A j \in 1..i : j \in 1..i - 1 \/ j = i
  BY <1>2
<1>6. CASE ~HasText(blocks[i])
  <2>1. \A k \in 1..Len(told) : \E j \in 1..i : told[k] = blocks[j] /\ HasText(blocks[j])
    BY <1>2, <1>3
  <2>2. \A j \in 1..i : HasText(blocks[j]) => \E k \in 1..Len(told) : told[k] = blocks[j]
    BY <1>3, <1>5, <1>6
  <2> QED
    BY <1>3, <1>6, <2>1, <2>2 DEF SaysFirst
<1>7. CASE HasText(blocks[i])
  <2> DEFINE b == blocks[i]
             more == Append(told, b)
  <2>1. b \in BlockShape /\ b = blocks[i] /\ HasText(b)
    BY <1>2, <1>7
  <2> HIDE DEF b
  <2>2. more \in Seq(BlockShape) /\ Len(more) = y + 1 /\ more[y + 1] = b /\ \A k \in 1..y : more[k] = told[k]
    BY <1>3, <1>4, <2>1, AppendProperties
  <2> HIDE DEF more
  <2>3. \A k \in 1..Len(more) : \E j \in 1..i : more[k] = blocks[j] /\ HasText(blocks[j])
    <3> SUFFICES ASSUME NEW k \in 1..y + 1 PROVE \E j \in 1..i : more[k] = blocks[j] /\ HasText(blocks[j])
      BY <2>2
    <3>1. CASE k = y + 1
      BY <1>2, <2>1, <2>2, <3>1
    <3>2. CASE k \in 1..y
      <4>1. PICK j \in 1..i - 1 : told[k] = blocks[j] /\ HasText(blocks[j])
        BY <1>3, <1>4, <3>2
      <4>2. j \in 1..i /\ more[k] = told[k]
        BY <1>2, <2>2, <3>2
      <4> QED
        BY <4>1, <4>2
    <3> QED
      BY <3>1, <3>2
  <2>4. \A j \in 1..i : HasText(blocks[j]) => \E k \in 1..Len(more) : more[k] = blocks[j]
    <3> SUFFICES ASSUME NEW j \in 1..i, HasText(blocks[j]) PROVE \E k \in 1..y + 1 : more[k] = blocks[j]
      BY <2>2
    <3>1. CASE j = i
      BY <1>4, <2>1, <2>2, <3>1
    <3>2. CASE j \in 1..i - 1
      <4>1. PICK k \in 1..y : told[k] = blocks[j]
        BY <1>3, <1>4, <3>2
      <4>2. k \in 1..y + 1 /\ more[k] = told[k]
        BY <1>4, <2>2
      <4> QED
        BY <4>1, <4>2
    <3> QED
      BY <1>5, <3>1, <3>2
  <2>5. \A j, k \in 1..Len(more) : j < k => more[j].word < more[k].word
    <3> SUFFICES ASSUME NEW j \in 1..y + 1, NEW k \in 1..y + 1, j < k PROVE more[j].word < more[k].word
      BY <2>2
    <3>1. j \in 1..y /\ more[j] = told[j]
      BY <1>4, <2>2
    <3>2. CASE k \in 1..y
      BY <1>3, <1>4, <2>2, <3>1, <3>2
    <3>3. CASE k = y + 1
      <4>1. PICK m \in 1..i - 1 : told[j] = blocks[m]
        BY <1>3, <1>4, <3>1
      <4>2. m \in 1..z /\ m < i
        BY <1>2
      <4>3. blocks[m].word < b.word
        BY <1>1, <1>2, <2>1, <4>2
      <4> QED
        BY <2>2, <3>1, <3>3, <4>1, <4>3
    <3> QED
      BY <3>2, <3>3
  <2> QED
    BY <1>7, <2>1, <2>2, <2>3, <2>4, <2>5 DEF SaysFirst, more, b
<1> QED
  BY <1>6, <1>7

LEMMA FlattenedIs ==
  ASSUME NEW blocks \in Seq(BlockShape), Ascending(blocks)
  PROVE  /\ Flattened(blocks) \in Seq(BlockShape)
         /\ ToSet(Flattened(blocks)) = {b \in ToSet(blocks) : Says(b)}
         /\ \A j, k \in DOMAIN Flattened(blocks) : j < k => Flattened(blocks)[j].word < Flattened(blocks)[k].word
<1> DEFINE f == Flattening(blocks)
<1>1. PICK z \in Nat : z = Len(blocks)
  BY LenProperties
<1>2. \A j, k \in 1..Len(blocks) : j < k => blocks[j].word < blocks[k].word
  BY LenProperties DEF Ascending
<1>3. f[0] = <<>> /\ \A i \in 1..z : f[i] = IF HasText(blocks[i]) THEN Append(f[i - 1], blocks[i]) ELSE f[i - 1]
  BY <1>1, FlatteningIs
<1> HIDE DEF f
<1> DEFINE S == {i \in 0..z : SaysFirst(f[i], blocks, i)}
<1>4. 0 \in S
  <2>1. <<>> \in Seq(BlockShape) /\ Len(<<>>) = 0
    BY EmptySeq
  <2>2. SaysFirst(<<>>, blocks, 0)
    BY <2>1 DEF SaysFirst
  <2> QED
    BY <1>3, <2>2
<1>5. ASSUME NEW i \in 0 + 1..z, i - 1 \in S PROVE i \in S
  <2>1. i \in 1..z /\ i \in 0..z /\ SaysFirst(f[i - 1], blocks, i - 1)
    BY <1>5
  <2>2. SaysFirst(IF HasText(blocks[i]) THEN Append(f[i - 1], blocks[i]) ELSE f[i - 1], blocks, i)
    <3> DEFINE told == f[i - 1]
    <3>1. SaysFirst(told, blocks, i - 1)
      BY <2>1
    <3> HIDE DEF told
    <3>2. SaysFirst(IF HasText(blocks[i]) THEN Append(told, blocks[i]) ELSE told, blocks, i)
      BY <1>1, <1>2, <2>1, <3>1, OneMoreBlock
    <3> QED
      BY <3>2 DEF told
  <2> QED
    BY <1>3, <2>1, <2>2
<1> HIDE DEF S
<1>6. z \in S
  <2>1. \A i \in 0..z : i \in S
    BY <1>4, <1>5, UpTo
  <2> QED
    BY <2>1
<1>7. SaysFirst(Flattened(blocks), blocks, z)
  BY <1>1, <1>6 DEF S, Flattened, f
<1> DEFINE told == Flattened(blocks)
<1>8. SaysFirst(told, blocks, z)
  BY <1>7
<1> HIDE DEF told
<1>9. /\ told \in Seq(BlockShape)
      /\ \A k \in 1..Len(told) : \E j \in 1..z : told[k] = blocks[j] /\ HasText(blocks[j])
      /\ \A j \in 1..z : HasText(blocks[j]) => \E k \in 1..Len(told) : told[k] = blocks[j]
      /\ \A j, k \in 1..Len(told) : j < k => told[j].word < told[k].word
  BY <1>8 DEF SaysFirst
<1>10. DOMAIN told = 1..Len(told) /\ DOMAIN blocks = 1..z
  BY <1>1, <1>9, LenProperties
<1>11. ToSet(told) = {b \in ToSet(blocks) : Says(b)}
  <2>1. ASSUME NEW b \in ToSet(told) PROVE b \in ToSet(blocks) /\ Says(b)
    <3>1. PICK k \in 1..Len(told) : b = told[k]
      BY <1>10 DEF ToSet
    <3>2. PICK j \in 1..z : told[k] = blocks[j] /\ HasText(blocks[j])
      BY <1>9
    <3> QED
      BY <1>10, <3>1, <3>2 DEF ToSet, Says, HasText
  <2>2. ASSUME NEW b \in ToSet(blocks), Says(b) PROVE b \in ToSet(told)
    <3>1. PICK j \in 1..z : b = blocks[j] /\ HasText(blocks[j])
      BY <1>10, <2>2 DEF ToSet, Says, HasText
    <3>2. PICK k \in 1..Len(told) : told[k] = b
      BY <1>9, <3>1
    <3> QED
      BY <1>10, <3>2 DEF ToSet
  <2> QED
    BY <2>1, <2>2
<1> QED
  BY <1>9, <1>10, <1>11 DEF told

\* The sum of what stands together is the sum of the sums.
LEMMA TotalJoined ==
  ASSUME NEW s \in Seq(Nat), NEW t \in Seq(Nat)
  PROVE  Total(s \o t) = Total(s) + Total(t) /\ Total(s) \in Nat /\ Total(t) \in Nat /\ Total(<<>>) = 0
<1> DEFINE u == s \o t
           f == Adding(s)
           g == Adding(t)
           h == Adding(u)
<1>1. PICK y \in Nat, z \in Nat : y = Len(s) /\ z = Len(t)
  BY LenProperties
<1>2. /\ u \in Seq(Nat) /\ Len(u) = y + z /\ \A i \in 1..y : u[i] = s[i]
      /\ \A i \in 1..z : u[y + i] = t[i]
  BY <1>1, ConcatProperties
<1>3. /\ f \in [0..y -> Nat] /\ f[0] = 0 /\ \A i \in 1..y : f[i] = f[i - 1] + s[i]
      /\ g \in [0..z -> Nat] /\ g[0] = 0 /\ \A i \in 1..z : g[i] = g[i - 1] + t[i]
  BY <1>1, AddingIs
<1> HIDE DEF u
<1>4. h \in [0..y + z -> Nat] /\ h[0] = 0 /\ \A i \in 1..y + z : h[i] = h[i - 1] + u[i]
  BY <1>2, AddingIs
<1> HIDE DEF f, g, h
<1>5. \A i \in 0..y : h[i] = f[i]
  <2> DEFINE S == {i \in 0..y : h[i] = f[i]}
  <2>1. 0 \in S
    BY <1>3, <1>4
  <2>2. ASSUME NEW i \in 0 + 1..y, i - 1 \in S PROVE i \in S
    <3>1. i \in 1..y /\ i \in 1..y + z /\ h[i - 1] = f[i - 1]
      BY <2>2
    <3> QED
      BY <1>2, <1>3, <1>4, <3>1
  <2> HIDE DEF S
  <2>3. \A i \in 0..y : i \in S
    BY <2>1, <2>2, UpTo
  <2> QED
    BY <2>3 DEF S
<1>6. \A i \in 0..z : h[y + i] = f[y] + g[i]
  <2> DEFINE S == {i \in 0..z : h[y + i] = f[y] + g[i]}
  <2>1. 0 \in S
    BY <1>3, <1>5
  <2>2. ASSUME NEW i \in 0 + 1..z, i - 1 \in S PROVE i \in S
    <3>1. i \in 1..z /\ y + i \in 1..y + z /\ h[y + (i - 1)] = f[y] + g[i - 1]
      BY <2>2
    <3>2. y + (i - 1) = (y + i) - 1
      OBVIOUS
    <3>3. h[y + i] = h[y + (i - 1)] + t[i]
      BY <1>2, <1>4, <3>1, <3>2
    <3>4. f[y] \in Nat /\ g[i - 1] \in Nat
      <4>1. i - 1 \in 0..z /\ y \in 0..y
        BY <3>1
      <4> QED
        BY <1>3, <4>1
    <3>5. t[i] \in Nat
      BY <1>1, <3>1, ElementOfSeq
    <3>6. g[i] = g[i - 1] + t[i]
      BY <1>3, <3>1
    <3>7. h[y + i] = f[y] + g[i]
      BY <3>1, <3>3, <3>4, <3>5, <3>6
    <3> QED
      BY <3>1, <3>7
  <2> HIDE DEF S
  <2>3. \A i \in 0..z : i \in S
    BY <2>1, <2>2, UpTo
  <2> QED
    BY <2>3 DEF S
<1>7. h[y + z] = f[y] + g[z] /\ f[y] \in Nat /\ g[z] \in Nat
  BY <1>3, <1>6
<1>8. Total(u) = h[y + z] /\ Total(s) = f[y] /\ Total(t) = g[z]
  BY <1>1, <1>2 DEF Total, f, g, h
<1>9. Total(<<>>) = 0
  <2> DEFINE e == <<>>
  <2>1. e \in Seq(Nat) /\ Len(e) = 0
    BY EmptySeq
  <2> HIDE DEF e
  <2>2. Adding(e)[0] = 0
    BY <2>1, AddingIs
  <2> QED
    BY <2>1, <2>2 DEF Total, e
<1> QED
  BY <1>7, <1>8, <1>9 DEF u

TextLength(b) == IF b.kind = "text" THEN b.length ELSE 0
TextLengths(blocks) == [j \in DOMAIN blocks |-> TextLength(blocks[j])]

LEMMA RequestConstants == Lengths \subseteq Nat /\ ProxyLongMax \in Nat /\ ProxyLongMax > 0
  BY RequestAssumption

LEMMA TextLengthsAre ==
  ASSUME NEW s \in Seq(BlockShape), NEW t \in Seq(BlockShape)
  PROVE TextLengths(s) \in Seq(Nat) /\ TextLengths(s \o t) = TextLengths(s) \o TextLengths(t)
<1>1. \A b \in BlockShape : TextLength(b) \in Nat
  BY RequestConstants DEF TextLength, BlockShape
<1>2. PICK y \in Nat, z \in Nat : y = Len(s) /\ z = Len(t)
  BY LenProperties
<1>3. /\ \A i \in 1..y : s[i] \in BlockShape
      /\ \A i \in 1..z : t[i] \in BlockShape
      /\ DOMAIN s = 1..y /\ DOMAIN t = 1..z
  BY <1>2, ElementOfSeq, LenProperties
<1>4. /\ s \o t \in Seq(BlockShape) /\ DOMAIN (s \o t) = 1..y + z
      /\ \A i \in 1..y : (s \o t)[i] = s[i]
      /\ \A i \in y + 1..y + z : (s \o t)[i] = t[i - y]
  BY <1>2, ConcatProperties, LenProperties
<1> DEFINE v == TextLengths(s)
           w == TextLengths(t)
           u == TextLengths(s \o t)
<1>5. v = [j \in 1..y |-> TextLength(s[j])] /\ w = [j \in 1..z |-> TextLength(t[j])]
      /\ u = [j \in 1..y + z |-> TextLength((s \o t)[j])]
  BY <1>3, <1>4 DEF TextLengths
<1>6. v \in Seq(Nat) /\ w \in Seq(Nat) /\ Len(v) = y /\ Len(w) = z
  <2>1. v \in [1..y -> Nat] /\ w \in [1..z -> Nat]
    BY <1>1, <1>3, <1>5
  <2> HIDE DEF v, w
  <2>2. v \in Seq(Nat) /\ w \in Seq(Nat)
    BY <2>1, SeqDef
  <2>3. DOMAIN v = 1..y /\ DOMAIN w = 1..z
    BY <2>1
  <2> QED
    BY <2>2, <2>3, <1>2, LenProperties
<1> HIDE DEF v, w
<1>7. /\ v \o w \in Seq(Nat) /\ DOMAIN (v \o w) = 1..y + z
      /\ \A i \in 1..y : (v \o w)[i] = v[i]
      /\ \A i \in y + 1..y + z : (v \o w)[i] = w[i - y]
  <2> DEFINE x == v \o w
  <2>1. /\ x \in Seq(Nat) /\ Len(x) = y + z
        /\ \A i \in 1..y : x[i] = v[i]
        /\ \A i \in y + 1..y + z : x[i] = w[i - y]
    <3>1. \A a \in Seq(Nat), b \in Seq(Nat) :
             /\ a \o b \in Seq(Nat) /\ Len(a \o b) = Len(a) + Len(b)
             /\ \A i \in 1..Len(a) : (a \o b)[i] = a[i]
             /\ \A i \in Len(a) + 1..Len(a) + Len(b) : (a \o b)[i] = b[i - Len(a)]
      BY ConcatProperties
    <3> QED
      BY <1>6, <3>1
  <2> HIDE DEF x
  <2>2. DOMAIN x = 1..y + z
    BY <2>1, LenProperties
  <2> QED
    BY <2>1, <2>2 DEF x
<1>8. u \in [1..y + z -> Nat]
  <2>1. \A j \in 1..y + z : (s \o t)[j] \in BlockShape
    BY <1>4, ElementOfSeq, LenProperties
  <2> QED
    BY <1>1, <1>5, <2>1
<1>9. \A i \in 1..y + z : (v \o w)[i] = u[i]
  <2> SUFFICES ASSUME NEW i \in 1..y + z PROVE (v \o w)[i] = u[i]
    OBVIOUS
  <2>1. u[i] = TextLength((s \o t)[i])
    BY <1>5
  <2> HIDE DEF u
  <2>2. CASE i \in 1..y
    BY <1>4, <1>5, <1>7, <2>1, <2>2
  <2>3. CASE i \in y + 1..y + z
    <3>1. i - y \in 1..z
      BY <1>2, <2>3
    <3>2. (s \o t)[i] = t[i - y] /\ (v \o w)[i] = w[i - y]
      BY <1>4, <1>7, <2>3
    <3>3. w[i - y] = TextLength(t[i - y])
      BY <1>5, <3>1
    <3> QED
      BY <2>1, <3>2, <3>3
  <2>4. i \in 1..y \/ i \in y + 1..y + z
    OBVIOUS
  <2> QED
    BY <2>2, <2>3, <2>4
<1> HIDE DEF u
<1>10. v \o w = u
  <2> DEFINE x == v \o w
  <2>1. x \in Seq(Nat) /\ DOMAIN x = 1..y + z
    BY <1>7
  <2>2. \A i \in 1..y + z : x[i] = u[i]
    BY <1>9
  <2> HIDE DEF x
  <2>3. x \in [1..y + z -> Nat]
    <3>1. Len(x) = y + z
      BY <1>2, <2>1, LenProperties
    <3> QED
      BY <2>1, <3>1, LenProperties, SeqDef
  <2>4. x = u
    BY <1>8, <2>2, <2>3
  <2> QED
    BY <2>4 DEF x
<1> QED
  BY <1>6, <1>10 DEF v, w, u

\* All the blocks: each is in some message, each message's are among them, and their
\* text is as long as that of the messages together.
JoinedSoFar(all, messages, n, sum) ==
    /\ all \in Seq(BlockShape)
    /\ \A m \in 1..n : \A j \in 1..Len(messages[m].blocks) : \E k \in 1..Len(all) : all[k] = messages[m].blocks[j]
    /\ Total(TextLengths(all)) = sum

LEMMA OneMoreMessage ==
  ASSUME NEW messages \in Seq(MessageShape), NEW i \in 1..Len(messages), NEW all, NEW sum \in Nat,
         JoinedSoFar(all, messages, i - 1, sum)
  PROVE  JoinedSoFar(all \o messages[i].blocks, messages, i, sum + Total(TextLengths(messages[i].blocks)))
<1>1. PICK q \in Nat : q = Len(messages)
  BY LenProperties
<1> DEFINE b == messages[i].blocks
           more == all \o b
<1>2. b \in Seq(BlockShape) /\ i \in 1..q
  <2>1. messages[i] \in MessageShape
    BY ElementOfSeq
  <2> QED
    BY <1>1, <2>1 DEF MessageShape
<1>3. /\ all \in Seq(BlockShape) /\ Total(TextLengths(all)) = sum
      /\ \A m \in 1..i - 1 : \A j \in 1..Len(messages[m].blocks) : \E k \in 1..Len(all) : all[k] = messages[m].blocks[j]
  BY DEF JoinedSoFar
<1>4. b = messages[i].blocks
  OBVIOUS
<1> HIDE DEF b
<1>5. PICK y \in Nat, z \in Nat : y = Len(all) /\ z = Len(b)
  BY <1>2, <1>3, LenProperties
<1>6. /\ more \in Seq(BlockShape) /\ Len(more) = y + z /\ \A k \in 1..y : more[k] = all[k]
      /\ \A k \in 1..z : more[y + k] = b[k]
  <2>1. /\ more \in Seq(BlockShape) /\ Len(more) = y + z /\ \A k \in 1..y : more[k] = all[k]
        /\ \A k \in y + 1..y + z : more[k] = b[k - y]
    BY <1>2, <1>3, <1>5, ConcatProperties
  <2>2. \A k \in 1..z : y + k \in y + 1..y + z /\ (y + k) - y = k
    OBVIOUS
  <2> HIDE DEF more
  <2> QED
    BY <2>1, <2>2
<1>7. Total(TextLengths(more)) = sum + Total(TextLengths(b))
  <2>1. TextLengths(all) \in Seq(Nat) /\ TextLengths(b) \in Seq(Nat)
        /\ TextLengths(more) = TextLengths(all) \o TextLengths(b)
    BY <1>2, <1>3, TextLengthsAre
  <2> HIDE DEF more
  <2> QED
    BY <1>3, <2>1, TotalJoined
<1> HIDE DEF more
<1>8. ASSUME NEW m \in 1..i, NEW j \in 1..Len(messages[m].blocks)
      PROVE  \E k \in 1..Len(more) : more[k] = messages[m].blocks[j]
  <2>1. CASE m = i
    <3>1. j \in 1..z /\ messages[m].blocks[j] = b[j]
      BY <1>4, <1>5, <2>1
    <3>2. y + j \in 1..y + z
      BY <3>1
    <3> QED
      BY <1>6, <3>1, <3>2
  <2>2. CASE m # i
    <3>1. m \in 1..i - 1
      BY <1>2, <2>2
    <3>2. PICK k \in 1..y : all[k] = messages[m].blocks[j]
      BY <1>3, <1>5, <3>1
    <3>3. k \in 1..y + z
      OBVIOUS
    <3> QED
      BY <1>6, <3>2, <3>3
  <2> QED
    BY <2>1, <2>2
<1>9. JoinedSoFar(more, messages, i, sum + Total(TextLengths(b)))
  BY <1>6, <1>7, <1>8 DEF JoinedSoFar
<1> QED
  BY <1>9 DEF more, b

LEMMA BlocksAre ==
  ASSUME NEW messages \in Seq(MessageShape)
  PROVE  /\ Blocks(messages) \in Seq(BlockShape)
         /\ \A m \in DOMAIN messages : \A j \in DOMAIN messages[m].blocks :
               \E k \in DOMAIN Blocks(messages) : Blocks(messages)[k] = messages[m].blocks[j]
         /\ [i \in DOMAIN messages |-> Total(TextLengths(messages[i].blocks))] \in Seq(Nat)
         /\ Total(TextLengths(Blocks(messages))) = Total([i \in DOMAIN messages |-> Total(TextLengths(messages[i].blocks))])
<1> DEFINE f == Joining(messages)
           sums == [i \in DOMAIN messages |-> Total(TextLengths(messages[i].blocks))]
           g == Adding(sums)
<1>1. PICK z \in Nat : z = Len(messages) /\ DOMAIN messages = 1..z
  BY LenProperties
<1>2. \A i \in 1..z : messages[i].blocks \in Seq(BlockShape)
  <2>1. \A i \in 1..z : messages[i] \in MessageShape
    BY <1>1, ElementOfSeq
  <2> QED
    BY <2>1 DEF MessageShape
<1>3. sums = [i \in 1..z |-> Total(TextLengths(messages[i].blocks))]
  BY <1>1
<1>4. sums \in Seq(Nat) /\ Len(sums) = z
  <2>1. \A i \in 1..z : Total(TextLengths(messages[i].blocks)) \in Nat
    BY <1>2, TextLengthsAre, TotalJoined
  <2>2. sums \in [1..z -> Nat]
    BY <1>3, <2>1
  <2> HIDE DEF sums
  <2> QED
    BY <2>2, SeqDef, LenProperties
<1>5. \A i \in 1..z : sums[i] = Total(TextLengths(messages[i].blocks))
  BY <1>3
<1>6. f[0] = <<>> /\ \A i \in 1..z : f[i] = f[i - 1] \o messages[i].blocks
  BY <1>1, JoiningIs
<1> HIDE DEF sums
<1>7. g \in [0..z -> Nat] /\ g[0] = 0 /\ \A i \in 1..z : g[i] = g[i - 1] + sums[i]
  BY <1>4, AddingIs
<1> HIDE DEF f, g
<1> DEFINE S == {i \in 0..z : JoinedSoFar(f[i], messages, i, g[i])}
<1>8. 0 \in S
  <2> DEFINE e == <<>>
  <2>1. e \in Seq(BlockShape) /\ Total(e) = 0
    BY EmptySeq, TotalJoined
  <2>2. TextLengths(e) = e
    <3>1. DOMAIN e = {}
      OBVIOUS
    <3> QED
      BY <3>1 DEF TextLengths
  <2>3. f[0] = e
    BY <1>6
  <2> HIDE DEF e
  <2>4. JoinedSoFar(e, messages, 0, 0)
    BY <2>1, <2>2 DEF JoinedSoFar
  <2> QED
    BY <1>7, <2>3, <2>4
<1>9. ASSUME NEW i \in 0 + 1..z, i - 1 \in S PROVE i \in S
  <2>1. i \in 1..z /\ i \in 0..z /\ i - 1 \in 0..z /\ JoinedSoFar(f[i - 1], messages, i - 1, g[i - 1])
    BY <1>9
  <2> DEFINE all == f[i - 1]
             sum == g[i - 1]
  <2>2. sum \in Nat /\ JoinedSoFar(all, messages, i - 1, sum)
    BY <1>7, <2>1
  <2>3. f[i] = all \o messages[i].blocks /\ g[i] = sum + Total(TextLengths(messages[i].blocks))
    BY <1>5, <1>6, <1>7, <2>1
  <2> HIDE DEF all, sum
  <2>4. JoinedSoFar(all \o messages[i].blocks, messages, i, sum + Total(TextLengths(messages[i].blocks)))
    BY <1>1, <2>1, <2>2, OneMoreMessage
  <2> QED
    BY <2>1, <2>3, <2>4
<1> HIDE DEF S
<1>10. \A i \in 0..z : i \in S
  BY <1>8, <1>9, UpTo
<1>11. JoinedSoFar(f[z], messages, z, g[z])
  BY <1>10 DEF S
<1>12. Blocks(messages) = f[z] /\ Total(sums) = g[z]
  BY <1>1, <1>4 DEF Blocks, Total, f, g
<1> DEFINE all == Blocks(messages)
<1>13. JoinedSoFar(all, messages, z, Total(sums))
  BY <1>11, <1>12
<1>14. all \in Seq(BlockShape)
  BY <1>13 DEF JoinedSoFar
<1>15. \A m \in DOMAIN messages : \A j \in DOMAIN messages[m].blocks :
               \E k \in DOMAIN all : all[k] = messages[m].blocks[j]
  <2> HIDE DEF all
  <2>1. DOMAIN all = 1..Len(all) /\ \A m \in 1..z : DOMAIN messages[m].blocks = 1..Len(messages[m].blocks)
    BY <1>2, <1>14, LenProperties
  <2> QED
    BY <1>1, <1>13, <2>1 DEF JoinedSoFar
<1>16. Total(TextLengths(all)) = Total(sums)
  BY <1>13 DEF JoinedSoFar
<1> QED
  BY <1>4, <1>14, <1>15, <1>16 DEF sums

\* Where a request goes says how long it is.
LEMMA TokensAre ==
  ASSUME NEW chars \in Nat, NEW limit \in Nat, limit > 0
  PROVE  (IF chars * 10 < 36 THEN 1 ELSE (chars * 10) \div 36) <= limit <=> chars * 10 < 36 * (limit + 1)
<1> DEFINE x == chars * 10
<1>1. x \in Nat
  OBVIOUS
<1> HIDE DEF x
<1>2. x >= 36 => (x \div 36 <= limit <=> x < 36 * (limit + 1))
  BY <1>1
<1>3. x < 36 => 1 <= limit /\ x < 36 * (limit + 1)
  BY <1>1
<1> QED
  BY <1>1, <1>2, <1>3 DEF x

LEMMA TalkIsFitting == RequestIInv => TalkFits
<1> SUFFICES ASSUME RequestIInv, went # None, \A i \in DOMAIN Blocks(said) : Blocks(said)[i].kind \in {"text", "image"}
             PROVE  (went = "local") <=> (Total(TextLengths(Blocks(said))) * 10 < 36 * (ProxyLongMax + 1))
  BY DEF TalkFits, TextLengths, TextLength
<1>1. said \in Seq(MessageShape) /\ went = IF EstimatedTokens(said) <= ProxyLongMax THEN "local" ELSE "upstream"
  BY DEF RequestIInv
<1> DEFINE lengths == [i \in DOMAIN said |-> Total(TextLengths(said[i].blocks))]
<1>2. /\ \A m \in DOMAIN said : \A j \in DOMAIN said[m].blocks : said[m].blocks[j].kind \in {"text", "image"}
      /\ lengths \in Seq(Nat) /\ Total(TextLengths(Blocks(said))) = Total(lengths)
  <2>1. /\ \A m \in DOMAIN said : \A j \in DOMAIN said[m].blocks :
               \E k \in DOMAIN Blocks(said) : Blocks(said)[k] = said[m].blocks[j]
        /\ lengths \in Seq(Nat) /\ Total(TextLengths(Blocks(said))) = Total(lengths)
    BY <1>1, BlocksAre
  <2>2. ASSUME NEW m \in DOMAIN said, NEW j \in DOMAIN said[m].blocks PROVE said[m].blocks[j].kind \in {"text", "image"}
    BY <2>1
  <2> QED
    BY <2>1, <2>2
<1> DEFINE counted == [i \in DOMAIN said |-> Total([j \in DOMAIN said[i].blocks |-> Counted(said[i].blocks[j])])]
<1>3. counted = lengths
  <2>1. ASSUME NEW i \in DOMAIN said
        PROVE [j \in DOMAIN said[i].blocks |-> Counted(said[i].blocks[j])] = TextLengths(said[i].blocks)
    <3>1. \A j \in DOMAIN said[i].blocks : Counted(said[i].blocks[j]) = TextLength(said[i].blocks[j])
      BY <1>2 DEF Counted, TextLength
    <3> QED
      BY <3>1 DEF TextLengths
  <2>2. \A i \in DOMAIN said :
           Total([j \in DOMAIN said[i].blocks |-> Counted(said[i].blocks[j])]) = Total(TextLengths(said[i].blocks))
    BY <2>1
  <2> QED
    BY <2>2
<1> DEFINE chars == Total(counted)
<1>4. EstimatedTokens(said) = IF said = <<>> THEN 0 ELSE IF chars * 10 < 36 THEN 1 ELSE (chars * 10) \div 36
  BY DEF EstimatedTokens
<1> HIDE DEF counted
<1>5. chars \in Nat /\ Total(lengths) = chars
  <2> HIDE DEF lengths
  <2> QED
    BY <1>2, <1>3, TotalJoined
<1>6. said = <<>> => chars = 0
  <2> SUFFICES ASSUME said = <<>> PROVE chars = 0
    OBVIOUS
  <2>1. lengths = <<>>
    <3>1. DOMAIN said = {}
      OBVIOUS
    <3> QED
      BY <3>1
  <2> QED
    BY <1>2, <1>5, <2>1, TotalJoined
<1> HIDE DEF chars, lengths
<1>7. EstimatedTokens(said) <= ProxyLongMax <=> chars * 10 < 36 * (ProxyLongMax + 1)
  <2>1. CASE said = <<>>
    BY <1>4, <1>6, <2>1, RequestConstants
  <2>2. CASE said # <<>>
    <3>1. (IF chars * 10 < 36 THEN 1 ELSE (chars * 10) \div 36) <= ProxyLongMax <=> chars * 10 < 36 * (ProxyLongMax + 1)
      BY <1>5, RequestConstants, TokensAre
    <3> QED
      BY <1>4, <2>2, <3>1
  <2> QED
    BY <2>1, <2>2
<1>8. went = "local" <=> EstimatedTokens(said) <= ProxyLongMax
  BY <1>1
<1> QED
  BY <1>2, <1>5, <1>7, <1>8

LEMMA WordsAreKept == RequestIInv => WordsKept
<1> SUFFICES ASSUME RequestIInv PROVE WordsKept
  OBVIOUS
<1>1. /\ system \in {None} \cup [kind : {"text"}, word : {0}, length : Lengths]
      /\ said \in Seq(MessageShape) /\ \A i \in DOMAIN said : Ascending(said[i].blocks)
  BY DEF RequestIInv
<1> DEFINE rest == [i \in DOMAIN said |-> [role |-> RoleOf(said[i].role), content |-> Flattened(said[i].blocks)]]
           first == [role |-> "system", content |-> Flattened(<<system>>)]
           out == ToOpenAI(said)
           body == IF system = None THEN out ELSE Tail(out)
<1>2. PICK z \in Nat : z = Len(said) /\ DOMAIN said = 1..z
  BY <1>1, LenProperties
<1>3. Len(rest) = z /\ DOMAIN rest = 1..z /\ \E V : rest \in Seq(V)
  <2> DEFINE V == {rest[i] : i \in 1..z}
  <2>1. rest \in [1..z -> V]
    BY <1>2
  <2>2. DOMAIN rest = 1..z
    BY <1>2
  <2> HIDE DEF rest
  <2>3. rest \in Seq(V)
    BY <2>1, SeqDef
  <2>4. Len(rest) = z
    BY <2>2, <2>3, LenProperties
  <2> QED
    BY <2>2, <2>3, <2>4
<1>4. \A i \in 1..z : rest[i] = [role |-> RoleOf(said[i].role), content |-> Flattened(said[i].blocks)]
  BY <1>2
<1>5. out = (IF system = None THEN <<>> ELSE <<first>>) \o rest
  BY DEF ToOpenAI
<1> HIDE DEF rest, out, first
<1>6. /\ Len(body) = z /\ \A i \in 1..z : body[i] = rest[i]
      /\ system # None => Head(out) = first
  <2>1. PICK V : rest \in Seq(V)
    BY <1>3
  <2>2. CASE system = None
    <3>1. out = rest
      BY <1>5, <2>1, <2>2, ConcatEmptySeq
    <3> QED
      BY <1>3, <2>2, <3>1
  <2>3. CASE system # None
    <3> DEFINE W == V \cup {first}
               one == <<first>>
    <3>1. one \in Seq(W) /\ Len(one) = 1 /\ one[1] = first /\ rest \in Seq(W)
      <4>1. one \in Seq(W) /\ Len(one) = 1 /\ one[1] = first
        OBVIOUS
      <4>2. rest \in [1..z -> W]
        <5>1. \A i \in 1..z : rest[i] \in W
          BY <1>3, <2>1, ElementOfSeq
        <5>2. rest = [i \in 1..z |-> rest[i]]
          BY <1>3, <2>1, LenProperties, SeqDef
        <5> HIDE DEF W
        <5> QED
          BY <5>1, <5>2
      <4> HIDE DEF W
      <4> QED
        BY <4>1, <4>2, SeqDef
    <3>2. out = one \o rest
      BY <1>5, <2>3
    <3> HIDE DEF one, W
    <3>3. /\ out \in Seq(W) /\ Len(out) = 1 + z /\ out[1] = first
          /\ \A i \in 1 + 1..1 + z : out[i] = rest[i - 1]
      <4>1. /\ one \o rest \in Seq(W) /\ Len(one \o rest) = Len(one) + Len(rest)
            /\ \A i \in 1..Len(one) : (one \o rest)[i] = one[i]
            /\ \A i \in Len(one) + 1..Len(one) + Len(rest) : (one \o rest)[i] = rest[i - Len(one)]
        <5>1. \A a \in Seq(W), b \in Seq(W) :
                 /\ a \o b \in Seq(W) /\ Len(a \o b) = Len(a) + Len(b)
                 /\ \A i \in 1..Len(a) : (a \o b)[i] = a[i]
                 /\ \A i \in Len(a) + 1..Len(a) + Len(b) : (a \o b)[i] = b[i - Len(a)]
          BY ConcatProperties
        <5> QED
          BY <3>1, <5>1
      <4> QED
        BY <1>3, <3>1, <3>2, <4>1
    <3>4. out # <<>> /\ Len(Tail(out)) = z /\ Head(out) = first /\ \A i \in 1..z : Tail(out)[i] = out[i + 1]
      <4>1. out # <<>>
        <5>1. Len(out) # Len(<<>>)
          BY <3>3, EmptySeq
        <5> QED
          BY <5>1
      <4>2. /\ Len(Tail(out)) = Len(out) - 1 /\ Head(out) = out[1]
            /\ \A i \in 1..Len(Tail(out)) : Tail(out)[i] = out[i + 1]
        BY <3>3, <4>1, HeadTailProperties
      <4> QED
        BY <3>3, <4>1, <4>2
    <3>5. \A i \in 1..z : i + 1 \in 1 + 1..1 + z /\ (i + 1) - 1 = i
      OBVIOUS
    <3>6. \A i \in 1..z : Tail(out)[i] = rest[i]
      BY <3>3, <3>4, <3>5
    <3> QED
      BY <2>3, <3>4, <3>6
  <2> QED
    BY <2>2, <2>3
<1> HIDE DEF body
<1>7. system # None => Head(out) = [role |-> "system", content |-> <<system>>]
  <2> SUFFICES ASSUME system # None PROVE first = [role |-> "system", content |-> <<system>>]
    BY <1>6
  <2>1. system.kind = "text"
    BY <1>1
  <2> DEFINE s == <<system>>
             V == {system}
  <2>2. s \in Seq(V) /\ Len(s) = 1 /\ s[1] = system /\ HasText(system)
    BY <2>1 DEF HasText
  <2> HIDE DEF s, V
  <2>3. Flattening(s)[0] = <<>> /\ Flattening(s)[1] = IF HasText(s[1]) THEN Append(Flattening(s)[0], s[1]) ELSE Flattening(s)[0]
    <3>1. /\ Flattening(s)[0] = <<>>
          /\ \A i \in 1..Len(s) : Flattening(s)[i] = IF HasText(s[i]) THEN Append(Flattening(s)[i - 1], s[i]) ELSE Flattening(s)[i - 1]
      BY <2>2, FlatteningIs
    <3>2. 1 \in 1..Len(s) /\ 1 - 1 = 0
      BY <2>2
    <3> QED
      BY <3>1, <3>2
  <2>4. Flattened(s) = Append(<<>>, system)
    BY <2>2, <2>3 DEF Flattened
  <2>5. Append(<<>>, system) = <<system>>
    OBVIOUS
  <2> QED
    BY <2>4, <2>5 DEF first, s
<1>8. ASSUME NEW i \in DOMAIN said
      PROVE  LET told == body[i].content
             IN  /\ ToSet(told) = {b \in ToSet(said[i].blocks) : Says(b)}
                 /\ \A j, k \in DOMAIN told : j < k => told[j].word < told[k].word
                 /\ body[i].role = IF said[i].role = "assistant" THEN "assistant" ELSE "user"
  <2>1. said[i] \in MessageShape /\ Ascending(said[i].blocks) /\ i \in 1..z
    BY <1>1, <1>2, ElementOfSeq
  <2>2. body[i].content = Flattened(said[i].blocks) /\ body[i].role = RoleOf(said[i].role)
    <3>1. body[i] = [role |-> RoleOf(said[i].role), content |-> Flattened(said[i].blocks)]
      BY <1>4, <1>6, <2>1
    <3> QED
      BY <3>1
  <2>3. said[i].blocks \in Seq(BlockShape) /\ said[i].role \in {"user", "human", "assistant"}
    BY <2>1 DEF MessageShape
  <2>4. RoleOf(said[i].role) = IF said[i].role = "assistant" THEN "assistant" ELSE "user"
    BY <2>3 DEF RoleOf
  <2> DEFINE blocks == said[i].blocks
  <2>5. /\ ToSet(Flattened(blocks)) = {b \in ToSet(blocks) : Says(b)}
        /\ \A j, k \in DOMAIN Flattened(blocks) : j < k => Flattened(blocks)[j].word < Flattened(blocks)[k].word
    <3> HIDE DEF blocks
    <3>1. blocks \in Seq(BlockShape) /\ Ascending(blocks)
      BY <2>1, <2>3 DEF blocks
    <3> QED
      BY <3>1, FlattenedIs
  <2> QED
    BY <2>2, <2>4, <2>5
<1> QED
  BY <1>2, <1>6, <1>7, <1>8 DEF WordsKept, body, out

\* A request sent: what was said before is what is said now but for one more block.
SaysAll(messages, w) ==
    /\ messages \in Seq(MessageShape)
    /\ \A i \in DOMAIN messages : Ascending(messages[i].blocks) /\ UsedUpTo(messages[i].blocks, w)

LEMMA SendsKeeps ==
  ASSUME RequestIInv, NEW messages, SaysAll(messages, words + 1), Sends(messages)
  PROVE RequestIInv'
<1>1. /\ words' = words + 1 /\ said' = messages /\ system' = system
      /\ went' = IF EstimatedTokens(messages) <= ProxyLongMax THEN "local" ELSE "upstream"
  BY DEF Sends
<1>2. /\ system \in {None} \cup [kind : {"text"}, word : {0}, length : Lengths]
      /\ words \in Nat
  BY DEF RequestIInv
<1>3. system' \in {None} \cup [kind : {"text"}, word : {0}, length : Lengths] /\ words' \in Nat
  BY <1>1, <1>2
<1>4. said' \in Seq(MessageShape) /\ \A i \in DOMAIN said' : Ascending(said'[i].blocks) /\ UsedUpTo(said'[i].blocks, words')
  BY <1>1 DEF SaysAll
<1>5. went' # None => went' = IF EstimatedTokens(said') <= ProxyLongMax THEN "local" ELSE "upstream"
  BY <1>1
<1> QED
  BY <1>3, <1>4, <1>5 DEF RequestIInv

LEMMA NewBlock ==
  ASSUME RequestIInv, NEW kind \in Kinds, NEW n \in Lengths
  PROVE  Block(kind, n) \in BlockShape /\ Block(kind, n).word = words + 1
BY DEF RequestIInv, Block, BlockShape

LEMMA OneBlock ==
  ASSUME NEW b \in BlockShape, NEW w, b.word = w, NEW role \in {"user", "human", "assistant"}, NEW plain \in BOOLEAN
  PROVE  LET m == [role |-> role, blocks |-> <<b>>, plain |-> plain]
         IN  m \in MessageShape /\ Ascending(m.blocks) /\ UsedUpTo(m.blocks, w)
<1> DEFINE s == <<b>>
<1>1. s \in Seq(BlockShape) /\ DOMAIN s = {1} /\ s[1] = b
  OBVIOUS
<1> HIDE DEF s
<1>2. b.word \in Nat
  BY DEF BlockShape
<1>3. Ascending(s) /\ UsedUpTo(s, w)
  BY <1>1, <1>2 DEF Ascending, UsedUpTo
<1> DEFINE m == [role |-> role, blocks |-> s, plain |-> plain]
<1>4. m.blocks = s
  OBVIOUS
<1>5. m \in MessageShape
  BY <1>1 DEF MessageShape
<1> QED
  BY <1>3, <1>4, <1>5 DEF s

LEMMA MessageSaid ==
  ASSUME RequestIInv, NEW m \in MessageShape, Ascending(m.blocks), UsedUpTo(m.blocks, words + 1)
  PROVE  SaysAll(Append(said, m), words + 1)
<1>1. /\ said \in Seq(MessageShape) /\ words \in Nat
      /\ \A i \in DOMAIN said : Ascending(said[i].blocks) /\ UsedUpTo(said[i].blocks, words)
  BY DEF RequestIInv
<1>2. PICK z \in Nat : z = Len(said) /\ DOMAIN said = 1..z
  BY <1>1, LenProperties
<1> DEFINE more == Append(said, m)
<1>3. /\ more \in Seq(MessageShape) /\ DOMAIN more = 1..z + 1 /\ more[z + 1] = m
      /\ \A i \in 1..z : more[i] = said[i]
  <2>1. /\ more \in Seq(MessageShape) /\ Len(more) = z + 1 /\ more[z + 1] = m
        /\ \A i \in 1..z : more[i] = said[i]
    BY <1>1, <1>2, AppendProperties
  <2> HIDE DEF more
  <2> QED
    BY <2>1, LenProperties
<1> HIDE DEF more
<1>4. ASSUME NEW i \in DOMAIN more PROVE Ascending(more[i].blocks) /\ UsedUpTo(more[i].blocks, words + 1)
  <2>1. CASE i = z + 1
    BY <1>3, <2>1
  <2>2. CASE i \in 1..z
    <3>1. more[i] = said[i] /\ said[i] \in MessageShape /\ Ascending(said[i].blocks) /\ UsedUpTo(said[i].blocks, words)
      BY <1>1, <1>2, <1>3, <2>2, ElementOfSeq
    <3>2. said[i].blocks \in Seq(BlockShape)
      BY <3>1 DEF MessageShape
    <3>3. \A j \in DOMAIN said[i].blocks : said[i].blocks[j].word \in Nat
      <4>1. \A j \in DOMAIN said[i].blocks : said[i].blocks[j] \in BlockShape
        BY <3>2, ElementOfSeq, LenProperties
      <4> QED
        BY <4>1 DEF BlockShape
    <3>4. UsedUpTo(said[i].blocks, words + 1)
      BY <1>1, <3>1, <3>3 DEF UsedUpTo
    <3> QED
      BY <3>1, <3>4
  <2> QED
    BY <1>3, <2>1, <2>2
<1> QED
  BY <1>3, <1>4 DEF SaysAll, more

LEMMA BlockSaid ==
  ASSUME RequestIInv, said # <<>>, NEW kind \in Kinds, NEW n \in Lengths
  PROVE  SaysAll([said EXCEPT ![Len(said)].blocks = Append(@, Block(kind, n))], words + 1)
<1>1. /\ said \in Seq(MessageShape) /\ words \in Nat
      /\ \A i \in DOMAIN said : Ascending(said[i].blocks) /\ UsedUpTo(said[i].blocks, words)
  BY DEF RequestIInv
<1>2. PICK z \in Nat : z = Len(said) /\ DOMAIN said = 1..z /\ z > 0
  BY <1>1, LenProperties, EmptySeq
<1> DEFINE b == Block(kind, n)
           last == said[z].blocks
           more == Append(last, b)
           messages == [said EXCEPT ![z].blocks = more]
<1>3. b \in BlockShape /\ b.word = words + 1
  BY NewBlock
<1> HIDE DEF b
<1>4. said[z] \in MessageShape /\ last \in Seq(BlockShape) /\ Ascending(last) /\ UsedUpTo(last, words)
  <2>1. said[z] \in MessageShape /\ Ascending(last) /\ UsedUpTo(last, words)
    BY <1>1, <1>2, ElementOfSeq
  <2> QED
    BY <2>1 DEF MessageShape
<1> HIDE DEF last
<1>5. PICK y \in Nat : y = Len(last) /\ DOMAIN last = 1..y
  BY <1>4, LenProperties
<1>6. more \in Seq(BlockShape) /\ DOMAIN more = 1..y + 1 /\ more[y + 1] = b /\ \A j \in 1..y : more[j] = last[j]
  <2>1. more \in Seq(BlockShape) /\ Len(more) = y + 1 /\ more[y + 1] = b /\ \A j \in 1..y : more[j] = last[j]
    BY <1>3, <1>4, <1>5, AppendProperties
  <2> HIDE DEF more
  <2> QED
    BY <2>1, LenProperties
<1> HIDE DEF more
<1>7. \A j \in 1..y : last[j].word \in Nat /\ last[j].word <= words
  <2>1. \A j \in 1..y : last[j] \in BlockShape
    BY <1>4, <1>5, ElementOfSeq
  <2> QED
    BY <1>4, <1>5, <2>1 DEF BlockShape, UsedUpTo
<1>8. Ascending(more)
  <2> SUFFICES ASSUME NEW j \in 1..y + 1, NEW k \in 1..y + 1, j < k PROVE more[j].word < more[k].word
    BY <1>6 DEF Ascending
  <2>1. j \in 1..y /\ more[j] = last[j]
    BY <1>6
  <2>2. CASE k = y + 1
    BY <1>1, <1>3, <1>6, <1>7, <2>1, <2>2
  <2>3. CASE k \in 1..y
    BY <1>4, <1>5, <1>6, <2>1, <2>3 DEF Ascending
  <2> QED
    BY <2>2, <2>3
<1>9. UsedUpTo(more, words + 1)
  <2> SUFFICES ASSUME NEW j \in 1..y + 1 PROVE more[j].word <= words + 1
    BY <1>6 DEF UsedUpTo
  <2>1. CASE j = y + 1
    BY <1>1, <1>3, <1>6, <2>1
  <2>2. CASE j \in 1..y
    BY <1>1, <1>6, <1>7, <2>2
  <2> QED
    BY <2>1, <2>2
<1>10. [said EXCEPT ![Len(said)].blocks = Append(@, Block(kind, n))] = messages
  BY <1>2 DEF b, last, more
<1>11. DOMAIN messages = 1..z /\ messages[z] = [said[z] EXCEPT !.blocks = more] /\ \A i \in 1..z : i # z => messages[i] = said[i]
  BY <1>2
<1>12. [said[z] EXCEPT !.blocks = more] \in MessageShape /\ [said[z] EXCEPT !.blocks = more].blocks = more
  BY <1>4, <1>6 DEF MessageShape
<1> HIDE DEF messages
<1>13. messages \in Seq(MessageShape)
  <2>1. \A i \in 1..z : messages[i] \in MessageShape
    BY <1>1, <1>2, <1>11, <1>12, ElementOfSeq
  <2>2. messages = [i \in 1..z |-> messages[i]]
    BY <1>11 DEF messages
  <2>3. messages \in [1..z -> MessageShape]
    BY <2>1, <2>2
  <2> QED
    BY <2>3, SeqDef
<1>14. ASSUME NEW i \in 1..z PROVE Ascending(messages[i].blocks) /\ UsedUpTo(messages[i].blocks, words + 1)
  <2>1. CASE i = z
    BY <1>8, <1>9, <1>11, <1>12, <2>1
  <2>2. CASE i # z
    <3>1. messages[i] = said[i] /\ said[i] \in MessageShape /\ Ascending(said[i].blocks) /\ UsedUpTo(said[i].blocks, words)
      BY <1>1, <1>2, <1>11, <2>2, ElementOfSeq
    <3>2. said[i].blocks \in Seq(BlockShape)
      BY <3>1 DEF MessageShape
    <3>3. \A j \in DOMAIN said[i].blocks : said[i].blocks[j].word \in Nat
      <4>1. \A j \in DOMAIN said[i].blocks : said[i].blocks[j] \in BlockShape
        BY <3>2, ElementOfSeq, LenProperties
      <4> QED
        BY <4>1 DEF BlockShape
    <3>4. UsedUpTo(said[i].blocks, words + 1)
      BY <1>1, <3>1, <3>3 DEF UsedUpTo
    <3> QED
      BY <3>1, <3>4
  <2> QED
    BY <2>1, <2>2
<1> QED
  BY <1>10, <1>11, <1>13, <1>14 DEF SaysAll

LEMMA InitRequestIInv == RequestInit => RequestIInv
<1> SUFFICES ASSUME RequestInit PROVE RequestIInv
  OBVIOUS
<1>1. said = <<>> /\ words = 0 /\ went = None
      /\ system \in {None} \cup {[kind |-> "text", word |-> 0, length |-> n] : n \in Lengths}
  BY DEF RequestInit
<1>2. said \in Seq(MessageShape) /\ DOMAIN said = {}
  BY <1>1, EmptySeq
<1>3. system \in {None} \cup [kind : {"text"}, word : {0}, length : Lengths]
  BY <1>1
<1> QED
  BY <1>1, <1>2, <1>3 DEF RequestIInv

LEMMA RequestStepKeeps == RequestIInv /\ [RequestNext]_requestVars => RequestIInv'
<1> SUFFICES ASSUME RequestIInv, [RequestNext]_requestVars PROVE RequestIInv'
  OBVIOUS
<1>1. CASE UNCHANGED requestVars
  BY <1>1 DEF RequestIInv, requestVars
<1>2. ASSUME NEW n \in Lengths, NEW role \in {"user", "human", "assistant"}, SayPlain(role, n) PROVE RequestIInv'
  <2> DEFINE m == [role |-> role, blocks |-> <<Block("text", n)>>, plain |-> TRUE]
  <2>1. Block("text", n) \in BlockShape /\ Block("text", n).word = words + 1
    BY NewBlock DEF Kinds
  <2>2. m \in MessageShape /\ Ascending(m.blocks) /\ UsedUpTo(m.blocks, words + 1)
    BY <2>1, OneBlock
  <2>3. Sends(Append(said, m))
    BY <1>2 DEF SayPlain
  <2> HIDE DEF m
  <2> QED
    BY <2>2, <2>3, MessageSaid, SendsKeeps
<1>3. ASSUME NEW n \in Lengths, NEW kind \in Kinds, NEW role \in {"user", "human", "assistant"}, SayBlock(role, kind, n)
      PROVE RequestIInv'
  <2> DEFINE m == [role |-> role, blocks |-> <<Block(kind, n)>>, plain |-> FALSE]
  <2>1. Block(kind, n) \in BlockShape /\ Block(kind, n).word = words + 1
    BY NewBlock
  <2>2. m \in MessageShape /\ Ascending(m.blocks) /\ UsedUpTo(m.blocks, words + 1)
    BY <2>1, OneBlock
  <2>3. Sends(Append(said, m))
    BY <1>3 DEF SayBlock
  <2> HIDE DEF m
  <2> QED
    BY <2>2, <2>3, MessageSaid, SendsKeeps
<1>4. ASSUME NEW n \in Lengths, NEW kind \in Kinds, AddBlock(kind, n) PROVE RequestIInv'
  <2> DEFINE messages == [said EXCEPT ![Len(said)].blocks = Append(@, Block(kind, n))]
  <2>1. said # <<>> /\ Sends(messages)
    BY <1>4 DEF AddBlock
  <2>2. SaysAll(messages, words + 1)
    BY <2>1, BlockSaid
  <2> HIDE DEF messages
  <2> QED
    BY <2>1, <2>2, SendsKeeps
<1>5. CASE RequestNext
  <2>1. PICK n \in Lengths :
          \/ \E role \in {"user", "human", "assistant"} : SayPlain(role, n)
          \/ \E kind \in Kinds : \/ AddBlock(kind, n)
                                 \/ SayBlock(IF kind = "tool_use" THEN "assistant" ELSE "user", kind, n)
    BY <1>5 DEF RequestNext
  <2>2. CASE \E role \in {"user", "human", "assistant"} : SayPlain(role, n)
    BY <1>2, <2>2
  <2>3. CASE \E kind \in Kinds : AddBlock(kind, n)
    BY <1>4, <2>3
  <2>4. CASE \E kind \in Kinds : SayBlock(IF kind = "tool_use" THEN "assistant" ELSE "user", kind, n)
    <3>1. PICK kind \in Kinds : SayBlock(IF kind = "tool_use" THEN "assistant" ELSE "user", kind, n)
      BY <2>4
    <3> DEFINE role == IF kind = "tool_use" THEN "assistant" ELSE "user"
    <3>2. role \in {"user", "human", "assistant"} /\ SayBlock(role, kind, n)
      BY <3>1
    <3> HIDE DEF role
    <3> QED
      BY <1>3, <3>2
  <2> QED
    BY <2>1, <2>2, <2>3, <2>4
<1> QED
  BY <1>1, <1>5

(* However long a conversation becomes and whatever it is made of: the local model is told
   every text, call and result in its message, in its order and under its role, and a
   conversation without tools goes to it exactly when it fits
   (server.py _anthropic_to_openai, _estimate_tokens). *)
THEOREM RequestsAreFaithful == RequestSpec => []RequestFaithful
<1>1. RequestInit => RequestIInv
  BY InitRequestIInv
<1>2. RequestIInv /\ [RequestNext]_requestVars => RequestIInv'
  BY RequestStepKeeps
<1>3. RequestIInv => RequestFaithful
  BY WordsAreKept, TalkIsFitting DEF RequestFaithful
<1> QED
  BY <1>1, <1>2, <1>3, PTL DEF RequestSpec

----------------------------------------------------------------------------
(* Compression *)

\* The messages, those that were cut included.
Words == [role : {"system", "user", "tool", "assistant"}, head : Heads \cup {"empty", "system"},
          rest : Rests \cup {"note"}, calls : Calls \cup {None}]

\* What is picked up to each place of a sequence.
LEMMA PickingIs ==
  ASSUME NEW V, NEW s \in Seq(V), NEW here
  PROVE  /\ Picking(s, here) \in [0..Len(s) -> Seq(V)] /\ Picking(s, here)[0] = <<>>
         /\ \A i \in 1..Len(s) : Picking(s, here)[i] = IF i \in here THEN Append(Picking(s, here)[i - 1], s[i])
                                                       ELSE Picking(s, here)[i - 1]
<1> DEFINE n == Len(s)
           base == <<>>
           step == [i \in 1..n |-> [was \in Seq(V) |-> IF i \in here THEN Append(was, s[i]) ELSE was]]
           Eq(g) == g = [i \in 0..n |-> IF i = 0 THEN <<>> ELSE IF i \in here THEN Append(g[i - 1], s[i]) ELSE g[i - 1]]
           upto == CHOOSE g : Eq(g)
<1>1. n \in Nat /\ base \in Seq(V) /\ \A i \in 1..n : s[i] \in V
  BY LenProperties, ElementOfSeq, EmptySeq
<1>2. \A i \in 1..n : \A was \in Seq(V) : (IF i \in here THEN Append(was, s[i]) ELSE was) \in Seq(V)
  <2> HIDE DEF n
  <2> QED
    BY <1>1, AppendProperties
<1>3. step \in [1..n -> [Seq(V) -> Seq(V)]]
  <2> HIDE DEF n
  <2> QED
    BY <1>2
<1>4. PICK g \in [0..n -> Seq(V)] : g[0] = base /\ \A i \in 1..n : g[i] = step[i][g[i - 1]]
  <2>1. Recurs(Seq(V), n, base, step)
    <3> HIDE DEF n, base, step
    <3> QED
      BY <1>1, <1>3, RecursionUpTo
  <2> HIDE DEF step, n
  <2> QED
    BY <2>1 DEF Recurs
<1>5. Eq(g)
  <2>1. ASSUME NEW i \in 0..n PROVE g[i] = IF i = 0 THEN <<>> ELSE IF i \in here THEN Append(g[i - 1], s[i]) ELSE g[i - 1]
    <3>1. CASE i = 0
      BY <1>4, <3>1
    <3>2. CASE i # 0
      <4>1. i \in 1..n /\ g[i - 1] \in Seq(V)
        <5>1. i \in 1..n /\ i - 1 \in 0..n
          BY <1>1, <3>2
        <5> HIDE DEF n
        <5> QED
          BY <1>4, <5>1
      <4> HIDE DEF n
      <4> QED
        BY <1>4, <3>2, <4>1
    <3> QED
      BY <3>1, <3>2
  <2> QED
    BY <2>1
<1>6. Eq(upto)
  <2> HIDE DEF Eq
  <2> QED
    BY <1>5
<1>7. Picking(s, here) = upto
  BY DEF Picking
<1> HIDE DEF upto
<1>8. upto[0] = <<>> /\ \A i \in 1..n : upto[i] = IF i \in here THEN Append(upto[i - 1], s[i]) ELSE upto[i - 1]
  <2>1. \A i \in 0..n : upto[i] = IF i = 0 THEN <<>> ELSE IF i \in here THEN Append(upto[i - 1], s[i]) ELSE upto[i - 1]
    BY <1>6
  <2>2. 0 \in 0..n /\ \A i \in 1..n : i \in 0..n /\ i # 0
    BY <1>1
  <2> HIDE DEF n
  <2> QED
    BY <2>1, <2>2
<1>9. \A i \in 0..n : upto[i] \in Seq(V)
  <2> DEFINE S == {i \in 0..n : upto[i] \in Seq(V)}
  <2>1. 0 \in S
    <3>1. 0 \in 0..n /\ upto[0] \in Seq(V)
      <4> HIDE DEF n
      <4> QED
        BY <1>1, <1>8
    <3> QED
      BY <3>1
  <2>2. ASSUME NEW i \in 0 + 1..n, i - 1 \in S PROVE i \in S
    <3>1. i \in 1..n /\ i \in 0..n /\ upto[i - 1] \in Seq(V)
      BY <1>1, <2>2
    <3>2. upto[i] \in Seq(V)
      <4> HIDE DEF n
      <4> QED
        BY <1>2, <1>8, <3>1
    <3> QED
      BY <3>1, <3>2
  <2> HIDE DEF S, n
  <2>3. \A i \in 0..n : i \in S
    BY <1>1, <2>1, <2>2, UpTo
  <2> QED
    BY <2>3 DEF S
<1>10. upto \in [0..n -> Seq(V)]
  <2>1. upto = [i \in 0..n |-> IF i = 0 THEN <<>> ELSE IF i \in here THEN Append(upto[i - 1], s[i]) ELSE upto[i - 1]]
    BY <1>6
  <2> HIDE DEF n
  <2> QED
    BY <1>9, <2>1
<1> QED
  BY <1>7, <1>8, <1>10

\* What is picked up to a place is what is picked of another sequence that is the
\* same so far.
LEMMA PickingAgrees ==
  ASSUME NEW V, NEW s \in Seq(V), NEW t \in Seq(V), NEW here, NEW there, NEW n \in 0..Len(s), n <= Len(t),
         \A i \in 1..n : s[i] = t[i] /\ (i \in here <=> i \in there)
  PROVE  Picking(s, here)[n] = Picking(t, there)[n]
<1> DEFINE S == {i \in 0..n : Picking(s, here)[i] = Picking(t, there)[i]}
<1>1. Len(s) \in Nat /\ Len(t) \in Nat /\ n \in Nat
  BY LenProperties
<1>2. /\ Picking(s, here)[0] = <<>>
      /\ \A i \in 1..Len(s) : Picking(s, here)[i] = IF i \in here THEN Append(Picking(s, here)[i - 1], s[i])
                                                       ELSE Picking(s, here)[i - 1]
  BY PickingIs
<1>3. /\ Picking(t, there)[0] = <<>>
      /\ \A i \in 1..Len(t) : Picking(t, there)[i] = IF i \in there THEN Append(Picking(t, there)[i - 1], t[i])
                                                       ELSE Picking(t, there)[i - 1]
  BY PickingIs
<1>4. 0 \in S
  BY <1>1, <1>2, <1>3
<1>5. ASSUME NEW i \in 0 + 1..n, i - 1 \in S PROVE i \in S
  <2>1. i \in 1..Len(s) /\ i \in 1..Len(t) /\ i \in 1..n /\ i \in 0..n
    BY <1>1
  <2>2. Picking(s, here)[i - 1] = Picking(t, there)[i - 1]
    BY <1>5
  <2> QED
    BY <1>2, <1>3, <2>1, <2>2
<1> HIDE DEF S
<1>6. \A i \in 0..n : i \in S
  BY <1>1, <1>4, <1>5, UpTo
<1> QED
  BY <1>1, <1>6 DEF S

\* What is picked up to a place begins with what was picked before it.
LEMMA PickingGrows ==
  ASSUME NEW V, NEW s \in Seq(V), NEW here, NEW a \in 0..Len(s), NEW b \in a..Len(s)
  PROVE  /\ Len(Picking(s, here)[a]) <= Len(Picking(s, here)[b])
         /\ \A k \in 1..Len(Picking(s, here)[a]) : Picking(s, here)[b][k] = Picking(s, here)[a][k]
<1> DEFINE P == Picking(s, here)
           S == {i \in a..b : Len(P[a]) <= Len(P[i]) /\ \A k \in 1..Len(P[a]) : P[i][k] = P[a][k]}
<1>1. Len(s) \in Nat /\ a \in Nat /\ b \in Nat
  BY LenProperties
<1>2. /\ P \in [0..Len(s) -> Seq(V)] 
      /\ \A i \in 1..Len(s) : P[i] = IF i \in here THEN Append(P[i - 1], s[i]) ELSE P[i - 1]
  BY PickingIs
<1> HIDE DEF P
<1>3. a \in S
  <2>1. Len(P[a]) \in Nat
    BY <1>1, <1>2, LenProperties
  <2> QED
    BY <1>1, <2>1
<1>4. ASSUME NEW i \in a + 1..b, i - 1 \in S PROVE i \in S
  <2>1. i \in 1..Len(s) /\ i \in a..b /\ i - 1 \in 0..Len(s)
    BY <1>1
  <2>2. P[i - 1] \in Seq(V) /\ s[i] \in V /\ P[a] \in Seq(V)
    BY <1>1, <1>2, <2>1, ElementOfSeq
  <2>3. Len(P[i - 1]) \in Nat /\ Len(P[a]) \in Nat
    BY <2>2, LenProperties
  <2>4. Len(P[i - 1]) <= Len(P[i]) /\ \A k \in 1..Len(P[i - 1]) : P[i][k] = P[i - 1][k]
    <3>1. CASE i \in here
      <4>1. P[i] = Append(P[i - 1], s[i])
        BY <1>2, <2>1, <3>1
      <4> QED
        BY <2>2, <2>3, <4>1, AppendProperties
    <3>2. CASE i \notin here
      BY <1>2, <2>1, <2>3, <3>2
    <3> QED
      BY <3>1, <3>2
  <2>5. Len(P[i]) \in Nat
    BY <1>2, <2>1, LenProperties
  <2>6. Len(P[a]) <= Len(P[i - 1]) /\ \A k \in 1..Len(P[a]) : P[i - 1][k] = P[a][k]
    BY <1>4
  <2>7. \A k \in 1..Len(P[a]) : k \in 1..Len(P[i - 1])
    BY <2>3, <2>6
  <2>8. Len(P[a]) <= Len(P[i])
    BY <2>3, <2>4, <2>5, <2>6
  <2> QED
    BY <2>1, <2>4, <2>6, <2>7, <2>8
<1> HIDE DEF S
<1>5. \A i \in a..b : i \in S
  BY <1>1, <1>3, <1>4, UpTo
<1> QED
  BY <1>1, <1>5 DEF S, P

\* A message that is picked is the last of what is picked up to it.
LEMMA Picked ==
  ASSUME NEW V, NEW s \in Seq(V), NEW here, NEW i \in 1..Len(s), NEW b \in i..Len(s), i \in here
  PROVE  /\ Len(Picking(s, here)[i]) = Len(Picking(s, here)[i - 1]) + 1
         /\ Len(Picking(s, here)[i]) \in 1..Len(Picking(s, here)[b])
         /\ Picking(s, here)[b][Len(Picking(s, here)[i])] = s[i]
<1> DEFINE P == Picking(s, here)
<1>1. Len(s) \in Nat /\ i - 1 \in 0..Len(s) /\ i \in 0..Len(s) /\ b \in 0..Len(s)
  BY LenProperties
<1>2. /\ P \in [0..Len(s) -> Seq(V)] 
      /\ P[i] = Append(P[i - 1], s[i])
  BY PickingIs
<1>3. Len(P[i]) <= Len(P[b]) /\ \A k \in 1..Len(P[i]) : P[b][k] = P[i][k]
  <2>1. i \in 0..Len(s) /\ b \in i..Len(s)
    BY <1>1
  <2>2. Len(P[i]) <= Len(P[b])
    BY <2>1, PickingGrows
  <2>3. ASSUME NEW k \in 1..Len(P[i]) PROVE P[b][k] = P[i][k]
    BY <2>1, PickingGrows
  <2> QED
    BY <2>2, <2>3
<1> HIDE DEF P
<1>4. P[i - 1] \in Seq(V) /\ s[i] \in V /\ Len(P[i - 1]) \in Nat /\ Len(P[b]) \in Nat
  BY <1>1, <1>2, ElementOfSeq, LenProperties
<1>5. Len(P[i]) = Len(P[i - 1]) + 1 /\ P[i][Len(P[i - 1]) + 1] = s[i]
  BY <1>2, <1>4, AppendProperties
<1>6. Len(P[i]) \in 1..Len(P[i]) /\ Len(P[i]) \in 1..Len(P[b])
  BY <1>3, <1>4, <1>5
<1> QED
  BY <1>3, <1>5, <1>6 DEF P

\* What is picked of one piece of a sequence is that piece.
LEMMA PickPiece ==
  ASSUME NEW V, NEW s \in Seq(V), NEW here, NEW a \in 0..Len(s), NEW b \in a..Len(s),
         \A i \in 1..Len(s) : i \in here <=> a < i /\ i <= b
  PROVE  Pick(s, here) = SubSeq(s, a + 1, b)
<1> DEFINE P == Picking(s, here)
           upto(n) == IF n < a THEN a ELSE IF n < b THEN n ELSE b
           S == {n \in 0..Len(s) : P[n] = SubSeq(s, a + 1, upto(n))}
<1>1. Len(s) \in Nat /\ a \in Nat /\ b \in Nat /\ a <= b /\ b <= Len(s)
  BY LenProperties
<1>2. /\ P[0] = <<>>
      /\ \A i \in 1..Len(s) : P[i] = IF i \in here THEN Append(P[i - 1], s[i]) ELSE P[i - 1]
  BY PickingIs
<1> HIDE DEF P
<1>3. 0 \in S
  <2>1. upto(0) = a
    BY <1>1
  <2>2. SubSeq(s, a + 1, a) = <<>>
    BY <1>1, SubSeqEmpty
  <2>3. P[0] = SubSeq(s, a + 1, upto(0)) /\ 0 \in 0..Len(s)
    <3>1. 0 \in 0..Len(s)
      BY <1>1
    <3> HIDE DEF upto
    <3>2. SubSeq(s, a + 1, upto(0)) = <<>>
      BY <2>1, <2>2
    <3> QED
      BY <1>2, <3>1, <3>2
  <2> QED
    BY <2>3
<1>4. ASSUME NEW i \in 0 + 1..Len(s), i - 1 \in S PROVE i \in S
  <2>1. i \in 1..Len(s) /\ i \in 0..Len(s) /\ i - 1 \in 0..Len(s)
    BY <1>1
  <2>2. P[i - 1] = SubSeq(s, a + 1, upto(i - 1))
    BY <1>4
  <2>3. CASE i \in here
    <3>1. upto(i - 1) = i - 1 /\ upto(i) = i /\ a < i
      BY <1>1, <2>1, <2>3
    <3>2. P[i] = Append(SubSeq(s, a + 1, i - 1), s[i])
      BY <1>2, <2>1, <2>2, <2>3, <3>1
    <3>3. Append(SubSeq(s, a + 1, i - 1), s[i]) = SubSeq(s, a + 1, i)
      <4> DEFINE u == SubSeq(s, a + 1, i - 1)
                 w == SubSeq(s, a + 1, i)
      <4>1. u \in Seq(V) /\ Len(u) = i - 1 - a /\ \A k \in 1..i - 1 - a : u[k] = s[a + k]
        <5>1. i - 1 \in a..Len(s)
          BY <1>1, <2>1, <3>1
        <5> QED
          BY <5>1, PieceAfter
      <4>2. w \in Seq(V) /\ Len(w) = i - a /\ \A k \in 1..i - a : w[k] = s[a + k]
        <5>1. i \in a..Len(s)
          BY <1>1, <2>1, <3>1
        <5> QED
          BY <5>1, PieceAfter
      <4> HIDE DEF u, w
      <4>3. s[i] \in V
        BY <2>1, ElementOfSeq
      <4>4. /\ Append(u, s[i]) \in Seq(V) /\ Len(Append(u, s[i])) = Len(u) + 1
            /\ \A k \in 1..Len(u) : Append(u, s[i])[k] = u[k]
            /\ Append(u, s[i])[Len(u) + 1] = s[i]
        BY <4>1, <4>3, AppendProperties
      <4>5. ASSUME NEW k \in 1..i - a PROVE Append(u, s[i])[k] = w[k]
        <5>1. CASE k = i - a
          BY <1>1, <2>1, <4>1, <4>2, <4>4, <5>1
        <5>2. CASE k # i - a
          <6>1. k \in 1..i - 1 - a
            BY <1>1, <2>1, <5>2
          <6> QED
            BY <4>1, <4>2, <4>4, <6>1
        <5> QED
          BY <5>1, <5>2
      <4>6. Len(Append(u, s[i])) = i - a
        BY <1>1, <2>1, <4>1, <4>4
      <4>7. Append(u, s[i]) = w
        BY <4>2, <4>4, <4>5, <4>6, SeqEqual
      <4> QED
        BY <4>7 DEF u, w
    <3> QED
      BY <2>1, <3>1, <3>2, <3>3
  <2>4. CASE i \notin here
    <3>1. upto(i - 1) = upto(i)
      BY <1>1, <2>1, <2>4
    <3> QED
      BY <1>2, <2>1, <2>2, <2>4, <3>1
  <2> QED
    BY <2>3, <2>4
<1>5. \A i \in 0..Len(s) : i \in S
  <2> HIDE DEF S
  <2> QED
    BY <1>1, <1>3, <1>4, UpTo
<1>6. upto(Len(s)) = b /\ Len(s) \in 0..Len(s)
  BY <1>1
<1> QED
  BY <1>5, <1>6 DEF Pick, P

\* What comes for the first time is the same in two sequences of which the other leaves
\* out things that came before.
LEMMA FirstsAgree ==
  ASSUME NEW B, NEW s \in Seq(B), NEW f \in Seq(B), NEW p \in [0..Len(s) -> 0..Len(f)],
         p[0] = 0, p[Len(s)] = Len(f),
         \A n \in 1..Len(s) : \/ p[n] = p[n - 1] + 1 /\ f[p[n]] = s[n]
                              \/ p[n] = p[n - 1] /\ \E j \in 1..n - 1 : s[j] = s[n]
  PROVE  Pick(s, Firsts(s)) = Pick(f, Firsts(f))
<1> DEFINE P == Picking(s, Firsts(s))
           Q == Picking(f, Firsts(f))
           S == {n \in 0..Len(s) : P[n] = Q[p[n]] /\ {s[j] : j \in 1..n} = {f[j] : j \in 1..p[n]}}
<1>1. Len(s) \in Nat /\ Len(f) \in Nat /\ DOMAIN s = 1..Len(s) /\ DOMAIN f = 1..Len(f)
  BY LenProperties
<1>2. /\ P[0] = <<>>
      /\ \A i \in 1..Len(s) : P[i] = IF i \in Firsts(s) THEN Append(P[i - 1], s[i]) ELSE P[i - 1]
  BY PickingIs
<1>3. /\ Q[0] = <<>>
      /\ \A i \in 1..Len(f) : Q[i] = IF i \in Firsts(f) THEN Append(Q[i - 1], f[i]) ELSE Q[i - 1]
  BY PickingIs
<1>4. Pick(s, Firsts(s)) = P[Len(s)] /\ Pick(f, Firsts(f)) = Q[Len(f)]
  BY DEF Pick
<1>5. /\ \A i \in 1..Len(s) : i \in Firsts(s) <=> s[i] \notin {s[j] : j \in 1..i - 1}
      /\ \A i \in 1..Len(f) : i \in Firsts(f) <=> f[i] \notin {f[j] : j \in 1..i - 1}
  BY <1>1 DEF Firsts
<1> HIDE DEF P, Q
<1>6. 0 \in S
  <2>1. {s[j] : j \in 1..0} = {} /\ {f[j] : j \in 1..0} = {} /\ 0 \in 0..Len(s)
    BY <1>1
  <2> QED
    BY <2>1, <1>2, <1>3
<1>7. ASSUME NEW n \in 0 + 1..Len(s), n - 1 \in S PROVE n \in S
  <2>1. n \in 1..Len(s) /\ n \in 0..Len(s) /\ n - 1 \in 0..Len(s) /\ p[n - 1] \in 0..Len(f) /\ p[n] \in 0..Len(f)
    <3>1. n \in 1..Len(s) /\ n \in 0..Len(s) /\ n - 1 \in 0..Len(s)
      BY <1>1
    <3>2. \A i \in 0..Len(s) : p[i] \in 0..Len(f)
      OBVIOUS
    <3> QED
      BY <3>1, <3>2
  <2>2. P[n - 1] = Q[p[n - 1]] /\ {s[j] : j \in 1..n - 1} = {f[j] : j \in 1..p[n - 1]}
    BY <1>7
  <2>3. {s[j] : j \in 1..n} = {s[j] : j \in 1..n - 1} \cup {s[n]}
    <3>1. \A j \in 1..n : j \in 1..n - 1 \/ j = n
      BY <2>1
    <3>2. n \in 1..n /\ \A j \in 1..n - 1 : j \in 1..n
      BY <2>1
    <3>3. {s[j] : j \in 1..n} \subseteq {s[j] : j \in 1..n - 1} \cup {s[n]}
      BY <3>1
    <3>4. {s[j] : j \in 1..n - 1} \subseteq {s[j] : j \in 1..n} /\ s[n] \in {s[j] : j \in 1..n}
      BY <3>2
    <3> QED
      BY <3>3, <3>4
  <2>4. CASE p[n] = p[n - 1] + 1 /\ f[p[n]] = s[n]
    <3>1. PICK q \in 1..Len(f) : q = p[n] /\ q - 1 = p[n - 1] /\ f[q] = s[n]
      BY <1>1, <2>1, <2>4
    <3>2. {f[j] : j \in 1..q} = {f[j] : j \in 1..q - 1} \cup {f[q]}
      <4>1. \A j \in 1..q : j \in 1..q - 1 \/ j = q
        BY <1>1
      <4>2. q \in 1..q /\ \A j \in 1..q - 1 : j \in 1..q
        BY <1>1
      <4> QED
        BY <4>1, <4>2
    <3>3. n \in Firsts(s) <=> q \in Firsts(f)
      BY <1>5, <2>1, <2>2, <3>1
    <3>4. P[n] = Q[q]
      BY <1>2, <1>3, <2>1, <2>2, <3>1, <3>3
    <3> QED
      BY <2>1, <2>2, <2>3, <3>1, <3>2, <3>4
  <2>5. CASE p[n] = p[n - 1] /\ \E j \in 1..n - 1 : s[j] = s[n]
    <3>1. s[n] \in {s[j] : j \in 1..n - 1}
      BY <2>5
    <3>2. P[n] = P[n - 1]
      BY <1>2, <1>5, <2>1, <3>1
    <3> QED
      BY <2>1, <2>2, <2>3, <2>5, <3>1, <3>2
  <2> QED
    BY <2>1, <2>4, <2>5
<1>8. \A n \in 0..Len(s) : n \in S
  <2> HIDE DEF S
  <2> QED
    BY <1>1, <1>6, <1>7, UpTo
<1>9. Len(s) \in S
  <2> HIDE DEF S
  <2>1. Len(s) \in 0..Len(s)
    BY <1>1
  <2> QED
    BY <1>8, <2>1
<1> QED
  BY <1>4, <1>9

LEMMA TidyIs ==
  ASSUME NEW s \in Seq(Words)
  PROVE  /\ Tidy(s) \in Seq(Words) /\ Len(Tidy(s)) = Len(s)
         /\ \A i \in 1..Len(s) : Tidy(s)[i].role = s[i].role /\ Beginning(Tidy(s)[i]) = Beginning(s[i])
<1>1. PICK n \in Nat : n = Len(s) /\ DOMAIN s = 1..n /\ \A i \in 1..n : s[i] \in Words
  BY LenProperties, ElementOfSeq
<1>2. \A m \in Words : Truncate(m) \in Words /\ Truncate(m).role = m.role /\ Truncate(m).head = m.head /\ IsLong(Truncate(m)) = IsLong(m)
  BY DEF Words, Truncate, IsLong
<1>3. Tidy(s) = [i \in 1..n |-> Truncate(s[i])]
  BY <1>1 DEF Tidy
<1>4. Tidy(s) \in [1..n -> Words] /\ \A i \in 1..n : Tidy(s)[i] = Truncate(s[i])
  BY <1>1, <1>2, <1>3
<1>5. Tidy(s) \in Seq(Words) /\ DOMAIN Tidy(s) = 1..n
  BY <1>4, SeqDef
<1>6. Len(Tidy(s)) = n
  BY <1>5, LenProperties
<1> QED
  BY <1>1, <1>2, <1>4, <1>5, <1>6 DEF Beginning

Leads == {Beginning(m) : m \in Words}

LEMMA BeginningsAre ==
  ASSUME NEW s \in Seq(Words)
  PROVE  /\ Beginnings(s) \in Seq(Leads) /\ Len(Beginnings(s)) = Len(s)
         /\ \A i \in 1..Len(s) : Beginnings(s)[i] = Beginning(s[i])
<1>1. PICK n \in Nat : n = Len(s) /\ DOMAIN s = 1..n /\ \A i \in 1..n : s[i] \in Words
  BY LenProperties, ElementOfSeq
<1>2. Beginnings(s) = [i \in 1..n |-> Beginning(s[i])]
  BY <1>1 DEF Beginnings
<1>3. Beginnings(s) \in [1..n -> Leads] /\ \A i \in 1..n : Beginnings(s)[i] = Beginning(s[i])
  BY <1>1, <1>2 DEF Leads
<1>4. Beginnings(s) \in Seq(Leads) /\ DOMAIN Beginnings(s) = 1..n
  BY <1>3, SeqDef
<1>5. Len(Beginnings(s)) = n
  BY <1>4, LenProperties
<1> QED
  BY <1>1, <1>3, <1>4, <1>5

LEMMA SameBeginnings ==
  ASSUME NEW s \in Seq(Words), NEW t \in Seq(Words), Len(s) = Len(t),
         \A i \in 1..Len(s) : Beginning(s[i]) = Beginning(t[i])
  PROVE  Beginnings(s) = Beginnings(t)
<1>1. Beginnings(s) \in Seq(Leads) /\ Beginnings(t) \in Seq(Leads) /\ Len(Beginnings(s)) = Len(Beginnings(t))
      /\ \A i \in 1..Len(Beginnings(s)) : Beginnings(s)[i] = Beginnings(t)[i]
  BY BeginningsAre
<1> QED
  BY <1>1, SeqEqual

\* The body and the tail.
LEMMA BodyAndTail ==
  ASSUME NEW V, NEW o \in Seq(V)
  PROVE  /\ TailSize(o) \in 0..Len(o) /\ Len(o) - TailSize(o) \in 0..Len(o)
         /\ Body(o) \in Seq(V) /\ Len(Body(o)) = Len(o) - TailSize(o)
         /\ \A i \in 1..Len(o) - TailSize(o) : Body(o)[i] = o[i]
         /\ Recent(o) \in Seq(V) /\ Len(Recent(o)) = TailSize(o)
         /\ \A i \in 1..TailSize(o) : Recent(o)[i] = o[Len(o) - TailSize(o) + i]
<1>1. PICK n \in Nat : n = Len(o)
  BY LenProperties
<1>2. PICK t \in 0..n : t = TailSize(o)
  BY <1>1, CompressionAssumption DEF TailSize
<1> DEFINE c == n - t
<1>3. /\ 1 \in 1..Len(o) + 1 /\ c \in 1 - 1..Len(o) /\ c - 1 + 1 = c /\ \A i \in 1..c : 1 + i - 1 = i
      /\ c + 1 \in 1..Len(o) + 1 /\ Len(o) \in (c + 1) - 1..Len(o) /\ Len(o) - (c + 1) + 1 = t
      /\ \A i \in 1..t : c + 1 + i - 1 = c + i
  BY <1>1
<1>4. Body(o) = SubSeq(o, 1, c) /\ Recent(o) = SubSeq(o, c + 1, Len(o))
  BY <1>1, <1>2 DEF Body, Recent
<1>5. c \in 0..n
  BY <1>1
<1> HIDE DEF c
<1>6. SubSeq(o, 1, c) \in Seq(V) /\ Len(SubSeq(o, 1, c)) = c /\ \A i \in 1..c : SubSeq(o, 1, c)[i] = o[i]
  BY <1>3, Piece
<1>7. SubSeq(o, c + 1, Len(o)) \in Seq(V) /\ Len(SubSeq(o, c + 1, Len(o))) = t
      /\ \A i \in 1..t : SubSeq(o, c + 1, Len(o))[i] = o[c + i]
  BY <1>3, Piece
<1> QED
  BY <1>1, <1>2, <1>4, <1>5, <1>6, <1>7 DEF c

\* Where each message is in what the others become, or that it was said before.
Threading(o, f, p) ==
    /\ p \in [0..Len(o) -> 0..Len(f)] /\ p[0] = 0 /\ p[Len(o)] = Len(f)
    /\ \A n \in 1..Len(o) :
          \/ p[n] = p[n - 1] + 1 /\ Beginning(f[p[n]]) = Beginning(o[n])
          \/ /\ p[n] = p[n - 1] /\ ~ContainsError(o[n])
             /\ \E j \in 1..n - 1 : Beginning(o[j]) = Beginning(o[n])

Staying(body) == {i \in DOMAIN body : ContainsError(body[i])}
                 \cup Firsts([i \in DOMAIN body |-> ContentHash(body[i])])

\* What the others become.
Thinned(o) == Tidy(Kept(Body(o))) \o Tidy(Recent(o))

LEMMA StayingIs ==
  ASSUME NEW body \in Seq(Words), NEW n \in 1..Len(body)
  PROVE  n \in Staying(body) <=> \/ ContainsError(body[n])
                                 \/ \A j \in 1..n - 1 : ContentHash(body[j]) # ContentHash(body[n])
<1> DEFINE h == [i \in DOMAIN body |-> ContentHash(body[i])]
<1>1. Len(body) \in Nat /\ DOMAIN body = 1..Len(body)
  BY LenProperties
<1>2. DOMAIN h = 1..Len(body) /\ \A i \in 1..Len(body) : h[i] = ContentHash(body[i])
  BY <1>1
<1>3. Staying(body) = {i \in 1..Len(body) : ContainsError(body[i])} \cup Firsts(h)
  BY <1>1 DEF Staying
<1> HIDE DEF h
<1>4. n \in Firsts(h) <=> \A j \in 1..n - 1 : h[j] # h[n]
  BY <1>2 DEF Firsts
<1>5. \A j \in 1..n - 1 : j \in 1..Len(body)
  BY <1>1
<1> QED
  BY <1>2, <1>3, <1>4, <1>5

LEMMA KeptIs ==
  ASSUME NEW V, NEW body \in Seq(V)
  PROVE  Kept(body) \in Seq(V) /\ Kept(body) = Picking(body, Staying(body))[Len(body)]
<1>1. Kept(body) = Picking(body, Staying(body))[Len(body)]
  BY DEF Kept, Pick, Staying
<1>2. Len(body) \in 0..Len(body)
  BY LenProperties
<1>3. Picking(body, Staying(body)) \in [0..Len(body) -> Seq(V)]
  BY PickingIs
<1> QED
  BY <1>1, <1>2, <1>3

LEMMA ThinnedIs ==
  ASSUME NEW o \in Seq(Words)
  PROVE  /\ Thinned(o) \in Seq(Words) /\ Len(Thinned(o)) = Len(Kept(Body(o))) + TailSize(o)
         /\ \A i \in 1..Len(Kept(Body(o))) : /\ Thinned(o)[i].role = Kept(Body(o))[i].role
                                              /\ Thinned(o)[i] = Tidy(Kept(Body(o)))[i]
                                              /\ Beginning(Thinned(o)[i]) = Beginning(Kept(Body(o))[i])
         /\ \A i \in 1..TailSize(o) : LET k == Len(Kept(Body(o))) + i
                                      IN  /\ k \in 1..Len(Thinned(o))
                                          /\ Thinned(o)[k].role = Recent(o)[i].role
                                          /\ Beginning(Thinned(o)[k]) = Beginning(Recent(o)[i])
<1> DEFINE K == Kept(Body(o))
           R == Recent(o)
<1>1. Body(o) \in Seq(Words) /\ R \in Seq(Words) /\ Len(R) = TailSize(o)
  BY BodyAndTail
<1>2. K \in Seq(Words)
  BY <1>1, KeptIs
<1> HIDE DEF K, R
<1>3. PICK k \in Nat, r \in Nat : k = Len(K) /\ r = Len(R)
  BY <1>1, <1>2, LenProperties
<1>4. /\ Tidy(K) \in Seq(Words) /\ Len(Tidy(K)) = k
      /\ \A i \in 1..k : Tidy(K)[i].role = K[i].role /\ Beginning(Tidy(K)[i]) = Beginning(K[i])
  BY <1>2, <1>3, TidyIs
<1>5. /\ Tidy(R) \in Seq(Words) /\ Len(Tidy(R)) = r
      /\ \A i \in 1..r : Tidy(R)[i].role = R[i].role /\ Beginning(Tidy(R)[i]) = Beginning(R[i])
  BY <1>1, <1>3, TidyIs
<1> DEFINE f == Tidy(K) \o Tidy(R)
<1>6. /\ f \in Seq(Words) /\ Len(f) = k + r
      /\ \A i \in 1..k + r : f[i] = IF i <= k THEN Tidy(K)[i] ELSE Tidy(R)[i - k]
  BY <1>4, <1>5, ConcatProperties
<1>7. f = Thinned(o)
  BY DEF Thinned, K, R
<1> HIDE DEF f
<1>8. \A i \in 1..k : f[i] = Tidy(K)[i]
  BY <1>6
<1>9. ASSUME NEW i \in 1..r PROVE k + i \in 1..Len(f) /\ f[k + i] = Tidy(R)[i]
  BY <1>6
<1> QED
  BY <1>1, <1>3, <1>4, <1>5, <1>6, <1>7, <1>8, <1>9 DEF K, R

LEMMA Threaded ==
  ASSUME NEW o \in Seq(Words)
  PROVE  \E p : Threading(o, Thinned(o), p)
<1>1. PICK b : b = Body(o)
  OBVIOUS
<1>2. PICK here : here = Staying(b)
  OBVIOUS
<1> DEFINE P == Picking(b, here)
           K == Kept(b)
           f == Thinned(o)
<1>3. PICK n \in Nat : n = Len(o)
  BY LenProperties
<1>4. PICK t \in 0..n : t = TailSize(o) /\ n = Len(o)
  BY <1>3, BodyAndTail
<1>5. PICK c \in 0..n : c = n - t
  BY <1>4
<1>6. /\ b \in Seq(Words) /\ Len(b) = c /\ \A i \in 1..c : b[i] = o[i]
      /\ \A i \in 1..t : Recent(o)[i] = o[c + i]
  BY <1>4, <1>5, <1>1, BodyAndTail
<1>7. P \in [0..c -> Seq(Words)] /\ P[0] = <<>>
      /\ \A i \in 1..c : P[i] = IF i \in here THEN Append(P[i - 1], b[i]) ELSE P[i - 1]
  <2>1. P \in [0..Len(b) -> Seq(Words)] /\ P[0] = <<>>
        /\ \A i \in 1..Len(b) : P[i] = IF i \in here THEN Append(P[i - 1], b[i]) ELSE P[i - 1]
    <3>1. b \in Seq(Words)
      BY <1>6
    <3> QED
      BY <3>1, PickingIs
  <2> QED
    BY <1>6, <2>1
<1>8. K \in Seq(Words) /\ K = P[c]
  BY <1>6, <1>2, KeptIs
<1>9. PICK k \in Nat : k = Len(K)
  BY <1>8, LenProperties
<1>10. /\ f \in Seq(Words) /\ Len(f) = k + t
       /\ \A i \in 1..k : Beginning(f[i]) = Beginning(K[i])
       /\ \A i \in 1..t : Beginning(f[k + i]) = Beginning(o[c + i])
  <2>1. K = Kept(Body(o)) /\ \A i \in 1..t : k + i \in 1..k + t
    BY <1>1, <1>9
  <2>2. /\ f \in Seq(Words) /\ Len(f) = Len(Kept(Body(o))) + TailSize(o)
        /\ \A i \in 1..Len(Kept(Body(o))) : Beginning(f[i]) = Beginning(Kept(Body(o))[i])
        /\ \A i \in 1..TailSize(o) : Beginning(f[Len(Kept(Body(o))) + i]) = Beginning(Recent(o)[i])
    BY ThinnedIs
  <2> HIDE DEF K, f
  <2> QED
    BY <1>4, <1>6, <1>9, <2>1, <2>2
<1>11. \A i \in 0..c : Len(P[i]) \in 0..k
  <2>1. ASSUME NEW i \in 0..c PROVE Len(P[i]) \in 0..k
    <3>1. i \in 0..Len(b) /\ c \in i..Len(b)
      BY <1>6
    <3>2. Len(P[i]) <= Len(P[c])
      BY <1>6, <3>1, PickingGrows
    <3>3. Len(P[i]) \in Nat
      BY <1>7, LenProperties
    <3> QED
      BY <1>8, <1>9, <3>2, <3>3
  <2> QED
    BY <2>1
<1>12. ASSUME NEW i \in 1..c, i \in here
      PROVE  Len(P[i]) = Len(P[i - 1]) + 1 /\ Len(P[i]) \in 1..k /\ K[Len(P[i])] = b[i]
  <2>1. i \in 1..Len(b) /\ c \in i..Len(b)
    BY <1>6
  <2>2. b \in Seq(Words) /\ i \in here
    BY <1>6, <1>12
  <2>3. Len(P[i]) = Len(P[i - 1]) + 1
    <3> HIDE DEF P
    <3>1. i - 1 \in 0..c
      OBVIOUS
    <3>2. P[i - 1] \in Seq(Words)
      BY <1>7, <3>1
    <3>3. P[i] = Append(P[i - 1], b[i])
      BY <1>7, <1>12
    <3>4. b[i] \in Words
      BY <2>1, <2>2, ElementOfSeq
    <3> QED
      BY <3>2, <3>3, <3>4, AppendProperties
  <2>4. Len(P[i]) \in 1..Len(P[c])
    BY <2>1, <2>2, Picked
  <2>5. P[c][Len(P[i])] = b[i]
    BY <2>1, <2>2, Picked
  <2> QED
    BY <1>8, <1>9, <2>3, <2>4, <2>5
<1> HIDE DEF P, K, f
<1> DEFINE p == [i \in 0..n |-> IF i <= c THEN Len(P[i]) ELSE k + i - c]
<1>13. /\ \A i \in 0..c : p[i] = Len(P[i])
       /\ \A i \in c..n : p[i] = k + i - c
  <2>1. \A i \in 0..c : p[i] = Len(P[i])
    BY <1>5
  <2>2. p[c] = k
    BY <1>5, <1>8, <1>9, <2>1
  <2>3. \A i \in c + 1..n : p[i] = k + i - c
    BY <1>5
  <2>4. \A i \in c..n : i = c \/ i \in c + 1..n
    BY <1>3, <1>5
  <2>5. k + c - c = k
    BY <1>3, <1>5, <1>9
  <2> HIDE DEF p
  <2> QED
    BY <2>1, <2>2, <2>3, <2>4, <2>5
<1>14. p \in [0..n -> 0..k + t]
  <2>1. ASSUME NEW i \in 0..n PROVE (IF i <= c THEN Len(P[i]) ELSE k + i - c) \in 0..k + t
    <3>1. CASE i <= c
      <4>1. Len(P[i]) \in 0..k
        BY <1>11, <3>1
      <4> QED
        BY <1>4, <3>1, <4>1
    <3>2. CASE ~(i <= c)
      <4>1. i - c \in 1..t
        BY <1>3, <1>4, <1>5, <3>2
      <4>2. k + i - c = k + (i - c) /\ \A d \in 1..t : k + d \in 0..k + t
        BY <1>3, <1>4, <1>5, <1>9
      <4> QED
        BY <3>2, <4>1, <4>2
    <3> QED
      BY <3>1, <3>2
  <2> QED
    BY <2>1
<1> HIDE DEF p
<1>15. p[0] = 0 /\ p[n] = k + t
  <2>1. p[0] = Len(P[0]) /\ p[n] = k + n - c
    BY <1>5, <1>13
  <2>2. Len(P[0]) = 0
    BY <1>7, EmptySeq
  <2> QED
    BY <1>4, <1>5, <2>1, <2>2
<1>16. ASSUME NEW i \in 1..n
       PROVE  \/ p[i] = p[i - 1] + 1 /\ Beginning(f[p[i]]) = Beginning(o[i])
              \/ /\ p[i] = p[i - 1] /\ ~ContainsError(o[i])
                 /\ \E j \in 1..i - 1 : Beginning(o[j]) = Beginning(o[i])
  <2>1. CASE i > c
    <3>1. i - 1 \in c..n /\ i \in c..n /\ i - c \in 1..t
      BY <1>3, <1>4, <1>5, <2>1
    <3>2. k + i - c = k + (i - c) /\ c + (i - c) = i /\ k + i - c = (k + (i - 1) - c) + 1
      BY <1>3, <1>5, <1>9, <2>1
    <3>3. p[i] = p[i - 1] + 1 /\ p[i] = k + (i - c)
      BY <1>13, <3>1, <3>2
    <3> QED
      BY <1>10, <3>1, <3>2, <3>3
  <2>2. CASE ~(i > c) /\ i \in here
    <3>1. i \in 1..c /\ i \in 0..c /\ i - 1 \in 0..c
      BY <1>5, <2>2
    <3>2. p[i] = Len(P[i]) /\ p[i - 1] = Len(P[i - 1])
      BY <1>13, <3>1
    <3>3. Len(P[i]) = Len(P[i - 1]) + 1 /\ Len(P[i]) \in 1..k /\ K[Len(P[i])] = b[i]
      BY <1>12, <2>2, <3>1
    <3>4. Beginning(f[Len(P[i])]) = Beginning(K[Len(P[i])]) /\ b[i] = o[i]
      BY <1>6, <1>10, <3>1, <3>3
    <3> QED
      BY <3>2, <3>3, <3>4
  <2>3. CASE ~(i > c) /\ i \notin here
    <3>1. i \in 1..c /\ i \in 0..c /\ i - 1 \in 0..c /\ i \in 1..Len(b) /\ \A j \in 1..i - 1 : j \in 1..c
      BY <1>5, <1>6, <2>3
    <3>2. p[i] = Len(P[i]) /\ p[i - 1] = Len(P[i - 1]) /\ P[i] = P[i - 1]
      BY <1>7, <1>13, <2>3, <3>1
    <3>3. ~ContainsError(b[i]) /\ \E j \in 1..i - 1 : ContentHash(b[j]) = ContentHash(b[i])
      BY <1>6, <1>2, <2>3, <3>1, StayingIs
    <3>4. PICK j \in 1..i - 1 : ContentHash(b[j]) = ContentHash(b[i])
      BY <3>3
    <3>5. b[j] = o[j] /\ b[i] = o[i]
      BY <1>6, <3>1
    <3>6. Beginning(o[j]) = Beginning(o[i])
      BY <3>4, <3>5 DEF ContentHash, Beginning, IsLong
    <3> QED
      BY <3>2, <3>3, <3>5, <3>6
  <2> QED
    BY <2>1, <2>2, <2>3
<1>17. Threading(o, f, p)
  BY <1>4, <1>10, <1>14, <1>15, <1>16 DEF Threading
<1> QED
  BY <1>17 DEF f

\* A conversation that begins with k messages of the system.
Prompted(msgs, k) ==
    /\ msgs \in Seq(Words) /\ k \in 0..Len(msgs)
    /\ \A i \in 1..Len(msgs) : msgs[i].role = "system" <=> i <= k

Others == {m \in Words : m.role # "system"}

LEMMA PartsAre ==
  ASSUME NEW msgs, NEW k, Prompted(msgs, k)
  PROVE  /\ System(msgs) = SubSeq(msgs, 1, k) /\ System(msgs) \in Seq(Words) /\ Len(System(msgs)) = k
         /\ \A i \in 1..k : System(msgs)[i] = msgs[i]
         /\ NonSystem(msgs) \in Seq(Others) /\ NonSystem(msgs) \in Seq(Words) /\ Len(NonSystem(msgs)) = Len(msgs) - k
         /\ \A i \in 1..Len(msgs) - k : NonSystem(msgs)[i] = msgs[k + i]
<1>1. PICK n \in Nat : n = Len(msgs)
  BY LenProperties DEF Prompted
<1>2. msgs \in Seq(Words) /\ k \in 0..n /\ DOMAIN msgs = 1..n
      /\ \A i \in 1..n : msgs[i].role = "system" <=> i <= k
  BY <1>1, LenProperties DEF Prompted
<1> DEFINE sys == {i \in DOMAIN msgs : msgs[i].role = "system"}
           others == {i \in DOMAIN msgs : msgs[i].role # "system"}
<1>3. \A i \in 1..n : /\ i \in sys <=> 0 < i /\ i <= k
                      /\ i \in others <=> k < i /\ i <= n
  BY <1>1, <1>2
<1>4. System(msgs) = Pick(msgs, sys) /\ NonSystem(msgs) = Pick(msgs, others)
  BY DEF System, NonSystem
<1> HIDE DEF sys, others
<1>5. Pick(msgs, sys) = SubSeq(msgs, 1, k)
  <2>1. 0 \in 0..Len(msgs) /\ k \in 0..Len(msgs) /\ 0 + 1 = 1
    BY <1>1, <1>2
  <2>2. Pick(msgs, sys) = SubSeq(msgs, 0 + 1, k)
    BY <1>1, <1>2, <1>3, <2>1, PickPiece
  <2> QED
    BY <2>1, <2>2
<1>6. Pick(msgs, others) = SubSeq(msgs, k + 1, n)
  <2>1. k \in 0..Len(msgs) /\ n \in k..Len(msgs)
    BY <1>1, <1>2
  <2> QED
    BY <1>1, <1>2, <1>3, <2>1, PickPiece
<1>7. SubSeq(msgs, 1, k) \in Seq(Words) /\ Len(SubSeq(msgs, 1, k)) = k /\ \A i \in 1..k : SubSeq(msgs, 1, k)[i] = msgs[i]
  <2>1. 1 \in 1..Len(msgs) + 1 /\ k \in 1 - 1..Len(msgs) /\ k - 1 + 1 = k /\ \A i \in 1..k : 1 + i - 1 = i
    BY <1>1, <1>2
  <2> QED
    BY <1>2, <2>1, Piece
<1> DEFINE o == SubSeq(msgs, k + 1, n)
<1>8. o \in Seq(Words) /\ Len(o) = n - k /\ \A i \in 1..n - k : o[i] = msgs[k + i]
  <2>1. k + 1 \in 1..Len(msgs) + 1 /\ n \in (k + 1) - 1..Len(msgs) /\ n - (k + 1) + 1 = n - k
        /\ \A i \in 1..n - k : (k + 1) + i - 1 = k + i
    BY <1>1, <1>2
  <2> QED
    BY <1>2, <2>1, Piece
<1> HIDE DEF o
<1>9. o \in Seq(Others)
  <2>1. n - k \in Nat /\ \A i \in 1..n - k : k + i \in 1..n /\ ~(k + i <= k)
    BY <1>1, <1>2
  <2>2. ASSUME NEW i \in 1..n - k PROVE o[i] \in Others
    <3>1. o[i] = msgs[k + i] /\ o[i] \in Words
      BY <1>8, ElementOfSeq
    <3>2. msgs[k + i].role # "system"
      BY <1>2, <2>1
    <3> QED
      BY <3>1, <3>2 DEF Others
  <2>3. o \in [1..n - k -> Words]
    BY <1>8, LenProperties
  <2>4. o \in [1..n - k -> Others]
    BY <2>2, <2>3
  <2> QED
    BY <2>1, <2>4, SeqDef
<1> QED
  BY <1>1, <1>4, <1>5, <1>6, <1>7, <1>8, <1>9 DEF o

\* What is forwarded begins with the system's messages, and the others follow.
LEMMA CompressedIs ==
  ASSUME NEW msgs, NEW k, Prompted(msgs, k)
  PROVE  /\ Compress(msgs) = System(msgs) \o Thinned(NonSystem(msgs))
         /\ Prompted(Compress(msgs), k)
         /\ NonSystem(Compress(msgs)) = Thinned(NonSystem(msgs))
         /\ Len(Compress(msgs)) = k + Len(Thinned(NonSystem(msgs)))
         /\ \A i \in 1..k : Compress(msgs)[i] = msgs[i]
         /\ \A i \in 1..Len(Thinned(NonSystem(msgs))) :
               k + i \in 1..Len(Compress(msgs)) /\ Compress(msgs)[k + i] = Thinned(NonSystem(msgs))[i]
<1>1. PICK o : o = NonSystem(msgs)
  OBVIOUS
<1>2. PICK s : s = System(msgs)
  OBVIOUS
<1>3. /\ s \in Seq(Words) /\ Len(s) = k /\ o \in Seq(Others) /\ o \in Seq(Words)
      /\ \A i \in 1..k : s[i] = msgs[i]
  BY <1>1, <1>2, PartsAre
<1>4. k \in Nat /\ \A i \in 1..k : msgs[i].role = "system"
  <2>1. Len(msgs) \in Nat /\ k \in 0..Len(msgs) /\ \A i \in 1..Len(msgs) : msgs[i].role = "system" <=> i <= k
    BY LenProperties DEF Prompted
  <2>2. \A i \in 1..k : i \in 1..Len(msgs) /\ i <= k
    BY <2>1
  <2> QED
    BY <2>1, <2>2
<1>5. /\ Body(o) \in Seq(Others) /\ Body(o) \in Seq(Words) /\ Recent(o) \in Seq(Others) /\ Recent(o) \in Seq(Words)
      /\ Len(Recent(o)) = TailSize(o) /\ TailSize(o) \in 0..Len(o)
  BY <1>3, BodyAndTail
<1>6. Kept(Body(o)) \in Seq(Others) /\ Kept(Body(o)) \in Seq(Words)
  BY <1>5, KeptIs
<1>7. PICK f : f = Thinned(o)
  OBVIOUS
<1>8. PICK a \in Nat, t \in Nat : a = Len(Kept(Body(o))) /\ t = TailSize(o)
  BY <1>5, <1>6, LenProperties
<1>9. /\ f \in Seq(Words) /\ Len(f) = a + t
      /\ \A i \in 1..a : f[i].role = Kept(Body(o))[i].role
      /\ \A i \in 1..t : f[a + i].role = Recent(o)[i].role
  BY <1>3, <1>7, <1>8, ThinnedIs
<1>10. \A i \in 1..a + t : f[i].role # "system"
  <2>1. ASSUME NEW i \in 1..a PROVE f[i].role # "system"
    <3>1. Kept(Body(o))[i] \in Others
      BY <1>6, <1>8, ElementOfSeq
    <3> QED
      BY <1>9, <3>1 DEF Others
  <2>2. ASSUME NEW i \in 1..t PROVE f[a + i].role # "system"
    <3>1. Recent(o)[i] \in Others
      BY <1>5, <1>8, ElementOfSeq
    <3> QED
      BY <1>9, <3>1 DEF Others
  <2>3. ASSUME NEW i \in 1..a + t, i \notin 1..a PROVE f[i].role # "system"
    <3>1. i - a \in 1..t /\ a + (i - a) = i
      BY <2>3
    <3> QED
      BY <2>2, <3>1
  <2> QED
    BY <2>1, <2>3
<1>11. PICK z : z = s \o f
  OBVIOUS
<1>12. Compress(msgs) = z
  <2>1. PICK x : x = Tidy(Kept(Body(o)))
    OBVIOUS
  <2>2. PICK y : y = Tidy(Recent(o))
    OBVIOUS
  <2>3. x \in Seq(Words) /\ y \in Seq(Words)
    BY <1>5, <1>6, <2>1, <2>2, TidyIs
  <2>4. Compress(msgs) = (s \o x) \o y
    BY <1>1, <1>2, <2>1, <2>2 DEF Compress
  <2>5. (s \o x) \o y = s \o (x \o y)
    <3>1. s \in Seq(Words)
      BY <1>3
    <3> QED
      BY <2>3, <3>1, ConcatAssociative
  <2>6. f = x \o y
    BY <1>7, <2>1, <2>2 DEF Thinned
  <2> QED
    BY <1>11, <2>4, <2>5, <2>6
<1>13. z \in Seq(Words) /\ Len(z) = k + (a + t) /\ \A i \in 1..k + (a + t) : z[i] = IF i <= k THEN s[i] ELSE f[i - k]
  <2>1. /\ s \o f \in Seq(Words) /\ Len(s \o f) = Len(s) + Len(f)
        /\ \A i \in 1..Len(s) + Len(f) : (s \o f)[i] = IF i <= Len(s) THEN s[i] ELSE f[i - Len(s)]
    BY <1>3, <1>9, ConcatProperties
  <2> QED
    BY <1>3, <1>9, <1>11, <2>1
<1>14. \A i \in 1..k : i \in 1..k + (a + t) /\ z[i] = s[i]
  BY <1>4, <1>13
<1>15. \A i \in 1..a + t : k + i \in 1..k + (a + t) /\ z[k + i] = f[i]
  <2>1. \A i \in 1..a + t : k + i \in 1..k + (a + t) /\ ~(k + i <= k) /\ (k + i) - k = i
    BY <1>4
  <2> QED
    BY <1>13, <2>1
<1>16. Prompted(z, k)
  <2>1. ASSUME NEW i \in 1..k + (a + t) PROVE z[i].role = "system" <=> i <= k
    <3>1. CASE i <= k
      <4>1. i \in 1..k
        BY <1>4, <3>1
      <4> QED
        BY <1>3, <1>4, <1>14, <3>1, <4>1
    <3>2. CASE ~(i <= k)
      <4>1. i - k \in 1..a + t
        BY <1>4, <3>2
      <4>2. z[i] = f[i - k]
        BY <1>13, <3>2
      <4> QED
        BY <1>10, <3>2, <4>1, <4>2
    <3> QED
      BY <3>1, <3>2
  <2>2. k \in 0..k + (a + t)
    BY <1>4
  <2> QED
    BY <1>13, <2>1, <2>2 DEF Prompted
<1>17. NonSystem(z) = f
  <2>1. NonSystem(z) \in Seq(Words) /\ Len(NonSystem(z)) = Len(z) - k /\ \A i \in 1..Len(z) - k : NonSystem(z)[i] = z[k + i]
    BY <1>16, PartsAre
  <2>2. Len(z) - k = a + t
    BY <1>4, <1>13
  <2> QED
    BY <1>9, <1>15, <2>1, <2>2, SeqEqual
<1>18. Len(z) = k + Len(f) /\ \A i \in 1..k : z[i] = msgs[i]
  BY <1>3, <1>9, <1>13, <1>14
<1>19. \A i \in 1..Len(f) : k + i \in 1..Len(z) /\ z[k + i] = f[i]
  BY <1>9, <1>13, <1>15
<1>20. Compress(msgs) = z /\ System(msgs) = s /\ Thinned(NonSystem(msgs)) = f
  BY <1>1, <1>2, <1>7, <1>12
<1> QED
  BY <1>11, <1>16, <1>17, <1>18, <1>19, <1>20

\* The tail stays the tail.
LEMMA TailStays ==
  ASSUME NEW o \in Seq(Words)
  PROVE  /\ TailSize(Thinned(o)) = TailSize(o)
         /\ Beginnings(Recent(Thinned(o))) = Beginnings(Recent(o))
<1>1. PICK b : b = Body(o)
  OBVIOUS
<1>2. PICK n \in Nat : n = Len(o)
  BY LenProperties
<1>3. PICK t \in 0..n : t = TailSize(o)
  BY <1>2, BodyAndTail
<1>4. b \in Seq(Words) /\ Len(b) = n - t /\ Recent(o) \in Seq(Words) /\ Len(Recent(o)) = t
  BY <1>1, <1>2, <1>3, BodyAndTail
<1>5. Kept(b) \in Seq(Words) /\ Kept(b) = Picking(b, Staying(b))[Len(b)]
  BY <1>4, KeptIs
<1>6. PICK a \in Nat : a = Len(Kept(b))
  BY <1>5, LenProperties
<1>7. n - t = 0 => a = 0
  <2>1. Picking(b, Staying(b))[0] = <<>>
    BY <1>4, PickingIs
  <2> QED
    BY <1>4, <1>5, <1>6, <2>1, EmptySeq
<1>8. PICK f : f = Thinned(o)
  OBVIOUS
<1>9. /\ f \in Seq(Words) /\ Len(f) = a + t
      /\ \A i \in 1..t : Beginning(f[a + i]) = Beginning(Recent(o)[i])
  BY <1>1, <1>3, <1>6, <1>8, ThinnedIs
<1>10. KeepRecent \in Nat /\ t = IF KeepRecent < n THEN KeepRecent ELSE n
  BY <1>2, <1>3, CompressionAssumption DEF TailSize
<1>11. TailSize(f) = t
  <2>1. TailSize(f) = IF KeepRecent < a + t THEN KeepRecent ELSE a + t
    BY <1>9 DEF TailSize
  <2> QED
    BY <1>7, <1>10, <2>1
<1>12. PICK r : r = Recent(f)
  OBVIOUS
<1>13. r \in Seq(Words) /\ Len(r) = t /\ \A i \in 1..t : r[i] = f[a + i]
  <2>1. r \in Seq(Words) /\ Len(r) = t /\ \A i \in 1..t : r[i] = f[Len(f) - t + i]
    BY <1>9, <1>11, <1>12, BodyAndTail
  <2>2. Len(f) - t = a
    BY <1>9
  <2> QED
    BY <2>1, <2>2
<1>14. Beginnings(r) = Beginnings(Recent(o))
  <2>1. \A i \in 1..Len(r) : Beginning(r[i]) = Beginning(Recent(o)[i])
    BY <1>9, <1>13
  <2> QED
    BY <1>4, <1>13, <2>1, SameBeginnings
<1> QED
  BY <1>3, <1>8, <1>11, <1>12, <1>14

\* A sequence is the beginning of one that agrees with it as far as it goes.
LEMMA AgreesIsPrefix ==
  ASSUME NEW S, NEW a \in Seq(S), NEW b \in Seq(S), Len(a) <= Len(b), \A i \in 1..Len(a) : a[i] = b[i]
  PROVE  IsPrefix(a, b)
<1>1. PICK l \in Nat : l = Len(a)
  BY LenProperties
<1>2. Len(b) \in Nat
  BY LenProperties
<1>3. /\ 1 \in 1..Len(a) + 1 /\ l \in 1 - 1..Len(a) /\ 1 \in 1..Len(b) + 1 /\ l \in 1 - 1..Len(b)
      /\ l - 1 + 1 = l /\ \A k \in 1..l : 1 + k - 1 = k
  BY <1>1, <1>2
<1>4. SubSeq(a, 1, l) \in Seq(S) /\ Len(SubSeq(a, 1, l)) = l /\ \A k \in 1..l : SubSeq(a, 1, l)[k] = a[k]
  BY <1>3, Piece
<1>5. SubSeq(b, 1, l) \in Seq(S) /\ Len(SubSeq(b, 1, l)) = l /\ \A k \in 1..l : SubSeq(b, 1, l)[k] = b[k]
  BY <1>3, Piece
<1>6. SubSeq(a, 1, l) = SubSeq(b, 1, l)
  BY <1>1, <1>4, <1>5, SeqEqual
<1> QED
  BY <1>1, <1>6 DEF IsPrefix

\* Compressing loses nothing that was said.
LEMMA SaidIsKept ==
  ASSUME NEW msgs, NEW k, Prompted(msgs, k)
  PROVE  /\ SaidFirst(Compress(msgs)) = SaidFirst(msgs)
         /\ Beginnings(Recent(NonSystem(Compress(msgs)))) = Beginnings(Recent(NonSystem(msgs)))
<1>1. PICK o : o = NonSystem(msgs)
  OBVIOUS
<1>2. o \in Seq(Words)
  BY <1>1, PartsAre
<1>3. PICK f : f = Thinned(o)
  OBVIOUS
<1>4. NonSystem(Compress(msgs)) = f
  BY <1>1, <1>3, CompressedIs
<1>5. f \in Seq(Words)
  BY <1>2, <1>3, ThinnedIs
<1>6. PICK p : Threading(o, f, p)
  BY <1>2, <1>3, Threaded
<1>7. PICK s : s = Beginnings(o)
  OBVIOUS
<1>8. PICK g : g = Beginnings(f)
  OBVIOUS
<1>9. s \in Seq(Leads) /\ Len(s) = Len(o) /\ \A i \in 1..Len(o) : s[i] = Beginning(o[i])
  BY <1>2, <1>7, BeginningsAre
<1>10. g \in Seq(Leads) /\ Len(g) = Len(f) /\ \A i \in 1..Len(f) : g[i] = Beginning(f[i])
  BY <1>5, <1>8, BeginningsAre
<1>11. p \in [0..Len(s) -> 0..Len(g)] /\ p[0] = 0 /\ p[Len(s)] = Len(g)
  BY <1>6, <1>9, <1>10 DEF Threading
<1>12. ASSUME NEW n \in 1..Len(s)
       PROVE  \/ p[n] = p[n - 1] + 1 /\ g[p[n]] = s[n]
              \/ p[n] = p[n - 1] /\ \E j \in 1..n - 1 : s[j] = s[n]
  <2>1. Len(s) \in Nat /\ n \in 1..Len(o) /\ n \in 0..Len(s) /\ n - 1 \in 0..Len(s) /\ \A j \in 1..n - 1 : j \in 1..Len(o)
    BY <1>9, LenProperties
  <2>2. p[n] \in 0..Len(f) /\ p[n - 1] \in 0..Len(f) /\ Len(f) \in Nat
    BY <1>5, <1>10, <1>11, <2>1, LenProperties
  <2>3. CASE p[n] = p[n - 1] + 1 /\ Beginning(f[p[n]]) = Beginning(o[n])
    <3>1. p[n] \in 1..Len(f)
      BY <2>2, <2>3
    <3> QED
      BY <1>9, <1>10, <2>1, <2>3, <3>1
  <2>4. CASE p[n] = p[n - 1] /\ \E j \in 1..n - 1 : Beginning(o[j]) = Beginning(o[n])
    BY <1>9, <2>1, <2>4
  <2> QED
    BY <1>6, <2>1, <2>3, <2>4 DEF Threading
<1>13. Pick(s, Firsts(s)) = Pick(g, Firsts(g))
  BY <1>9, <1>10, <1>11, <1>12, FirstsAgree
<1>14. SaidFirst(msgs) = Pick(s, Firsts(s)) /\ SaidFirst(Compress(msgs)) = Pick(g, Firsts(g))
  BY <1>1, <1>4, <1>7, <1>8 DEF SaidFirst
<1>15. Beginnings(Recent(f)) = Beginnings(Recent(o))
  BY <1>2, <1>3, TailStays
<1> QED
  BY <1>1, <1>4, <1>13, <1>14, <1>15

\* The messages that are kept are in their order: later ones are later.
LEMMA ThreadRises ==
  ASSUME NEW o \in Seq(Words), NEW f \in Seq(Words), NEW p, Threading(o, f, p),
         NEW i \in 1..Len(o), NEW j \in 1..Len(o), i < j, ContainsError(o[j])
  PROVE  p[i] < p[j]
<1>1. Len(o) \in Nat /\ Len(f) \in Nat
  BY LenProperties
<1>2. /\ p \in [0..Len(o) -> 0..Len(f)]
      /\ \A n \in 1..Len(o) : p[n] = p[n - 1] + 1 \/ (p[n] = p[n - 1] /\ ~ContainsError(o[n]))
  BY DEF Threading
<1> DEFINE S == {n \in i..Len(o) : p[i] <= p[n]}
<1>3. i \in S
  <2>1. p[i] \in 0..Len(f) /\ i \in i..Len(o)
    BY <1>1, <1>2
  <2> QED
    BY <1>1, <2>1
<1>4. ASSUME NEW n \in i + 1..j - 1, n - 1 \in S PROVE n \in S
  <2>1. n \in 1..Len(o) /\ n \in 0..Len(o) /\ n - 1 \in 0..Len(o) /\ i \in 0..Len(o) /\ n \in i..Len(o)
    BY <1>1
  <2>2. p[n] \in 0..Len(f) /\ p[n - 1] \in 0..Len(f) /\ p[i] \in 0..Len(f) /\ p[i] <= p[n - 1]
    BY <1>2, <1>4, <2>1
  <2>3. p[n] = p[n - 1] + 1 \/ p[n] = p[n - 1]
    BY <1>2, <2>1
  <2>4. p[i] <= p[n]
    BY <1>1, <2>2, <2>3
  <2> QED
    BY <2>1, <2>4
<1>5. j - 1 \in S
  <2>1. i \in Nat /\ j - 1 \in Nat /\ j - 1 \in i..j - 1
    BY <1>1
  <2> HIDE DEF S
  <2>2. \A n \in i..j - 1 : n \in S
    BY <1>3, <1>4, <2>1, UpTo
  <2> QED
    BY <2>1, <2>2
<1>6. j \in 0..Len(o) /\ j - 1 \in 0..Len(o) /\ i \in 0..Len(o)
  BY <1>1
<1>7. p[j] = p[j - 1] + 1 /\ p[j - 1] \in 0..Len(f) /\ p[i] \in 0..Len(f) /\ p[i] <= p[j - 1]
  BY <1>2, <1>5, <1>6
<1> QED
  BY <1>1, <1>7

\* Compressing loses no error.
LEMMA ErrorsAreKept ==
  ASSUME NEW msgs, NEW k, Prompted(msgs, k), NEW b
  PROVE  Cardinality(Errors(msgs, b)) <= Cardinality(Begun(Compress(msgs), b))
<1>1. PICK o : o = NonSystem(msgs)
  OBVIOUS
<1>2. PICK z : z = Compress(msgs)
  OBVIOUS
<1>3. PICK f : f = Thinned(o)
  OBVIOUS
<1>4. PICK n \in Nat : n = Len(msgs)
  BY LenProperties DEF Prompted
<1>5. k \in 0..n /\ DOMAIN msgs = 1..n
  BY <1>4, LenProperties DEF Prompted
<1>6. o \in Seq(Words) /\ Len(o) = n - k /\ \A i \in 1..n - k : o[i] = msgs[k + i]
  <2>1. /\ NonSystem(msgs) \in Seq(Words) /\ Len(NonSystem(msgs)) = Len(msgs) - k
        /\ \A i \in 1..Len(msgs) - k : NonSystem(msgs)[i] = msgs[k + i]
    BY PartsAre
  <2> QED
    BY <1>1, <1>4, <2>1
<1>7. /\ z \in Seq(Words) /\ Len(z) = k + Len(f) /\ \A i \in 1..k : z[i] = msgs[i]
      /\ \A i \in 1..Len(f) : z[k + i] = f[i]
  <2>1. Thinned(NonSystem(msgs)) = f /\ Compress(msgs) = z
    BY <1>1, <1>2, <1>3
  <2>2. Prompted(z, k) /\ Len(z) = k + Len(f) /\ \A i \in 1..k : z[i] = msgs[i]
    BY <2>1, CompressedIs
  <2>3. ASSUME NEW i \in 1..Len(f) PROVE z[k + i] = f[i]
    BY <2>1, CompressedIs
  <2> QED
    BY <2>2, <2>3 DEF Prompted
<1>8. f \in Seq(Words) /\ Len(f) \in Nat /\ DOMAIN z = 1..k + Len(f)
  BY <1>3, <1>6, <1>7, ThinnedIs, LenProperties
<1>9. PICK p : Threading(o, f, p)
  BY <1>3, <1>6, Threaded
<1>10. /\ p \in [0..n - k -> 0..Len(f)]
       /\ \A i \in 1..n - k : \/ p[i] = p[i - 1] + 1 /\ Beginning(f[p[i]]) = Beginning(o[i])
                              \/ p[i] = p[i - 1] /\ ~ContainsError(o[i])
  BY <1>6, <1>9 DEF Threading
<1> DEFINE E == Errors(msgs, b)
           T == Begun(z, b)
           to(i) == IF i <= k THEN i ELSE k + p[i - k]
           F == [i \in E |-> to(i)]
<1>11. E = {i \in 1..n : ContainsError(msgs[i]) /\ Beginning(msgs[i]) = b}
  BY <1>5 DEF Errors
<1>12. T = {i \in 1..k + Len(f) : Beginning(z[i]) = b}
  BY <1>8 DEF Begun
<1>13. ASSUME NEW i \in E, ~(i <= k)
       PROVE  /\ i - k \in 1..n - k /\ o[i - k] = msgs[i] /\ ContainsError(o[i - k])
              /\ p[i - k] \in 1..Len(f) /\ Beginning(f[p[i - k]]) = Beginning(o[i - k])
  <2>1. i \in 1..n /\ ContainsError(msgs[i])
    BY <1>11
  <2>2. i - k \in 1..n - k /\ k + (i - k) = i /\ i - k \in 0..n - k /\ (i - k) - 1 \in 0..n - k
    BY <1>5, <1>13, <2>1
  <2>3. o[i - k] = msgs[i]
    BY <1>6, <2>2
  <2>4. p[i - k] = p[(i - k) - 1] + 1 /\ Beginning(f[p[i - k]]) = Beginning(o[i - k])
    BY <1>10, <2>1, <2>2, <2>3
  <2>5. p[(i - k) - 1] \in 0..Len(f) /\ p[i - k] \in 0..Len(f)
    BY <1>10, <2>2
  <2> QED
    BY <1>8, <2>1, <2>2, <2>3, <2>4, <2>5
<1> HIDE DEF E, T
<1>14. ASSUME NEW i \in E PROVE to(i) \in T
  <2>0. i \in 1..n /\ Beginning(msgs[i]) = b
    BY <1>11
  <2>1. CASE i <= k
    <3>1. i \in 1..k /\ i \in 1..k + Len(f)
      BY <1>5, <1>8, <2>0, <2>1
    <3> QED
      BY <1>7, <1>12, <2>0, <2>1, <3>1
  <2>2. CASE ~(i <= k)
    <3>1. /\ o[i - k] = msgs[i] /\ p[i - k] \in 1..Len(f) /\ Beginning(f[p[i - k]]) = Beginning(o[i - k])
      BY <1>13, <2>2
    <3>2. k + p[i - k] \in 1..k + Len(f) /\ z[k + p[i - k]] = f[p[i - k]]
      BY <1>5, <1>7, <1>8, <3>1
    <3> QED
      BY <1>12, <2>0, <2>2, <3>1, <3>2
  <2> QED
    BY <2>1, <2>2
<1>15. ASSUME NEW i \in E, NEW j \in E, i < j PROVE to(i) # to(j)
  <2>0. i \in 1..n /\ j \in 1..n
    BY <1>11
  <2>1. CASE j <= k
    BY <1>5, <1>15, <2>0, <2>1
  <2>2. CASE ~(j <= k) /\ i <= k
    <3>1. p[j - k] \in 1..Len(f)
      BY <1>13, <2>2
    <3> QED
      BY <1>5, <1>8, <2>0, <2>2, <3>1
  <2>3. CASE ~(j <= k) /\ ~(i <= k)
    <3>1. /\ i - k \in 1..n - k /\ p[i - k] \in 1..Len(f)
          /\ j - k \in 1..n - k /\ p[j - k] \in 1..Len(f) /\ ContainsError(o[j - k])
      BY <1>13, <2>3
    <3>2. i - k < j - k
      BY <1>5, <1>15, <2>0
    <3>3. p[i - k] < p[j - k]
      BY <1>6, <1>8, <1>9, <3>1, <3>2, ThreadRises
    <3> QED
      BY <1>5, <1>8, <2>3, <3>1, <3>3
  <2> QED
    BY <2>1, <2>2, <2>3
<1>16. \A i, j \in E : to(i) = to(j) => i = j
  <2>1. ASSUME NEW i \in E, NEW j \in E, i # j PROVE i < j \/ j < i
    BY <1>11, <2>1
  <2> HIDE DEF to
  <2> QED
    BY <1>15, <2>1
<1>17. F \in Injection(E, T)
  <2>1. F \in [E -> T] /\ \A i \in E : F[i] = to(i)
    <3> HIDE DEF to
    <3> QED
      BY <1>14
  <2> HIDE DEF F, to
  <2> QED
    BY <1>16, <2>1 DEF Injection, IsInjective
<1>18. IsFiniteSet(T)
  <2>1. k + Len(f) \in Nat
    BY <1>5, <1>8
  <2>2. IsFiniteSet(1..k + Len(f)) /\ T \subseteq 1..k + Len(f)
    BY <1>12, <2>1, FS_Interval
  <2> QED
    BY <2>2, FS_Subset
<1>19. Cardinality(E) <= Cardinality(T)
  <2> HIDE DEF F
  <2> QED
    BY <1>17, <1>18, FS_Injection
<1> QED
  BY <1>2, <1>19 DEF E, T

\* What is settled of what is forwarded: the system's messages and the body.
LEMMA SettledIs ==
  ASSUME NEW msgs, NEW k, Prompted(msgs, k)
  PROVE  SettledPart(Compress(msgs)) = System(msgs) \o Tidy(Kept(Body(NonSystem(msgs))))
<1>1. PICK o : o = NonSystem(msgs)
  OBVIOUS
<1>2. PICK s : s = System(msgs)
  OBVIOUS
<1>3. PICK z : z = Compress(msgs)
  OBVIOUS
<1>4. PICK c : c = Tidy(Kept(Body(o)))
  OBVIOUS
<1>5. PICK r : r = Tidy(Recent(o))
  OBVIOUS
<1>6. s \in Seq(Words) /\ o \in Seq(Words)
  BY <1>1, <1>2, PartsAre
<1>7. Body(o) \in Seq(Words) /\ Recent(o) \in Seq(Words) /\ Len(Recent(o)) = TailSize(o)
  BY <1>6, BodyAndTail
<1>8. c \in Seq(Words) /\ r \in Seq(Words) /\ Len(r) = TailSize(o)
  <2>1. Kept(Body(o)) \in Seq(Words)
    BY <1>7, KeptIs
  <2> QED
    BY <1>4, <1>5, <1>7, <2>1, TidyIs
<1>9. z = (s \o c) \o r
  BY <1>1, <1>2, <1>3, <1>4, <1>5 DEF Compress
<1>10. PICK u : u = s \o c
  OBVIOUS
<1>11. u \in Seq(Words)
  BY <1>6, <1>8, <1>10, ConcatProperties
<1>12. PICK l \in Nat, t \in Nat : l = Len(u) /\ t = Len(r)
  BY <1>8, <1>11, LenProperties
<1>13. z \in Seq(Words) /\ Len(z) = l + t /\ \A i \in 1..l : z[i] = u[i]
  <2>1. /\ u \o r \in Seq(Words) /\ Len(u \o r) = Len(u) + Len(r)
        /\ \A i \in 1..Len(u) + Len(r) : (u \o r)[i] = IF i <= Len(u) THEN u[i] ELSE r[i - Len(u)]
    BY <1>8, <1>11, ConcatProperties
  <2>2. \A i \in 1..l : i \in 1..l + t /\ i <= l
    BY <1>12
  <2> QED
    BY <1>9, <1>10, <1>12, <2>1, <2>2
<1>14. TailSize(NonSystem(z)) = t
  <2>1. NonSystem(z) = Thinned(o)
    BY <1>1, <1>3, CompressedIs
  <2> QED
    BY <1>6, <1>8, <1>12, <2>1, TailStays
<1>15. SettledPart(z) = SubSeq(z, 1, l)
  <2>1. Len(z) - t = l
    BY <1>12, <1>13
  <2> QED
    BY <1>14, <2>1 DEF SettledPart
<1>16. SubSeq(z, 1, l) \in Seq(Words) /\ Len(SubSeq(z, 1, l)) = l /\ \A i \in 1..l : SubSeq(z, 1, l)[i] = z[i]
  <2>1. 1 \in 1..Len(z) + 1 /\ l \in 1 - 1..Len(z) /\ l - 1 + 1 = l /\ \A i \in 1..l : 1 + i - 1 = i
    BY <1>12, <1>13
  <2> QED
    BY <1>13, <2>1, Piece
<1>17. SubSeq(z, 1, l) = u
  BY <1>11, <1>12, <1>13, <1>16, SeqEqual
<1> QED
  BY <1>1, <1>2, <1>3, <1>4, <1>10, <1>15, <1>17

OneLonger(v, o) == Len(v) = Len(o) + 1 /\ \A i \in 1..Len(o) : v[i] = o[i]

\* One message more leaves the others and the system's as they are.
LEMMA OneMoreSaid ==
  ASSUME NEW msgs, NEW k, Prompted(msgs, k), NEW m \in Others
  PROVE  /\ Prompted(Append(msgs, m), k)
         /\ System(Append(msgs, m)) = System(msgs)
         /\ OneLonger(NonSystem(Append(msgs, m)), NonSystem(msgs))
<1>1. PICK n \in Nat : n = Len(msgs)
  BY LenProperties DEF Prompted
<1>2. PICK w : w = Append(msgs, m)
  OBVIOUS
<1>3. msgs \in Seq(Words) /\ k \in 0..n /\ \A i \in 1..n : msgs[i].role = "system" <=> i <= k
  BY <1>1 DEF Prompted
<1>4. m \in Words /\ m.role # "system"
  BY DEF Others
<1>5. w \in Seq(Words) /\ Len(w) = n + 1 /\ w[n + 1] = m /\ \A i \in 1..n : w[i] = msgs[i]
  BY <1>1, <1>2, <1>3, <1>4, AppendProperties
<1>6. Prompted(w, k)
  <2>1. ASSUME NEW i \in 1..n + 1 PROVE w[i].role = "system" <=> i <= k
    <3>1. CASE i = n + 1
      BY <1>3, <1>4, <1>5, <3>1
    <3>2. CASE i # n + 1
      <4>1. i \in 1..n
        BY <3>2
      <4> QED
        BY <1>3, <1>5, <4>1
    <3> QED
      BY <3>1, <3>2
  <2>2. k \in 0..n + 1
    BY <1>3
  <2> QED
    BY <1>5, <2>1, <2>2 DEF Prompted
<1>7. /\ System(msgs) \in Seq(Words) /\ Len(System(msgs)) = k /\ \A i \in 1..k : System(msgs)[i] = msgs[i]
      /\ Len(NonSystem(msgs)) = n - k /\ \A i \in 1..n - k : NonSystem(msgs)[i] = msgs[k + i]
  BY <1>1, PartsAre
<1>8. /\ System(w) \in Seq(Words) /\ Len(System(w)) = k /\ \A i \in 1..k : System(w)[i] = w[i]
      /\ Len(NonSystem(w)) = (n + 1) - k /\ \A i \in 1..(n + 1) - k : NonSystem(w)[i] = w[k + i]
  <2>1. /\ System(w) \in Seq(Words) /\ Len(System(w)) = k /\ \A i \in 1..k : System(w)[i] = w[i]
        /\ Len(NonSystem(w)) = Len(w) - k /\ \A i \in 1..Len(w) - k : NonSystem(w)[i] = w[k + i]
    BY <1>6, PartsAre
  <2> QED
    BY <1>5, <2>1
<1>9. System(w) = System(msgs)
  <2>1. \A i \in 1..k : i \in 1..n
    BY <1>3
  <2>2. \A i \in 1..k : System(w)[i] = System(msgs)[i]
    BY <1>5, <1>7, <1>8, <2>1
  <2> QED
    BY <1>7, <1>8, <2>2, SeqEqual
<1>10. (n + 1) - k = (n - k) + 1 /\ \A i \in 1..n - k : i \in 1..(n + 1) - k /\ k + i \in 1..n
  BY <1>3
<1>11. \A i \in 1..n - k : NonSystem(w)[i] = NonSystem(msgs)[i]
  BY <1>5, <1>7, <1>8, <1>10
<1> QED
  BY <1>2, <1>6, <1>7, <1>8, <1>9, <1>10, <1>11 DEF OneLonger

\* Of a body that goes on what is kept begins with what was kept before.
Continues(d, b) == Len(b) <= Len(d) /\ \A i \in 1..Len(b) : d[i] = b[i]

LEMMA KeptContinues ==
  ASSUME NEW b \in Seq(Words), NEW d \in Seq(Words), Continues(d, b)
  PROVE  Continues(Kept(d), Kept(b))
<1>1. Len(b) \in Nat /\ Len(d) \in Nat /\ Len(b) \in 0..Len(b) /\ Len(b) \in 0..Len(d) /\ Len(d) \in Len(b)..Len(d)
      /\ Len(b) <= Len(d)
  BY LenProperties DEF Continues
<1>2. \A i \in 1..Len(b) : b[i] = d[i]
  BY DEF Continues
<1>3. ASSUME NEW i \in 1..Len(b) PROVE b[i] = d[i] /\ (i \in Staying(b) <=> i \in Staying(d))
  <2>1. i \in 1..Len(d) /\ \A j \in 1..i - 1 : j \in 1..Len(b)
    BY <1>1
  <2>2. i \in Staying(b) <=> \/ ContainsError(b[i])
                             \/ \A j \in 1..i - 1 : ContentHash(b[j]) # ContentHash(b[i])
    BY StayingIs
  <2>3. i \in Staying(d) <=> \/ ContainsError(d[i])
                             \/ \A j \in 1..i - 1 : ContentHash(d[j]) # ContentHash(d[i])
    BY <2>1, StayingIs
  <2>4. b[i] = d[i] /\ \A j \in 1..i - 1 : b[j] = d[j]
    BY <1>2, <2>1
  <2> QED
    BY <2>2, <2>3, <2>4
<1>4. Picking(b, Staying(b))[Len(b)] = Picking(d, Staying(d))[Len(b)]
  BY <1>1, <1>3, PickingAgrees
<1>5. /\ Len(Picking(d, Staying(d))[Len(b)]) <= Len(Picking(d, Staying(d))[Len(d)])
      /\ \A i \in 1..Len(Picking(d, Staying(d))[Len(b)]) :
            Picking(d, Staying(d))[Len(d)][i] = Picking(d, Staying(d))[Len(b)][i]
  <2>1. PICK here : here = Staying(d)
    OBVIOUS
  <2>2. PICK a : a = Len(b)
    OBVIOUS
  <2>3. PICK z : z = Len(d)
    OBVIOUS
  <2>4. a \in 0..Len(d) /\ z \in a..Len(d)
    BY <1>1, <2>2, <2>3
  <2>5. Len(Picking(d, here)[a]) <= Len(Picking(d, here)[z])
    BY <2>4, PickingGrows
  <2>6. ASSUME NEW i \in 1..Len(Picking(d, here)[a])
        PROVE  Picking(d, here)[z][i] = Picking(d, here)[a][i]
    BY <2>4, PickingGrows
  <2> QED
    BY <2>1, <2>2, <2>3, <2>5, <2>6
<1>6. Kept(b) = Picking(b, Staying(b))[Len(b)] /\ Kept(d) = Picking(d, Staying(d))[Len(d)]
  BY KeptIs
<1> QED
  BY <1>4, <1>5, <1>6 DEF Continues

\* Of a longer conversation the body goes on.
LEMMA BodyContinues ==
  ASSUME NEW o \in Seq(Words), NEW v \in Seq(Words), OneLonger(v, o)
  PROVE  Continues(Body(v), Body(o))
<1>1. PICK n \in Nat : n = Len(o)
  BY LenProperties
<1>2. Len(v) = n + 1 /\ \A i \in 1..n : v[i] = o[i]
  BY <1>1 DEF OneLonger
<1>3. PICK t \in 0..n : t = TailSize(o)
  BY <1>1, BodyAndTail
<1>4. PICK u \in 0..n + 1 : u = TailSize(v)
  BY <1>2, BodyAndTail
<1>5. KeepRecent \in Nat /\ t = (IF KeepRecent < n THEN KeepRecent ELSE n)
      /\ u = (IF KeepRecent < n + 1 THEN KeepRecent ELSE n + 1)
  BY <1>1, <1>2, <1>3, <1>4, CompressionAssumption DEF TailSize
<1>6. n - t <= (n + 1) - u
  <2> USE <1>1
  <2>1. CASE KeepRecent < n
    BY <1>5, <2>1
  <2>2. CASE ~(KeepRecent < n)
    BY <1>3, <1>4, <1>5, <2>2
  <2> QED
    BY <2>1, <2>2
<1>7. Len(Body(o)) = n - t /\ \A i \in 1..n - t : Body(o)[i] = o[i]
  BY <1>1, <1>3, BodyAndTail
<1>8. Len(Body(v)) = (n + 1) - u /\ \A i \in 1..(n + 1) - u : Body(v)[i] = v[i]
  BY <1>2, <1>4, BodyAndTail
<1>9. \A i \in 1..n - t : i \in 1..n /\ i \in 1..(n + 1) - u
  BY <1>1, <1>3, <1>4, <1>6
<1> QED
  BY <1>2, <1>6, <1>7, <1>8, <1>9 DEF Continues

\* One message more changes nothing of what is settled.
LEMMA SettledStays ==
  ASSUME NEW msgs, NEW k, Prompted(msgs, k), NEW m \in Others
  PROVE  IsPrefix(SettledPart(Compress(msgs)), SettledPart(Compress(Append(msgs, m))))
<1>1. PICK w : w = Append(msgs, m)
  OBVIOUS
<1>2. PICK o : o = NonSystem(msgs)
  OBVIOUS
<1>3. PICK v : v = NonSystem(w)
  OBVIOUS
<1>4. PICK s : s = System(msgs)
  OBVIOUS
<1>5. Prompted(w, k) /\ System(w) = s /\ OneLonger(v, o)
  BY <1>1, <1>2, <1>3, <1>4, OneMoreSaid
<1>6. o \in Seq(Words) /\ v \in Seq(Words) /\ s \in Seq(Words)
  BY <1>2, <1>3, <1>4, <1>5, PartsAre
<1>7. PICK x : x = Kept(Body(o))
  OBVIOUS
<1>8. PICK y : y = Kept(Body(v))
  OBVIOUS
<1>9. x \in Seq(Words) /\ y \in Seq(Words)
  <2>1. Body(o) \in Seq(Words) /\ Body(v) \in Seq(Words)
    BY <1>6, BodyAndTail
  <2> QED
    BY <1>7, <1>8, <2>1, KeptIs
<1>10. Len(x) <= Len(y) /\ \A i \in 1..Len(x) : y[i] = x[i]
  <2>1. Body(o) \in Seq(Words) /\ Body(v) \in Seq(Words)
    BY <1>6, BodyAndTail
  <2>2. Continues(y, x)
    BY <1>5, <1>6, <1>7, <1>8, <2>1, BodyContinues, KeptContinues
  <2> QED
    BY <2>2 DEF Continues
<1>11. SettledPart(Compress(msgs)) = s \o Tidy(x) /\ SettledPart(Compress(w)) = s \o Tidy(y)
  BY <1>2, <1>3, <1>4, <1>5, <1>7, <1>8, SettledIs
<1>12. PICK l \in Nat, a \in Nat, c \in Nat : l = Len(s) /\ a = Len(x) /\ c = Len(y)
  BY <1>6, <1>9, LenProperties
<1>13. /\ Tidy(x) \in Seq(Words) /\ Len(Tidy(x)) = a /\ Tidy(y) \in Seq(Words) /\ Len(Tidy(y)) = c
       /\ \A i \in 1..a : Tidy(x)[i] = Tidy(y)[i]
  <2>1. DOMAIN x = 1..a /\ DOMAIN y = 1..c /\ \A i \in 1..a : i \in 1..c /\ y[i] = x[i]
    BY <1>9, <1>10, <1>12, LenProperties
  <2>2. \A i \in 1..a : Tidy(x)[i] = Tidy(y)[i]
    BY <2>1 DEF Tidy
  <2> QED
    BY <1>9, <1>12, <2>2, TidyIs
<1>14. PICK p : p = s \o Tidy(x)
  OBVIOUS
<1>15. PICK q : q = s \o Tidy(y)
  OBVIOUS
<1>16. p \in Seq(Words) /\ Len(p) = l + a /\ \A i \in 1..l + a : p[i] = IF i <= l THEN s[i] ELSE Tidy(x)[i - l]
  <2>1. /\ s \o Tidy(x) \in Seq(Words) /\ Len(s \o Tidy(x)) = Len(s) + Len(Tidy(x))
        /\ \A i \in 1..Len(s) + Len(Tidy(x)) : (s \o Tidy(x))[i] = IF i <= Len(s) THEN s[i] ELSE Tidy(x)[i - Len(s)]
    BY <1>6, <1>13, ConcatProperties
  <2> QED
    BY <1>12, <1>13, <1>14, <2>1
<1>17. q \in Seq(Words) /\ Len(q) = l + c /\ \A i \in 1..l + c : q[i] = IF i <= l THEN s[i] ELSE Tidy(y)[i - l]
  <2>1. /\ s \o Tidy(y) \in Seq(Words) /\ Len(s \o Tidy(y)) = Len(s) + Len(Tidy(y))
        /\ \A i \in 1..Len(s) + Len(Tidy(y)) : (s \o Tidy(y))[i] = IF i <= Len(s) THEN s[i] ELSE Tidy(y)[i - Len(s)]
    BY <1>6, <1>13, ConcatProperties
  <2> QED
    BY <1>12, <1>13, <1>15, <2>1
<1>18. Len(p) <= Len(q) /\ \A i \in 1..Len(p) : p[i] = q[i]
  <2>1. a <= c /\ \A i \in 1..l + a : i \in 1..l + c /\ (i <= l \/ i - l \in 1..a)
    BY <1>10, <1>12
  <2>2. \A i \in 1..l + a : p[i] = q[i]
    BY <1>13, <1>16, <1>17, <2>1
  <2> QED
    BY <1>16, <1>17, <2>1, <2>2
<1>19. IsPrefix(p, q)
  BY <1>16, <1>17, <1>18, AgreesIsPrefix
<1> QED
  BY <1>1, <1>11, <1>14, <1>15, <1>19

----------------------------------------------------------------------------
\* The inductive invariant: the system spoke first if it did, and what was forwarded
\* is the transcript or what compressing makes of it.
CompressionIInv ==
    /\ \E k \in 0..1 : Prompted(transcript, k)
    /\ enabled \in BOOLEAN
    /\ forwarded \in {transcript, Compress(transcript)}

LEMMA InitCompressionIInv == CompressionInit => CompressionIInv
<1> SUFFICES ASSUME CompressionInit PROVE CompressionIInv
  OBVIOUS
<1>1. SystemPrompt \in Words /\ SystemPrompt.role = "system"
  BY DEF SystemPrompt, Words, Rests
<1>2. CASE transcript = <<>>
  <2>1. transcript \in Seq(Words) /\ Len(transcript) = 0
    BY <1>2, EmptySeq
  <2>2. 0 \in 0..Len(transcript) /\ \A i \in 1..Len(transcript) : FALSE
    BY <2>1
  <2>3. Prompted(transcript, 0)
    BY <2>1, <2>2 DEF Prompted
  <2> QED
    BY <2>3 DEF CompressionInit, CompressionIInv
<1>3. CASE transcript = <<SystemPrompt>>
  <2>1. transcript \in Seq(Words) /\ Len(transcript) = 1 /\ transcript[1] = SystemPrompt
    BY <1>1, <1>3
  <2>2. Prompted(transcript, 1)
    <3>1. \A i \in 1..Len(transcript) : i = 1
      BY <2>1
    <3>2. 1 \in 0..Len(transcript) /\ 1 <= 1
      BY <2>1
    <3> QED
      BY <1>1, <2>1, <3>1, <3>2 DEF Prompted
  <2> QED
    BY <2>2 DEF CompressionInit, CompressionIInv
<1> QED
  BY <1>2, <1>3 DEF CompressionInit

LEMMA CompressionStepKeeps == CompressionIInv /\ [CompressionNext]_compressionVars => CompressionIInv'
<1> SUFFICES ASSUME CompressionIInv, [CompressionNext]_compressionVars PROVE CompressionIInv'
  OBVIOUS
<1>1. ASSUME NEW m \in Turn, NextTurn(m) PROVE CompressionIInv'
  <2>1. m \in Others
    BY DEF Turn, Others, Words, Rests
  <2>2. PICK k \in 0..1 : Prompted(transcript, k)
    BY DEF CompressionIInv
  <2>3. Prompted(Append(transcript, m), k)
    BY <2>1, <2>2, OneMoreSaid
  <2>4. transcript' = Append(transcript, m) /\ enabled' = enabled /\ forwarded' \in {transcript', Compress(transcript')}
    BY <1>1 DEF NextTurn, MaybeCompress
  <2>5. (\E i \in 0..1 : Prompted(transcript, i))'
    BY <2>3, <2>4 DEF Prompted
  <2> QED
    BY <2>4, <2>5 DEF CompressionIInv
<1>2. CASE SetEnabled
  BY <1>2 DEF SetEnabled, CompressionIInv, Prompted, Compress, System, NonSystem
<1>3. CASE UNCHANGED compressionVars
  BY <1>3 DEF compressionVars, CompressionIInv, Prompted, Compress, System, NonSystem
<1> QED
  BY <1>1, <1>2, <1>3 DEF CompressionNext

LEMMA TranscriptKept == CompressionIInv => NothingSaidIsLost /\ ErrorsPreserved
<1> SUFFICES ASSUME CompressionIInv PROVE NothingSaidIsLost /\ ErrorsPreserved
  OBVIOUS
<1>1. PICK k \in 0..1 : Prompted(transcript, k)
  BY DEF CompressionIInv
<1>2. CASE forwarded = transcript
  <2>1. ASSUME NEW b PROVE Cardinality(Errors(transcript, b)) <= Cardinality(Begun(transcript, b))
    <3>1. PICK n \in Nat : DOMAIN transcript = 1..n
      BY <1>1, LenProperties DEF Prompted
    <3>2. IsFiniteSet(1..n) /\ Begun(transcript, b) \subseteq 1..n
      BY <3>1, FS_Interval DEF Begun
    <3>3. IsFiniteSet(Begun(transcript, b))
      BY <3>2, FS_Subset
    <3>4. Errors(transcript, b) \subseteq Begun(transcript, b)
      BY DEF Errors, Begun
    <3> QED
      BY <3>3, <3>4, FS_Subset
  <2> QED
    BY <1>2, <2>1 DEF NothingSaidIsLost, ErrorsPreserved
<1>3. CASE forwarded = Compress(transcript)
  <2>1. \A b : Cardinality(Errors(transcript, b)) <= Cardinality(Begun(Compress(transcript), b))
    BY <1>1, ErrorsAreKept
  <2>2. /\ SaidFirst(Compress(transcript)) = SaidFirst(transcript)
        /\ Beginnings(Recent(NonSystem(Compress(transcript)))) = Beginnings(Recent(NonSystem(transcript)))
    BY <1>1, SaidIsKept
  <2> QED
    BY <1>3, <2>1, <2>2 DEF NothingSaidIsLost, ErrorsPreserved
<1> QED
  BY <1>2, <1>3 DEF CompressionIInv

SettlingStep ==
    Compressed /\ Compressed' /\ forwarded = Compress(transcript) /\ NonSystem(transcript) # <<>>
    => IsPrefix(SettledPart(forwarded), SettledPart(forwarded'))

LEMMA StepSettles == CompressionIInv /\ [CompressionNext]_compressionVars => [SettlingStep]_compressionVars
<1> SUFFICES ASSUME CompressionIInv, CompressionNext, Compressed, Compressed', forwarded = Compress(transcript)
             PROVE  IsPrefix(SettledPart(forwarded), SettledPart(forwarded'))
  BY DEF SettlingStep
<1>1. ASSUME NEW m \in Turn, NextTurn(m) PROVE IsPrefix(SettledPart(forwarded), SettledPart(forwarded'))
  <2>1. m \in Others
    BY DEF Turn, Others, Words, Rests
  <2>2. PICK k \in 0..1 : Prompted(transcript, k)
    BY DEF CompressionIInv
  <2>3. transcript' = Append(transcript, m) /\ enabled'
        /\ forwarded' = MaybeCompress(transcript', enabled) /\ enabled' = enabled
    BY <1>1 DEF NextTurn, Compressed
  <2>4. EstimateTokens(transcript') >= MinTokens
    BY DEF Compressed
  <2>5. forwarded' = Compress(Append(transcript, m))
    BY <2>3, <2>4 DEF MaybeCompress
  <2>6. IsPrefix(SettledPart(Compress(transcript)), SettledPart(Compress(Append(transcript, m))))
    BY <2>1, <2>2, SettledStays
  <2> QED
    BY <2>5, <2>6
<1>2. CASE SetEnabled
  BY <1>2 DEF SetEnabled, Compressed
<1> QED
  BY <1>1, <1>2 DEF CompressionNext

\* For a conversation of any messages, however long, a protected tail of any size and any
\* threshold: everything that was said is still there in the words it began with, by the same
\* speaker and in its order, the tail is the tail, no message with an error is dropped, and
\* what was once compressed is compressed in the same way on every later turn.
THEOREM TranscriptsAreSafe == CompressionSpec => CompressionSafe
<1>1. CompressionSpec => []CompressionIInv
  <2>1. CompressionInit => CompressionIInv
    BY InitCompressionIInv
  <2>2. CompressionIInv /\ [CompressionNext]_compressionVars => CompressionIInv'
    BY CompressionStepKeeps
  <2> QED
    BY <2>1, <2>2, PTL DEF CompressionSpec
<1>2. CompressionIInv => NothingSaidIsLost /\ ErrorsPreserved
  BY TranscriptKept
<1>3. CompressionIInv /\ [CompressionNext]_compressionVars => [SettlingStep]_compressionVars
  BY StepSettles
<1>4. CompressionSpec => [][SettlingStep]_compressionVars
  BY <1>1, <1>3, PTL DEF CompressionSpec
<1>5. CompressionSpec => [](NothingSaidIsLost /\ ErrorsPreserved)
  BY <1>1, <1>2, PTL
<1> QED
  BY <1>4, <1>5 DEF CompressionSafe, BodySettles, SettlingStep
================================================================================
