----------------------------- MODULE PendingStore -----------------------------
(***************************************************************************)
(* router/pending_requests.py: PendingRequestStore, one JSON file for each *)
(* request under pending/ and failed/.  The store's lock keeps the threads *)
(* apart, so an operation runs alone; but each of its steps changes the    *)
(* disk, and the process may die after any of them.                        *)
(***************************************************************************)
EXTENDS Common

CONSTANTS
    Threads,   \* who calls the store
    Ids,       \* request ids
    Bodies,    \* payloads
    MaxAge,    \* max_age_seconds of sweep_stale()
    Stub       \* the failed record of a request that is not pending

ASSUME StoreAssumption ==
    MaxAge \in Nat /\ None \notin Threads \cup Bodies /\ Stub \notin Bodies \cup {None}

VARIABLES
    clock,
    pending,     \* pending/<id>.json: its payload, when it was written, whether it is whole
    pendingTmp,  \* pending/<id>.json.tmp
    failed,      \* failed/<id>.json
    failedTmp,   \* failed/<id>.json.tmp
    call,        \* what each thread is doing
    holder,      \* who holds _lock, or None
    owed         \* history: requests persisted and neither completed, failed nor swept

storeFiles == <<pending, pendingTmp, failed, failedTmp>>
storeVars == <<clock, storeFiles, call, holder, owed>>

\* A file is there or not; while it is being written, it is not whole.  Only
\* the times of pending storeFiles are looked at.
NoFile == [body |-> None, mtime |-> 0, whole |-> FALSE]
Torn == [NoFile EXCEPT !.body = Stub]
File(body, mtime) == [body |-> body, mtime |-> mtime, whole |-> TRUE]
Exists(f) == f.body # None

Idle == [op |-> "none", id |-> None, body |-> None, at |-> "idle", asked |-> 0, left |-> {}]

StoreInit ==
    /\ clock = 0
    /\ pending = [i \in Ids |-> NoFile] /\ pendingTmp = [i \in Ids |-> NoFile]
    /\ failed = [i \in Ids |-> NoFile] /\ failedTmp = [i \in Ids |-> NoFile]
    /\ call = [t \in Threads |-> Idle]
    /\ holder = None
    /\ owed = {}

----------------------------------------------------------------------------
(* Entering and leaving *)

\* A thread calls an operation and finds the lock free.
Enters(t) == call[t] = Idle /\ holder = None
\* t is in `op`, at the step `at`.
In(t, op, at) == call[t].op = op /\ call[t].at = at

Enter(t, op, i, body, at) ==
    /\ call' = [call EXCEPT ![t] = [Idle EXCEPT !.op = op, !.id = i, !.body = body, !.at = at]]
    /\ holder' = t
Move(t, at) == call' = [call EXCEPT ![t].at = at] /\ UNCHANGED holder
Returns(t) == call' = [call EXCEPT ![t] = Idle] /\ holder' = None

----------------------------------------------------------------------------
(* persist(): tmp.write_text() creates the file and fills it; os.replace() *)

\* Mutant: the record is written in place.
PersistCreateInPlace(t, i, body) ==
    /\ Enters(t) /\ Enter(t, "persist", i, body, "fill")
    /\ pending' = [pending EXCEPT ![i] = Torn]
    /\ UNCHANGED <<clock, pendingTmp, failed, failedTmp, owed>>

PersistCreate(t, i, body) ==
    /\ Enters(t) /\ Enter(t, "persist", i, body, "fill")
    /\ pendingTmp' = [pendingTmp EXCEPT ![i] = Torn]
    /\ UNCHANGED <<clock, pending, failed, failedTmp, owed>>

PersistFill(t) ==
    /\ In(t, "persist", "fill") /\ Move(t, "replace")
    /\ pendingTmp' = [pendingTmp EXCEPT ![call[t].id] = File(call[t].body, clock)]
    /\ UNCHANGED <<clock, pending, failed, failedTmp, owed>>

PersistReplace(t) ==
    /\ In(t, "persist", "replace") /\ Returns(t)
    /\ pending' = [pending EXCEPT ![call[t].id] = pendingTmp[call[t].id]]
    /\ pendingTmp' = [pendingTmp EXCEPT ![call[t].id] = NoFile]
    /\ owed' = owed \cup {call[t].id}
    /\ UNCHANGED <<clock, failed, failedTmp>>

(* complete(): one unlink, and nothing to do when the file is gone already *)

Complete(t, i) ==
    /\ Enters(t)
    /\ pending' = [pending EXCEPT ![i] = NoFile]
    /\ owed' = owed \ {i}
    /\ UNCHANGED <<clock, pendingTmp, failed, failedTmp, call, holder>>

(* fail(): read the pending record or start a stub, write it with the error, *)
(* publish it, and only then remove the pending file.                        *)

\* Mutant: the failed record is always a stub.
FailCreateStub(t, i) ==
    /\ Enters(t) /\ Enter(t, "fail", i, Stub, "fill")
    /\ failedTmp' = [failedTmp EXCEPT ![i] = Torn]
    /\ UNCHANGED <<clock, pending, pendingTmp, failed, owed>>

FailCreate(t, i) ==
    /\ Enters(t)
    /\ Enter(t, "fail", i, IF Exists(pending[i]) THEN pending[i].body ELSE Stub, "fill")
    /\ failedTmp' = [failedTmp EXCEPT ![i] = Torn]
    /\ UNCHANGED <<clock, pending, pendingTmp, failed, owed>>

FailFill(t) ==
    /\ In(t, "fail", "fill") /\ Move(t, "replace")
    /\ failedTmp' = [failedTmp EXCEPT ![call[t].id] = File(call[t].body, 0)]
    /\ UNCHANGED <<clock, pending, pendingTmp, failed, owed>>

FailReplace(t) ==
    /\ In(t, "fail", "replace") /\ Move(t, "unlink")
    /\ failed' = [failed EXCEPT ![call[t].id] = failedTmp[call[t].id]]
    /\ failedTmp' = [failedTmp EXCEPT ![call[t].id] = NoFile]
    /\ UNCHANGED <<clock, pending, pendingTmp, owed>>

FailUnlink(t) ==
    /\ In(t, "fail", "unlink") /\ Returns(t)
    /\ pending' = [pending EXCEPT ![call[t].id] = NoFile]
    /\ owed' = owed \ {call[t].id}
    /\ UNCHANGED <<clock, pendingTmp, failed, failedTmp>>

(* sweep_stale(): only .json storeFiles, by the age they had when it was called *)

Stale(i, asked) == Exists(pending[i]) /\ asked - pending[i].mtime > MaxAge

SweepAsk(t) ==
    /\ call[t] = Idle
    /\ call' = [call EXCEPT ![t].op = "sweep", ![t].at = "lock", ![t].asked = clock]
    /\ UNCHANGED <<clock, storeFiles, holder, owed>>

SweepList(t) ==
    /\ In(t, "sweep", "lock") /\ holder = None
    /\ call' = [call EXCEPT ![t].at = "unlink", ![t].asked = 0,
                            ![t].left = {i \in Ids : Stale(i, call[t].asked)}]
    /\ holder' = t
    /\ UNCHANGED <<clock, storeFiles, owed>>

\* An accepted request may be given up on when it is too old, and only then.
SweepUnlink(t, i) ==
    /\ In(t, "sweep", "unlink") /\ i \in call[t].left
    /\ pending' = [pending EXCEPT ![i] = NoFile]
    /\ call' = [call EXCEPT ![t].left = @ \ {i}]
    /\ owed' = IF clock - pending[i].mtime > MaxAge THEN owed \ {i} ELSE owed
    /\ UNCHANGED <<clock, pendingTmp, failed, failedTmp, holder>>

SweepEnd(t) ==
    /\ In(t, "sweep", "unlink") /\ call[t].left = {} /\ Returns(t)
    /\ UNCHANGED <<clock, storeFiles, owed>>

----------------------------------------------------------------------------
(* The world *)

\* The process dies, and starts again on the same directories.
Crash ==
    /\ holder # None
    /\ call' = [t \in Threads |-> Idle]
    /\ holder' = None
    /\ UNCHANGED <<clock, storeFiles, owed>>

StoreTick ==
    /\ clock < MaxTime
    /\ clock' = clock + 1
    /\ UNCHANGED <<storeFiles, call, holder, owed>>

StoreStep(t) ==
    \/ \E i \in Ids : \/ \E body \in Bodies : PersistCreate(t, i, body)
                      \/ Complete(t, i) \/ FailCreate(t, i)
    \/ PersistFill(t) \/ PersistReplace(t)
    \/ FailFill(t) \/ FailReplace(t) \/ FailUnlink(t)
    \/ SweepAsk(t) \/ SweepList(t) \/ (\E i \in Ids : SweepUnlink(t, i)) \/ SweepEnd(t)

StoreNext == (\E t \in Threads : StoreStep(t)) \/ Crash \/ StoreTick

StoreSpec == StoreInit /\ [][StoreNext]_storeVars

----------------------------------------------------------------------------
(* Properties *)

Files == [body : Bodies \cup {Stub, None}, mtime : 0..MaxTime, whole : BOOLEAN]

\* Types, and: what is published under a .json name is whole, in whatever state
\* the process died (persist and fail write elsewhere and rename).
StoreTypeOK ==
    /\ clock \in 0..MaxTime
    /\ pending \in [Ids -> Files] /\ pendingTmp \in [Ids -> Files]
    /\ failed \in [Ids -> Files] /\ failedTmp \in [Ids -> Files]
    /\ holder \in Threads \cup {None} /\ owed \subseteq Ids
    /\ \A i \in Ids : /\ Exists(pending[i]) => pending[i].whole /\ pending[i].body \in Bodies
                      /\ Exists(failed[i]) => failed[i].whole

\* A request that was accepted, and was not completed, reported failed or too
\* old, is on disk with its payload: pending, or already on record as failed.
\* No crash, and no other call, loses it.
NothingLost ==
    \A i \in owed : pending[i].body \in Bodies \/ failed[i].body \in Bodies

\* Whatever is interrupted, a reader of the directories finds whole records only, and
\* among them every request that is still owed.
StoreKept == StoreTypeOK /\ NothingLost

\* While the pending file of a failed request is about to be removed, the
\* request does not wait any more.
Waiting == [i \in Ids |-> IF \E t \in Threads : In(t, "fail", "unlink") /\ call[t].id = i
                          THEN None ELSE pending[i].body]
OnRecord == [i \in Ids |-> failed[i].body]

Queue == INSTANCE RequestQueue
            WITH waiting <- Waiting, failed <- OnRecord, Absent <- None

\* The operations are atomic to an observer of the queue, and the one effect of
\* a crash on it is that a request whose failure is on record waits again.
ImplementsQueue == Queue!Spec
============================================================================
