---------------------------- MODULE Services_proofs ----------------------------
(***************************************************************************)
(* Proofs about what other processes and people are shown: the mirror file *)
(* of the in-flight registry, for any calls and any number of restarts;    *)
(* the two backend managers, for any callers, endpoints and deadlines; the *)
(* gortex daemon on /monitor, for any number of tabs that poll it; and the *)
(* types of all that is shared, for any number of writers.                 *)
(***************************************************************************)
EXTENDS MCStores, Ledger_proofs, FiniteSetTheorems, SequenceTheorems, TLAPS

----------------------------------------------------------------------------
(* ActiveRegistry *)

\* The one writer's flush: what it holds is the dict, its temporary file is no other than
\* the one it opened, and the mirror file is the last flush that was finished.
FlushUnderWay(w) ==
    /\ pc[w] \in {"open", "write", "replace"} => payload[w] = active
    /\ pc[w] = "write" => name["tmp"] # None /\ fd[w] = name["tmp"] /\ disk[name["tmp"]] = Empty
    /\ pc[w] = "replace" => name["tmp"] # None /\ disk[name["tmp"]] = Json(active)
    /\ pc[w] = "idle" => name["target"] # None /\ disk[name["target"]] = Json(active)

RegistryIInv ==
    /\ TypeOK
    /\ name["target"] # None => name["target"] # name["tmp"] /\ disk[name["target"]].form = "whole"
    /\ \A w \in Writers : FlushUnderWay(w)

LEMMA RegistryConstants ==
  /\ 1 \in Inodes /\ 2 \in Inodes /\ None \notin Inodes /\ Inodes \subseteq Nat
  /\ Empty \in Texts /\ \A lines \in SUBSET Calls : Json(lines) \in Texts /\ Json(lines).form = "whole"
<1>1. Cardinality(Writers) \in Nat
  BY RegistryAssumption, FS_CardinalityType
<1>2. 1 \in Inodes /\ 2 \in Inodes /\ None \notin Inodes /\ Inodes \subseteq Nat
  BY <1>1, RegistryAssumption DEF Inodes
<1>3. Empty \in Texts
  BY DEF Empty, Texts
<1>4. ASSUME NEW lines \in SUBSET Calls PROVE Json(lines) \in Texts /\ Json(lines).form = "whole"
  BY DEF Json, Texts
<1>5. QED
  BY <1>2, <1>3, <1>4

LEMMA InitRegistryIInv ==
  ASSUME NEW sole, Writers = {sole}, Init
  PROVE  RegistryIInv
<1>1. pc = [w \in Writers |-> "snapshot"]
  BY DEF Init, Booting
<1>2. TypeOK
  BY <1>1, RegistryConstants, RegistryAssumption DEF Init, TypeOK
<1>3. name["target"] = None
  BY DEF Init
<1>4. QED
  BY <1>1, <1>2, <1>3 DEF RegistryIInv, FlushUnderWay

\* What a writer's step leaves alone of the type.
LEMMA RegistryFacts ==
  ASSUME RegistryIInv, NEW w \in Writers
  PROVE  /\ pc \in [Writers -> {"idle", "snapshot", "open", "write", "replace"}]
         /\ payload \in [Writers -> SUBSET Calls] /\ fd \in [Writers -> Inodes \cup {None}]
         /\ name \in [{"target", "tmp"} -> Inodes \cup {None}] /\ disk \in [Inodes -> Texts]
         /\ active \in SUBSET Calls
         /\ pc[w] = "write" <=> fd[w] # None
         /\ FlushUnderWay(w)
  BY DEF RegistryIInv, TypeOK

\* The dict changes while no flush is under way, and one follows.
LEMMA DictKeeps ==
  ASSUME NEW sole, Writers = {sole}, RegistryIInv, NEW c \in Calls,
         Register(sole, c) \/ Drop(sole, c) \/ Abandon(c)
  PROVE  RegistryIInv'
<1>1. state' \in [Calls -> {"new", "running", "over"}] /\ active' \subseteq Calls
  BY DEF Register, Drop, Abandon, RegistryIInv, TypeOK
<1>2. CASE Abandon(c)
  BY <1>1, <1>2 DEF Abandon, files, RegistryIInv, TypeOK, FlushUnderWay
<1>3. CASE Register(sole, c) \/ Drop(sole, c)
  <2>1. pc[sole] = "idle" /\ pc' = [pc EXCEPT ![sole] = "snapshot"] /\ UNCHANGED <<payload, fd, files, restarts>>
    BY <1>3 DEF Register, Drop, GoTo
  <2>2. pc' \in [Writers -> {"idle", "snapshot", "open", "write", "replace"}] /\ pc'[sole] = "snapshot"
    BY <2>1, RegistryFacts
  <2>3. TypeOK'
    BY <1>1, <2>1, <2>2 DEF files, RegistryIInv, TypeOK
  <2>4. QED
    BY <2>1, <2>2, <2>3 DEF files, RegistryIInv, FlushUnderWay
<1>4. QED
  BY <1>2, <1>3

LEMMA SnapshotKeeps ==
  ASSUME NEW sole, Writers = {sole}, RegistryIInv, Snapshot(sole)
  PROVE  RegistryIInv'
<1>1. /\ payload' \in [Writers -> SUBSET Calls] /\ payload'[sole] = active
      /\ pc' \in [Writers -> {"idle", "snapshot", "open", "write", "replace"}] /\ pc'[sole] = "open"
  <2>1. active \in SUBSET Calls /\ payload \in [Writers -> SUBSET Calls]
    BY DEF RegistryIInv, TypeOK
  <2>2. payload' \in [Writers -> SUBSET Calls] /\ payload'[sole] = active
    BY <2>1 DEF Snapshot
  <2>3. pc' \in [Writers -> {"idle", "snapshot", "open", "write", "replace"}] /\ pc'[sole] = "open"
    BY RegistryFacts DEF Snapshot, GoTo
  <2>4. QED
    BY <2>2, <2>3
<1>2. TypeOK'
  BY <1>1 DEF Snapshot, files, RegistryIInv, TypeOK
<1>3. QED
  BY <1>1, <1>2 DEF Snapshot, files, RegistryIInv, FlushUnderWay

\* The temporary file, if there is one, or a new one; never the mirror file.
LEMMA OpenTmpKeeps ==
  ASSUME NEW sole, Writers = {sole}, RegistryIInv, OpenTmp(sole)
  PROVE  RegistryIInv'
<1> DEFINE file == IF name["tmp"] # None THEN name["tmp"] ELSE CHOOSE i \in Inodes : i \notin InUse
<1>1. pc[sole] = "open" /\ fd[sole] = None /\ payload[sole] = active
  BY RegistryFacts DEF OpenTmp, Truncate, FlushUnderWay
<1>2. file \in Inodes /\ file # name["target"] /\ file # None
  <2>1. CASE name["tmp"] # None
    BY <2>1, RegistryFacts, RegistryConstants DEF RegistryIInv
  <2>2. CASE name["tmp"] = None
    <3>1. InUse = {name["target"], None}
      BY <1>1, <2>2, RegistryFacts DEF InUse
    <3>2. \E i \in Inodes : i \notin InUse
      BY <3>1, RegistryConstants
    <3>3. QED
      BY <2>2, <3>1, <3>2, RegistryConstants
  <2>3. QED
    BY <2>1, <2>2
<1> HIDE DEF file
<1>3. /\ name' = [name EXCEPT !["tmp"] = file] /\ disk' = [disk EXCEPT ![file] = Empty]
      /\ fd' = [fd EXCEPT ![sole] = file] /\ pc' = [pc EXCEPT ![sole] = "write"]
      /\ UNCHANGED <<state, active, payload, restarts>>
  BY DEF OpenTmp, Truncate, GoTo, file
<1>4. /\ name' \in [{"target", "tmp"} -> Inodes \cup {None}] /\ name'["tmp"] = file
      /\ name'["target"] = name["target"]
  BY <1>2, <1>3, RegistryFacts
<1>5. disk' \in [Inodes -> Texts] /\ disk'[file] = Empty /\ \A i \in Inodes \ {file} : disk'[i] = disk[i]
  BY <1>2, <1>3, RegistryFacts, RegistryConstants
<1>6. /\ fd' \in [Writers -> Inodes \cup {None}] /\ fd'[sole] = file
      /\ pc' \in [Writers -> {"idle", "snapshot", "open", "write", "replace"}] /\ pc'[sole] = "write"
  BY <1>2, <1>3, RegistryFacts
<1>7. TypeOK'
  BY <1>2, <1>3, <1>4, <1>5, <1>6 DEF RegistryIInv, TypeOK
<1>8. name'["target"] # None => name'["target"] # name'["tmp"] /\ disk'[name'["target"]].form = "whole"
  BY <1>2, <1>4, <1>5, RegistryFacts DEF RegistryIInv
<1>9. QED
  BY <1>1, <1>2, <1>3, <1>4, <1>5, <1>6, <1>7, <1>8 DEF RegistryIInv, FlushUnderWay

LEMMA WriteKeeps ==
  ASSUME NEW sole, Writers = {sole}, RegistryIInv, Write(sole)
  PROVE  RegistryIInv'
<1>1. /\ pc[sole] = "write" /\ payload[sole] = active /\ name["tmp"] # None /\ fd[sole] = name["tmp"]
      /\ disk[name["tmp"]] = Empty /\ name["tmp"] \in Inodes
  BY RegistryFacts DEF Write, FlushUnderWay
<1>2. /\ disk' = [disk EXCEPT ![name["tmp"]] = Json(active)]
      /\ fd' = [fd EXCEPT ![sole] = None] /\ pc' = [pc EXCEPT ![sole] = "replace"]
      /\ UNCHANGED <<state, active, payload, name, restarts>>
  BY <1>1, RegistryFacts DEF Write, GoTo
<1>3. /\ disk' \in [Inodes -> Texts] /\ disk'[name["tmp"]] = Json(active)
      /\ \A i \in Inodes \ {name["tmp"]} : disk'[i] = disk[i]
  BY <1>1, <1>2, RegistryFacts, RegistryConstants
<1>4. /\ fd' \in [Writers -> Inodes \cup {None}] /\ fd'[sole] = None
      /\ pc' \in [Writers -> {"idle", "snapshot", "open", "write", "replace"}] /\ pc'[sole] = "replace"
  BY <1>2, RegistryFacts
<1>5. TypeOK'
  BY <1>2, <1>3, <1>4 DEF RegistryIInv, TypeOK
<1>6. name["target"] # None => disk'[name["target"]].form = "whole"
  BY <1>1, <1>3, RegistryFacts DEF RegistryIInv
<1>7. QED
  BY <1>1, <1>2, <1>3, <1>4, <1>5, <1>6 DEF RegistryIInv, FlushUnderWay

LEMMA ReplaceKeeps ==
  ASSUME NEW sole, Writers = {sole}, RegistryIInv, Replace(sole)
  PROVE  RegistryIInv'
<1>1. /\ pc[sole] = "replace" /\ fd[sole] = None /\ name["tmp"] # None /\ name["tmp"] \in Inodes
      /\ disk[name["tmp"]] = Json(active)
  BY RegistryFacts DEF Replace, FlushUnderWay
<1>2. /\ name' = [target |-> name["tmp"], tmp |-> None] /\ pc' = [pc EXCEPT ![sole] = "idle"]
      /\ UNCHANGED <<state, active, payload, fd, disk, restarts>>
  BY <1>1 DEF Replace, GoTo
<1>3. /\ name' \in [{"target", "tmp"} -> Inodes \cup {None}] /\ name'["target"] = name["tmp"]
      /\ name'["tmp"] = None
  BY <1>1, <1>2
<1>4. pc' \in [Writers -> {"idle", "snapshot", "open", "write", "replace"}] /\ pc'[sole] = "idle"
  BY <1>2, RegistryFacts
<1>5. TypeOK'
  BY <1>1, <1>2, <1>3, <1>4 DEF RegistryIInv, TypeOK
<1>6. Json(active).form = "whole"
  BY DEF Json
<1>7. QED
  BY <1>1, <1>2, <1>3, <1>4, <1>5, <1>6 DEF RegistryIInv, FlushUnderWay

\* A new process finds the files as the last one left them, half written perhaps, and
\* flushes before anything else.
LEMMA RestartKeeps ==
  ASSUME NEW sole, Writers = {sole}, RegistryIInv, Restart
  PROVE  RegistryIInv'
<1>1. pc' = [w \in Writers |-> "snapshot"]
  BY DEF Restart
<1>2. /\ state' \in [Calls -> {"new", "running", "over"}] /\ active' = {}
      /\ payload' \in [Writers -> SUBSET Calls] /\ fd' = [w \in Writers |-> None]
      /\ restarts' \in 0..Restarts
  BY RegistryAssumption DEF Restart, RegistryIInv, TypeOK
<1>3. TypeOK'
  BY <1>1, <1>2 DEF Restart, files, RegistryIInv, TypeOK
<1>4. QED
  BY <1>1, <1>3 DEF Restart, files, RegistryIInv, FlushUnderWay

LEMMA RegistryStepKeeps ==
  ASSUME NEW sole, Writers = {sole}, RegistryIInv, [Next]_vars
  PROVE  RegistryIInv'
<1>1. CASE UNCHANGED vars
  BY <1>1 DEF vars, RegistryIInv, TypeOK, FlushUnderWay
<1>2. CASE Next
  <2>1. \/ Flush(sole) \/ Restart
        \/ \E c \in Calls : Register(sole, c) \/ Drop(sole, c) \/ Abandon(c)
    BY <1>2 DEF Next
  <2>2. QED
    BY <2>1, DictKeeps, SnapshotKeeps, OpenTmpKeeps, WriteKeeps, ReplaceKeeps, RestartKeeps DEF Flush
<1>3. QED
  BY <1>1, <1>2

(* With the event loop as the only writer, as in the proxy: whoever reads active.json
   finds a whole file, and between flushes the one of what is in flight, through calls
   abandoned, a process that dies in the middle of a flush and its restart
   (route_by_size.py _flush_active). *)
THEOREM MirrorIsFaithful ==
  ASSUME NEW sole, Writers = {sole}
  PROVE  Spec => []MirrorFaithful
<1>1. Init => RegistryIInv
  BY InitRegistryIInv
<1>2. RegistryIInv /\ [Next]_vars => RegistryIInv'
  BY RegistryStepKeeps
<1>3. RegistryIInv => MirrorFaithful
  BY DEF RegistryIInv, FlushUnderWay, MirrorFaithful, ReaderSeesWhole, MirrorCurrent
<1>4. QED
  BY <1>1, <1>2, <1>3, PTL DEF Spec

----------------------------------------------------------------------------
(* BackendSwitch: switch_to() *)

CallShape ==
    [at : {"idle", "wait", "expired"}, target : Backends \cup {None}, since : Nat, answer : BOOLEAN \cup {None}]

ManagerShape ==
    [state : States, active : Backends, target : Backends \cup {None}, started : Nat \cup {None}]

Tiers == {ActiveState(b) : b \in Backends}
ManagerAgrees == manager.target = None <=> manager.started = None

\* A coroutine that waits for the lock knows what it asks for.
ManagerIInv ==
    /\ tock \in Nat /\ line \in Seq(Callers)
    /\ caller \in [Callers -> CallShape] /\ manager \in ManagerShape
    /\ \A i \in DOMAIN line : caller[line[i]].target \in Backends
    /\ direct \in BOOLEAN /\ AdvertisedTier /\ ManagerAgrees

LEMMA InitManagerIInv == SwitchInit => ManagerIInv
<1> SUFFICES ASSUME SwitchInit PROVE ManagerIInv
  OBVIOUS
<1>1. NoCall \in CallShape
  BY DEF NoCall, CallShape
<1>2. AdvertisedTier
  BY DEF SwitchInit, AdvertisedTier, Backends, ActiveState
<1>3. manager \in ManagerShape /\ ManagerAgrees
  BY DEF SwitchInit, ManagerShape, ManagerAgrees, Backends, States
<1>4. direct \in BOOLEAN
  BY DEF SwitchInit
<1>5. /\ tock \in Nat /\ line \in Seq(Callers) /\ caller \in [Callers -> CallShape]
      /\ \A i \in DOMAIN line : caller[line[i]].target \in Backends
  BY <1>1 DEF SwitchInit
<1>6. QED
  BY <1>2, <1>3, <1>4, <1>5 DEF ManagerIInv

\* Each tier has a state of its own.
LEMMA TiersDiffer == \A a, b \in Backends : ActiveState(a) = ActiveState(b) => a = b
  BY DEF Backends, ActiveState

LEMMA LineFacts ==
  ASSUME ManagerIInv, line # <<>>
  PROVE  Head(line) \in Callers /\ caller[Head(line)].target \in Backends /\ Tail(line) \in Seq(Callers)
         /\ \A i \in DOMAIN Tail(line) : caller[Tail(line)[i]].target \in Backends
<1>1. line \in Seq(Callers) /\ \A i \in DOMAIN line : caller[line[i]].target \in Backends
  BY DEF ManagerIInv
<1>2. Head(line) = line[1] /\ 1 \in DOMAIN line /\ Head(line) \in Callers
  BY <1>1
<1>3. Tail(line) \in Seq(Callers) /\ \A i \in DOMAIN Tail(line) : i + 1 \in DOMAIN line /\ Tail(line)[i] = line[i + 1]
  BY <1>1
<1>4. QED
  BY <1>1, <1>2, <1>3

LEMMA SwitchToKeeps ==
  ASSUME ManagerIInv, NEW c \in Callers, NEW b \in Targets, SwitchTo(c, b)
  PROVE  ManagerIInv'
<1>1. b \in Backends /\ tock \in Nat
  BY SwitchAssumption DEF ManagerIInv
<1>2. PICK q \in CallShape : q = [NoCall EXCEPT !.at = "wait", !.target = b, !.since = tock] /\ q.target = b
  <2>1. NoCall \in CallShape
    BY DEF NoCall, CallShape
  <2>2. PICK r \in CallShape : r = [NoCall EXCEPT !.at = "wait"]
    BY <2>1 DEF CallShape
  <2>3. PICK s \in CallShape : s = [r EXCEPT !.target = b] /\ s.target = b
    <3>1. [r EXCEPT !.target = b] \in CallShape
      BY <1>1 DEF CallShape
    <3>2. [r EXCEPT !.target = b].target = b
      BY <3>1 DEF CallShape
    <3>3. QED
      BY <3>1, <3>2
  <2>4. [s EXCEPT !.since = tock] \in CallShape /\ [s EXCEPT !.since = tock].target = s.target
    BY <1>1 DEF CallShape
  <2>5. QED
    BY <2>2, <2>3, <2>4
<1>3. /\ caller' \in [Callers -> CallShape] /\ caller'[c].target = b
      /\ \A d \in Callers \ {c} : caller'[d] = caller[d]
  BY <1>2 DEF SwitchTo, ManagerIInv
<1>4. line' \in Seq(Callers) /\ \A i \in DOMAIN line' : line'[i] = c \/ (i \in DOMAIN line /\ line'[i] = line[i])
  BY DEF SwitchTo, ManagerIInv
<1>5. \A i \in DOMAIN line' : caller'[line'[i]].target \in Backends
  <2>1. \A i \in DOMAIN line : line[i] \in Callers /\ caller[line[i]].target \in Backends
    BY DEF ManagerIInv
  <2>2. QED
    BY <1>1, <1>3, <1>4, <2>1
<1>6. QED
  BY <1>3, <1>4, <1>5 DEF SwitchTo, ManagerIInv, AdvertisedTier, ManagerAgrees

\* The answers and where a caller is may change, whom it asked for does not.
LEMMA AskedStays ==
  ASSUME ManagerIInv, NEW c \in Callers, NEW q \in CallShape, q.target = caller[c].target,
         caller' = [caller EXCEPT ![c] = q]
  PROVE  caller' \in [Callers -> CallShape] /\ \A d \in Callers : caller'[d].target = caller[d].target
  BY DEF ManagerIInv

\* A caller's record with where it is and its answer changed.
LEMMA Answered ==
  ASSUME NEW r \in CallShape, NEW yes \in BOOLEAN
  PROVE  \E q \in CallShape : q = [r EXCEPT !.at = "idle", !.answer = yes] /\ q.target = r.target
                              /\ q.at = "idle" /\ q.answer = yes
<1>1. [r EXCEPT !.at = "idle"] \in CallShape /\ [r EXCEPT !.at = "idle"].target = r.target
      /\ [r EXCEPT !.at = "idle"].at = "idle"
  BY DEF CallShape
<1>2. PICK s \in CallShape : s = [r EXCEPT !.at = "idle"] /\ s.target = r.target /\ s.at = "idle"
  BY <1>1
<1>3. [s EXCEPT !.answer = yes] \in CallShape
  BY DEF CallShape
<1>4. [s EXCEPT !.answer = yes].target = s.target /\ [s EXCEPT !.answer = yes].at = s.at
      /\ [s EXCEPT !.answer = yes].answer = yes
  BY <1>3 DEF CallShape
<1>5. QED
  BY <1>2, <1>3, <1>4

LEMMA SwitchKeeps ==
  ASSUME ManagerIInv, NEW c \in Callers, Switch(c)
  PROVE  /\ ManagerIInv' /\ caller'[c].answer = (manager'.active # manager.active)
         /\ \A d \in Callers \ {c} : caller'[d] = caller[d]
<1>1. line # <<>> /\ Head(line) = c /\ line' = Tail(line) /\ caller[c] \in CallShape /\ UNCHANGED tock
      /\ caller \in [Callers -> CallShape]
  BY DEF Switch, ManagerIInv
<1>2. caller[c].target \in Backends
  BY <1>1, LineFacts
<1>3. CASE manager.active = caller[c].target
  <2>1. PICK q \in CallShape : /\ q = [caller[c] EXCEPT !.at = "idle", !.answer = FALSE]
                               /\ q.target = caller[c].target /\ q.answer = FALSE
    BY <1>1, Answered
  <2>2. caller' = [caller EXCEPT ![c] = q] /\ UNCHANGED <<manager, direct>>
    BY <1>1, <1>3, <2>1 DEF Switch
  <2>3. caller' \in [Callers -> CallShape] /\ \A d \in Callers : caller'[d].target = caller[d].target
    BY <2>1, <2>2, AskedStays
  <2>4. AdvertisedTier' /\ ManagerAgrees'
    BY <2>2 DEF ManagerIInv, AdvertisedTier, ManagerAgrees
  <2>5. line' \in Seq(Callers) /\ \A i \in DOMAIN line' : line'[i] \in Callers /\ caller[line'[i]].target \in Backends
    BY <1>1, LineFacts
  <2>6. QED
    BY <1>1, <2>1, <2>2, <2>3, <2>4, <2>5 DEF ManagerIInv
<1>4. CASE manager.active # caller[c].target
  <2>1. PICK q \in CallShape : /\ q = [caller[c] EXCEPT !.at = "idle", !.answer = TRUE]
                               /\ q.target = caller[c].target /\ q.answer = TRUE
    BY <1>1, Answered
  <2>2. /\ caller' = [caller EXCEPT ![c] = q]
        /\ manager' = [state |-> ActiveState(caller[c].target), active |-> caller[c].target,
                        target |-> None, started |-> None]
        /\ direct' = FALSE
    BY <1>1, <1>4, <2>1 DEF Switch
  <2>3. caller' \in [Callers -> CallShape] /\ \A d \in Callers : caller'[d].target = caller[d].target
    BY <2>1, <2>2, AskedStays
  <2>4. AdvertisedTier' /\ ManagerAgrees'
    BY <1>2, <2>2, TiersDiffer DEF AdvertisedTier, ManagerAgrees
  <2>5. line' \in Seq(Callers) /\ \A i \in DOMAIN line' : line'[i] \in Callers /\ caller[line'[i]].target \in Backends
    BY <1>1, LineFacts
  <2>6. manager'.active # manager.active
    BY <1>4, <2>2
  <2>7. manager' \in ManagerShape
    BY <1>2, <2>2 DEF ManagerShape, States
  <2>8. QED
    BY <1>1, <2>1, <2>2, <2>3, <2>4, <2>5, <2>6, <2>7 DEF ManagerIInv
<1>5. QED
  BY <1>3, <1>4

LEMMA ExpireKeeps ==
  ASSUME ManagerIInv, NEW c \in Callers, Expire(c)
  PROVE  ManagerIInv' /\ caller'[c].at = "expired" /\ \A d \in Callers \ {c} : caller'[d] = caller[d]
<1>1. caller[c] \in CallShape /\ caller \in [Callers -> CallShape] /\ line \in Seq(Callers)
      /\ \A i \in DOMAIN line : line[i] \in Callers /\ caller[line[i]].target \in Backends
  BY DEF ManagerIInv
<1>2. [caller[c] EXCEPT !.at = "expired"] \in CallShape
  BY <1>1 DEF CallShape
<1>3. PICK q \in CallShape : q = [caller[c] EXCEPT !.at = "expired"] /\ q.target = caller[c].target /\ q.at = "expired"
  BY <1>1, <1>2 DEF CallShape
<1>4. caller' = [caller EXCEPT ![c] = q] /\ UNCHANGED <<tock, manager, direct>>
  BY <1>3 DEF Expire
<1>5. caller' \in [Callers -> CallShape] /\ \A d \in Callers : caller'[d].target = caller[d].target
  BY <1>3, <1>4, AskedStays
<1>6. PICK i \in DOMAIN line : line' = SubSeq(line, 1, i - 1) \o SubSeq(line, i + 1, Len(line))
  BY DEF Expire, RemoveAt
<1>7. line' \in Seq(Callers) /\ \A j \in DOMAIN line' : \E k \in DOMAIN line : line'[j] = line[k]
  <2> DEFINE before == SubSeq(line, 1, i - 1)
             after == SubSeq(line, i + 1, Len(line))
  <2>1. i \in 1..Len(line)
    BY <1>1
  <2>2. before \in Seq(Callers) /\ Len(before) = i - 1 /\ \A j \in 1..(i - 1) : before[j] = line[j]
    BY <1>1, <2>1
  <2>3. /\ after \in Seq(Callers) /\ Len(after) = Len(line) - i
        /\ \A j \in 1..(Len(line) - i) : after[j] = line[i + j]
    BY <1>1, <2>1
  <2> HIDE DEF before, after
  <2>4. /\ before \o after \in Seq(Callers) /\ DOMAIN (before \o after) = 1..(Len(line) - 1)
        /\ \A j \in 1..(Len(line) - 1) :
              (before \o after)[j] = IF j <= i - 1 THEN before[j] ELSE after[j - (i - 1)]
    BY <1>1, <2>1, <2>2, <2>3
  <2>5. ASSUME NEW j \in 1..(Len(line) - 1)
        PROVE  \E k \in DOMAIN line : (before \o after)[j] = line[k]
    <3>1. CASE j <= i - 1
      <4>1. (before \o after)[j] = line[j] /\ j \in 1..Len(line)
        BY <1>1, <2>1, <2>2, <2>4, <3>1
      <4>2. QED
        BY <1>1, <4>1
    <3>2. CASE ~(j <= i - 1)
      <4>1. j - (i - 1) \in 1..(Len(line) - i) /\ i + (j - (i - 1)) = j + 1 /\ j + 1 \in 1..Len(line)
        BY <1>1, <2>1, <3>2
      <4>2. (before \o after)[j] = after[j - (i - 1)]
        BY <2>4, <3>2
      <4>3. (before \o after)[j] = line[j + 1]
        BY <2>3, <4>1, <4>2
      <4>4. QED
        BY <1>1, <4>1, <4>3
    <3>3. QED
      BY <3>1, <3>2
  <2>6. line' = before \o after
    BY <1>6 DEF before, after
  <2>7. QED
    BY <2>4, <2>5, <2>6
<1>8. QED
  BY <1>1, <1>3, <1>4, <1>5, <1>7 DEF ManagerIInv, AdvertisedTier, ManagerAgrees

\* The state is set, by a switch that has timed out or by the manager's user.
LEMMA StateSet ==
  ASSUME ManagerIInv, NEW s \in States, manager' = [manager EXCEPT !.state = s], direct' \in BOOLEAN,
         direct' = (direct \/ s \in Tiers)
  PROVE  manager' \in ManagerShape /\ AdvertisedTier' /\ ManagerAgrees'
<1>1. manager \in ManagerShape /\ direct \in BOOLEAN
  BY DEF ManagerIInv
<1>2. /\ manager' \in ManagerShape /\ manager'.state = s
      /\ manager'.active = manager.active /\ manager'.target = manager.target /\ manager'.started = manager.started
  BY <1>1 DEF ManagerShape
<1>3. AdvertisedTier'
  BY <1>1, <1>2 DEF ManagerIInv, AdvertisedTier, Tiers
<1>4. QED
  BY <1>2, <1>3 DEF ManagerIInv, ManagerAgrees

LEMMA FallBackKeeps ==
  ASSUME ManagerIInv, NEW c \in Callers, FallBack(c)
  PROVE  ManagerIInv' /\ \A d \in Callers \ {c} : caller'[d] = caller[d]
<1>1. PICK q \in CallShape : /\ q = [caller[c] EXCEPT !.at = "idle", !.answer = FALSE]
                             /\ q.target = caller[c].target
  BY Answered DEF ManagerIInv
<1>2. caller' = [caller EXCEPT ![c] = q] /\ UNCHANGED <<tock, line>>
  BY <1>1 DEF FallBack
<1>3. caller' \in [Callers -> CallShape] /\ \A d \in Callers : caller'[d].target = caller[d].target
  BY <1>1, <1>2, AskedStays
<1>4. /\ manager' = [manager EXCEPT !.state = "FALLING_BACK_EXTERNAL"] /\ UNCHANGED direct
      /\ "FALLING_BACK_EXTERNAL" \in States \ Tiers
  BY DEF FallBack, States, Tiers, Backends, ActiveState
<1>5. manager' \in ManagerShape /\ AdvertisedTier' /\ ManagerAgrees'
  <2>1. direct \in BOOLEAN /\ direct' \in BOOLEAN
    BY <1>4 DEF ManagerIInv
  <2>2. direct' = (direct \/ "FALLING_BACK_EXTERNAL" \in Tiers)
    BY <1>4, <2>1
  <2>3. QED
    BY <1>4, <2>1, <2>2, StateSet
<1>6. QED
  BY <1>2, <1>3, <1>4, <1>5 DEF ManagerIInv

\* One field of the manager changes, and the others stay.
LEMMA ManagerShapeKept ==
  ASSUME NEW m \in ManagerShape
  PROVE  /\ \A x \in States : [m EXCEPT !.state = x] \in ManagerShape
         /\ \A x \in Backends : [m EXCEPT !.active = x] \in ManagerShape
         /\ \A x \in Backends \cup {None} : [m EXCEPT !.target = x] \in ManagerShape
         /\ \A x \in Nat \cup {None} : [m EXCEPT !.started = x] \in ManagerShape
<1>1. ASSUME NEW x \in States PROVE [m EXCEPT !.state = x] \in ManagerShape
  BY DEF ManagerShape
<1>2. ASSUME NEW x \in Backends PROVE [m EXCEPT !.active = x] \in ManagerShape
  BY DEF ManagerShape
<1>3. ASSUME NEW x \in Backends \cup {None} PROVE [m EXCEPT !.target = x] \in ManagerShape
  BY DEF ManagerShape
<1>4. ASSUME NEW x \in Nat \cup {None} PROVE [m EXCEPT !.started = x] \in ManagerShape
  BY DEF ManagerShape
<1>5. QED
  BY <1>1, <1>2, <1>3, <1>4

LEMMA FailureReset ==
  ASSUME ManagerIInv, ResetFailure
  PROVE  /\ manager' \in ManagerShape /\ direct' \in BOOLEAN /\ AdvertisedTier' /\ ManagerAgrees'
         /\ UNCHANGED <<tock, line, caller>>
<1>1. manager \in ManagerShape
  BY DEF ManagerIInv
<1> DEFINE x == [manager EXCEPT !.state = "IDLE"]
           y == [x EXCEPT !.target = None]
           z == [y EXCEPT !.started = None]
<1>2. x \in ManagerShape /\ x.state = "IDLE"
  <2>1. x \in ManagerShape
    BY <1>1, ManagerShapeKept DEF States
  <2>2. QED
    BY <1>1, <2>1 DEF ManagerShape
<1>3. y \in ManagerShape /\ y.state = x.state /\ y.target = None
  <2>1. y \in ManagerShape
    BY <1>2, ManagerShapeKept
  <2>2. QED
    BY <1>2, <2>1 DEF ManagerShape
<1>4. z \in ManagerShape /\ z.state = y.state /\ z.target = y.target /\ z.started = None
  <2>1. z \in ManagerShape
    BY <1>3, ManagerShapeKept
  <2>2. QED
    BY <1>3, <2>1 DEF ManagerShape
<1>5. manager' = z /\ direct' = FALSE /\ UNCHANGED <<tock, line, caller>>
  BY DEF ResetFailure
<1> HIDE DEF x, y, z
<1>6. manager' \in ManagerShape /\ manager'.state = "IDLE" /\ manager'.target = None /\ manager'.started = None
  BY <1>2, <1>3, <1>4, <1>5
<1>7. AdvertisedTier'
  BY <1>6 DEF AdvertisedTier, Backends, ActiveState
<1>8. QED
  BY <1>5, <1>6, <1>7 DEF ManagerAgrees

\* A helper sets or clears the target and the start of a switch together.
LEMMA HelperCalled ==
  ASSUME ManagerIInv, NEW b \in Targets, SetActiveBackend(b) \/ BeginSwitch(b) \/ CompleteSwitch(b)
  PROVE  manager' \in ManagerShape /\ direct' = TRUE /\ ManagerAgrees' /\ UNCHANGED <<tock, line, caller>>
<1>1. manager \in ManagerShape /\ ManagerAgrees /\ b \in Backends /\ b # None /\ tock \in Nat /\ tock # None
  BY SwitchAssumption DEF ManagerIInv
<1>2. CASE SetActiveBackend(b)
  <2> DEFINE x == [manager EXCEPT !.active = b]
  <2>1. x \in ManagerShape
    BY <1>1, ManagerShapeKept
  <2>2. x.target = manager.target /\ x.started = manager.started
    BY <1>1, <2>1 DEF ManagerShape
  <2>3. manager' = x /\ direct' = TRUE /\ UNCHANGED <<tock, line, caller>>
    BY <1>2 DEF SetActiveBackend
  <2> HIDE DEF x
  <2>4. QED
    BY <1>1, <2>1, <2>2, <2>3 DEF ManagerAgrees
<1>3. CASE BeginSwitch(b)
  <2> DEFINE x == [manager EXCEPT !.target = b]
             y == [x EXCEPT !.started = tock]
  <2>1. x \in ManagerShape /\ x.target = b
    <3>1. x \in ManagerShape
      BY <1>1, ManagerShapeKept
    <3>2. QED
      BY <1>1, <3>1 DEF ManagerShape
  <2>2. y \in ManagerShape /\ y.target = x.target /\ y.started = tock
    <3>1. y \in ManagerShape
      BY <1>1, <2>1, ManagerShapeKept
    <3>2. QED
      BY <1>1, <2>1, <3>1 DEF ManagerShape
  <2>3. manager' = y /\ direct' = TRUE /\ UNCHANGED <<tock, line, caller>>
    BY <1>3 DEF BeginSwitch
  <2> HIDE DEF x, y
  <2>4. QED
    BY <1>1, <2>1, <2>2, <2>3 DEF ManagerAgrees
<1>4. CASE CompleteSwitch(b)
  <2> DEFINE x == [manager EXCEPT !.active = b]
             y == [x EXCEPT !.target = None]
             z == [y EXCEPT !.started = None]
  <2>1. x \in ManagerShape
    BY <1>1, ManagerShapeKept
  <2>2. y \in ManagerShape /\ y.target = None
    <3>1. y \in ManagerShape
      BY <2>1, ManagerShapeKept
    <3>2. QED
      BY <2>1, <3>1 DEF ManagerShape
  <2>3. z \in ManagerShape /\ z.target = y.target /\ z.started = None
    <3>1. z \in ManagerShape
      BY <2>2, ManagerShapeKept
    <3>2. QED
      BY <2>2, <3>1 DEF ManagerShape
  <2>4. manager' = z /\ direct' = TRUE /\ UNCHANGED <<tock, line, caller>>
    BY <1>4 DEF CompleteSwitch
  <2> HIDE DEF x, y, z
  <2>5. QED
    BY <2>2, <2>3, <2>4 DEF ManagerAgrees
<1>5. QED
  BY <1>2, <1>3, <1>4

\* Nothing but the end of a switch ends a wait with an answer.
LEMMA ManagerStepKeeps ==
  ASSUME ManagerIInv, [SwitchNext]_switchVars
  PROVE  /\ ManagerIInv'
         /\ \A c \in Callers : caller[c].at = "wait" /\ caller'[c].at = "idle"
                => caller'[c].answer = (manager'.active # manager.active)
<1>1. CASE \E c \in Callers : \E b \in Targets : SwitchTo(c, b)
  <2>1. PICK c \in Callers, b \in Targets : SwitchTo(c, b)
    BY <1>1
  <2>2. caller[c].at = "idle" /\ \A d \in Callers \ {c} : caller'[d] = caller[d]
    BY <2>1 DEF SwitchTo, ManagerIInv
  <2>3. QED
    BY <2>1, <2>2, SwitchToKeeps
<1>2. CASE \E c \in Callers : Switch(c)
  <2>1. PICK c \in Callers : Switch(c)
    BY <1>2
  <2>2. ManagerIInv' /\ caller'[c].answer = (manager'.active # manager.active)
        /\ \A d \in Callers \ {c} : caller'[d] = caller[d]
    BY <2>1, SwitchKeeps
  <2>3. QED
    BY <2>2
<1>3. CASE \E c \in Callers : Expire(c)
  <2>1. PICK c \in Callers : Expire(c)
    BY <1>3
  <2>2. ManagerIInv' /\ caller'[c].at = "expired" /\ \A d \in Callers \ {c} : caller'[d] = caller[d]
    BY <2>1, ExpireKeeps
  <2>3. QED
    BY <2>2
<1>4. CASE \E c \in Callers : FallBack(c)
  <2>1. PICK c \in Callers : FallBack(c)
    BY <1>4
  <2>2. caller[c].at = "expired"
    BY <2>1 DEF FallBack
  <2>3. ManagerIInv' /\ \A d \in Callers \ {c} : caller'[d] = caller[d]
    BY <2>1, FallBackKeeps
  <2>4. QED
    BY <2>2, <2>3
<1>5. CASE Hold \/ Release
  BY <1>5 DEF Hold, Release, ManagerIInv, AdvertisedTier, ManagerAgrees
<1>6. CASE ResetFailure \/ \E s \in States : SetState(s)
  <2>1. /\ manager' \in ManagerShape /\ direct' \in BOOLEAN /\ AdvertisedTier' /\ ManagerAgrees'
        /\ UNCHANGED <<tock, line, caller>>
    <3>1. CASE ResetFailure
      BY <3>1, FailureReset
    <3>2. ASSUME NEW s \in States, SetState(s)
          PROVE  /\ manager' \in ManagerShape /\ direct' \in BOOLEAN /\ AdvertisedTier' /\ ManagerAgrees'
                 /\ UNCHANGED <<tock, line, caller>>
      <4>1. /\ manager' = [manager EXCEPT !.state = s] /\ direct' = (direct \/ s \in Tiers)
            /\ UNCHANGED <<tock, line, caller>> /\ direct \in BOOLEAN
        BY <3>2 DEF SetState, Tiers, ManagerIInv
      <4>2. direct' \in BOOLEAN
        BY <4>1
      <4>3. QED
        BY <4>1, <4>2, StateSet
    <3>3. QED
      BY <1>6, <3>1, <3>2
  <2>2. QED
    BY <2>1 DEF ManagerIInv
<1>11. CASE \E b \in Targets : SetActiveBackend(b) \/ BeginSwitch(b) \/ CompleteSwitch(b)
  <2>1. PICK b \in Targets : SetActiveBackend(b) \/ BeginSwitch(b) \/ CompleteSwitch(b)
    BY <1>11
  <2>2. manager' \in ManagerShape /\ direct' = TRUE /\ ManagerAgrees' /\ UNCHANGED <<tock, line, caller>>
    BY <2>1, HelperCalled
  <2>3. AdvertisedTier'
    BY <2>2 DEF AdvertisedTier
  <2>4. QED
    BY <2>2, <2>3 DEF ManagerIInv
<1>7. CASE ApiNext
  BY <1>7 DEF ApiNext, ApiBegin, ApiComplete, ApiFails, ApiReset, ApiReply, managerVars, ManagerIInv, AdvertisedTier, ManagerAgrees
<1>8. CASE SwitchTick
  BY <1>8 DEF SwitchTick, managerVars, ManagerIInv, AdvertisedTier, ManagerAgrees
<1>9. CASE UNCHANGED switchVars
  BY <1>9 DEF switchVars, ManagerIInv, AdvertisedTier, ManagerAgrees
<1>10. QED
  BY <1>1, <1>2, <1>3, <1>4, <1>5, <1>6, <1>7, <1>8, <1>9, <1>11 DEF SwitchNext, ManagerNext

----------------------------------------------------------------------------
(* BackendSwitch: the manager behind the status endpoint *)

ApiShape ==
    [state : {"IDLE", "FAILED"}, active : Backends, target : Backends \cup {None},
     started : Nat \cup {None}, timed : Nat \cup {None}, took : Int \cup {None}, failures : Nat]
ApiAgrees == api.target = None <=> api.started = None
Drive == [target : Backends, since : Nat]
ResetShape == [at : {"idle", "status"}, found : Nat, ok : BOOLEAN, current : {"IDLE", "FAILED", None}]

\* The clock of the endpoint was started by the last switch to begin, and while the
\* state is FAILED no reset has found the failure that it shows.
ApiIInv ==
    /\ tock \in Nat /\ api \in ApiShape
    /\ drive \in [Callers -> {None} \cup Drive]
    /\ reset \in [Endpoints -> ResetShape]
    /\ \A c \in Callers : drive[c] # None =>
           drive[c].since <= tock /\ (api.timed # None => drive[c].since <= api.timed)
    /\ \A e \in Endpoints : /\ reset[e].found <= api.failures
                            /\ api.state = "FAILED" => reset[e].found < api.failures
    /\ ApiAgrees /\ OneResetReports

LEMMA InitApiIInv == SwitchInit => ApiIInv
<1> SUFFICES ASSUME SwitchInit PROVE ApiIInv
  OBVIOUS
<1>1. NoReset \in ResetShape /\ NoReset.found = 0 /\ NoReset.ok = FALSE
  BY DEF NoReset, ResetShape
<1>2. api \in ApiShape /\ api.state = "IDLE" /\ api.failures = 0 /\ api.target = None /\ api.started = None
  BY DEF SwitchInit, ApiShape, Backends
<1>3. QED
  BY <1>1, <1>2 DEF SwitchInit, ApiIInv, ApiAgrees, OneResetReports

\* One field of what the endpoint shows changes, and the others stay.
LEMMA ApiShapeKept ==
  ASSUME NEW a \in ApiShape
  PROVE  /\ \A x \in {"IDLE", "FAILED"} : [a EXCEPT !.state = x] \in ApiShape
         /\ \A x \in Backends : [a EXCEPT !.active = x] \in ApiShape
         /\ \A x \in Backends \cup {None} : [a EXCEPT !.target = x] \in ApiShape
         /\ \A x \in Nat \cup {None} : [a EXCEPT !.started = x] \in ApiShape
         /\ \A x \in Nat \cup {None} : [a EXCEPT !.timed = x] \in ApiShape
         /\ \A x \in Int \cup {None} : [a EXCEPT !.took = x] \in ApiShape
         /\ \A x \in Nat : [a EXCEPT !.failures = x] \in ApiShape
<1>1. ASSUME NEW x \in {"IDLE", "FAILED"} PROVE [a EXCEPT !.state = x] \in ApiShape
  BY DEF ApiShape
<1>2. ASSUME NEW x \in Backends PROVE [a EXCEPT !.active = x] \in ApiShape
  BY DEF ApiShape
<1>3. ASSUME NEW x \in Backends \cup {None} PROVE [a EXCEPT !.target = x] \in ApiShape
  BY DEF ApiShape
<1>4. ASSUME NEW x \in Nat \cup {None} PROVE [a EXCEPT !.started = x] \in ApiShape
  BY DEF ApiShape
<1>5. ASSUME NEW x \in Nat \cup {None} PROVE [a EXCEPT !.timed = x] \in ApiShape
  BY DEF ApiShape
<1>6. ASSUME NEW x \in Int \cup {None} PROVE [a EXCEPT !.took = x] \in ApiShape
  BY DEF ApiShape
<1>7. ASSUME NEW x \in Nat PROVE [a EXCEPT !.failures = x] \in ApiShape
  BY DEF ApiShape
<1>8. QED
  BY <1>1, <1>2, <1>3, <1>4, <1>5, <1>6, <1>7

LEMMA ApiBeginKeeps ==
  ASSUME ApiIInv, NEW c \in Callers, NEW b \in Targets, ApiBegin(c, b)
  PROVE  ApiIInv' /\ drive[c] = None /\ \A d \in Callers \ {c} : drive'[d] = drive[d]
<1>1. b \in Backends /\ b # None /\ tock \in Nat /\ tock # None
  BY SwitchAssumption DEF ApiIInv
<1>2. PICK q \in Drive : q = [target |-> b, since |-> tock] /\ q.since = tock
  <2>1. [target |-> b, since |-> tock] \in Drive
    BY <1>1 DEF Drive
  <2>2. QED
    BY <2>1
<1>3. /\ drive[c] = None /\ drive' \in [Callers -> {None} \cup Drive] /\ drive'[c] = q
      /\ \A d \in Callers \ {c} : drive'[d] = drive[d]
  BY <1>2 DEF ApiBegin, ApiIInv
<1>4. /\ api' \in ApiShape /\ api'.target = b /\ api'.started = tock /\ api'.timed = tock
      /\ api'.state = api.state /\ api'.failures = api.failures
  <2>1. api \in ApiShape
    BY DEF ApiIInv
  <2> DEFINE x == [api EXCEPT !.target = b]
             y == [x EXCEPT !.started = tock]
             z == [y EXCEPT !.timed = tock]
  <2>2. x \in ApiShape /\ x.target = b /\ x.state = api.state /\ x.failures = api.failures
    <3>1. x \in ApiShape
      BY <1>1, <2>1 DEF ApiShape
    <3>2. QED
      BY <2>1, <3>1 DEF ApiShape
  <2>3. y \in ApiShape /\ y.target = x.target /\ y.started = tock /\ y.state = x.state /\ y.failures = x.failures
    <3>1. y \in ApiShape
      BY <1>1, <2>2 DEF ApiShape
    <3>2. QED
      BY <2>2, <3>1 DEF ApiShape
  <2>4. /\ z \in ApiShape /\ z.target = y.target /\ z.started = y.started /\ z.timed = tock
        /\ z.state = y.state /\ z.failures = y.failures
    <3>1. z \in ApiShape
      BY <1>1, <2>3 DEF ApiShape
    <3>2. QED
      BY <2>3, <3>1 DEF ApiShape
  <2>5. api' = z
    BY DEF ApiBegin
  <2> HIDE DEF x, y, z
  <2>6. QED
    BY <2>2, <2>3, <2>4, <2>5
<1>5. UNCHANGED <<tock, reset>>
  BY DEF ApiBegin
<1>6. \A d \in Callers : drive'[d] # None =>
          drive'[d].since <= tock' /\ (api'.timed # None => drive'[d].since <= api'.timed)
  BY <1>1, <1>2, <1>3, <1>4, <1>5 DEF ApiIInv, Drive
<1>7. ApiAgrees' /\ OneResetReports'
  BY <1>1, <1>4, <1>5 DEF ApiIInv, ApiAgrees, OneResetReports
<1>8. QED
  BY <1>3, <1>4, <1>5, <1>6, <1>7 DEF ApiIInv

LEMMA ApiCompleteKeeps ==
  ASSUME ApiIInv, NEW c \in Callers, ApiComplete(c)
  PROVE  /\ ApiIInv' /\ drive[c] # None /\ \A d \in Callers \ {c} : drive'[d] = drive[d]
         /\ api'.took = api.took \/ api'.took <= tock - drive[c].since
<1>1. /\ drive[c] \in Drive /\ drive[c].target \in Backends /\ tock \in Nat /\ api.timed \in Nat \cup {None}
      /\ drive[c] # None /\ api \in ApiShape
      /\ (IF api.timed = None THEN api.took ELSE tock - api.timed) \in Int \cup {None}
  <2>1. drive[c] # None /\ drive[c] \in Drive /\ tock \in Nat /\ api \in ApiShape
    BY DEF ApiComplete, ApiIInv
  <2>2. drive[c].target \in Backends /\ api.timed \in Nat \cup {None} /\ api.took \in Int \cup {None}
    BY <2>1 DEF Drive, ApiShape
  <2>3. QED
    BY <2>1, <2>2
<1>2. /\ api' \in ApiShape /\ api'.target = None /\ api'.started = None /\ api'.timed = None
      /\ api'.took = (IF api.timed = None THEN api.took ELSE tock - api.timed)
      /\ api'.state = api.state /\ api'.failures = api.failures
  <2>1. api \in ApiShape
    BY <1>1
  <2> DEFINE v == [api EXCEPT !.active = drive[c].target]
             w == [v EXCEPT !.target = None]
             x == [w EXCEPT !.started = None]
             y == [x EXCEPT !.timed = None]
             z == [y EXCEPT !.took = (IF api.timed = None THEN api.took ELSE tock - api.timed)]
  <2>2. v \in ApiShape /\ v.target = api.target /\ v.started = api.started /\ v.timed = api.timed /\ v.took = api.took /\ v.state = api.state /\ v.failures = api.failures
    <3>1. v \in ApiShape
      BY <1>1, <2>1, ApiShapeKept
    <3>2. QED
      BY <2>1, <3>1 DEF ApiShape
  <2>3. w \in ApiShape /\ w.target = None /\ w.started = v.started /\ w.timed = v.timed /\ w.took = v.took /\ w.state = v.state /\ w.failures = v.failures
    <3>1. w \in ApiShape
      BY <1>1, <2>2, ApiShapeKept
    <3>2. QED
      BY <2>2, <3>1 DEF ApiShape
  <2>4. x \in ApiShape /\ x.target = w.target /\ x.started = None /\ x.timed = w.timed /\ x.took = w.took /\ x.state = w.state /\ x.failures = w.failures
    <3>1. x \in ApiShape
      BY <1>1, <2>3, ApiShapeKept
    <3>2. QED
      BY <2>3, <3>1 DEF ApiShape
  <2>5. y \in ApiShape /\ y.target = x.target /\ y.started = x.started /\ y.timed = None /\ y.took = x.took /\ y.state = x.state /\ y.failures = x.failures
    <3>1. y \in ApiShape
      BY <1>1, <2>4, ApiShapeKept
    <3>2. QED
      BY <2>4, <3>1 DEF ApiShape
  <2>6. z \in ApiShape /\ z.target = y.target /\ z.started = y.started /\ z.timed = y.timed /\ z.took = (IF api.timed = None THEN api.took ELSE tock - api.timed) /\ z.state = y.state /\ z.failures = y.failures
    <3>1. z \in ApiShape
      BY <1>1, <2>5, ApiShapeKept
    <3>2. QED
      BY <2>5, <3>1 DEF ApiShape
  <2>7. api' = z
    BY DEF ApiComplete
  <2> HIDE DEF v, w, x, y, z
  <2>8. QED
    BY <2>2, <2>3, <2>4, <2>5, <2>6, <2>7
<1>3. /\ drive' \in [Callers -> {None} \cup Drive] /\ drive'[c] = None /\ UNCHANGED <<tock, reset>>
      /\ \A d \in Callers \ {c} : drive'[d] = drive[d]
  BY DEF ApiComplete, ApiIInv
<1>4. api.timed # None => drive[c].since <= api.timed /\ drive[c].since \in Nat
  BY <1>1 DEF ApiIInv, Drive
<1>5. api'.took = api.took \/ api'.took <= tock - drive[c].since
  BY <1>1, <1>2, <1>4
<1>6. \A d \in Callers : drive'[d] # None =>
          drive'[d].since <= tock' /\ (api'.timed # None => drive'[d].since <= api'.timed)
  BY <1>2, <1>3 DEF ApiIInv
<1>7. ApiAgrees' /\ OneResetReports'
  BY <1>2, <1>3 DEF ApiIInv, ApiAgrees, OneResetReports
<1>8. QED
  BY <1>1, <1>2, <1>3, <1>5, <1>6, <1>7 DEF ApiIInv

LEMMA ApiFailsKeeps ==
  ASSUME ApiIInv, NEW c \in Callers, ApiFails(c)
  PROVE  ApiIInv' /\ api'.took = api.took
<1>1. api \in ApiShape /\ api.failures \in Nat /\ api.failures + 1 \in Nat
  BY DEF ApiIInv, ApiShape
<1>2. /\ api' \in ApiShape /\ api'.target = api.target /\ api'.started = api.started /\ api'.timed = api.timed
      /\ api'.took = api.took /\ api'.state = "FAILED" /\ api'.failures = api.failures + 1
  <2>1. api \in ApiShape
    BY <1>1
  <2> DEFINE x == [api EXCEPT !.state = "FAILED"]
             y == [x EXCEPT !.failures = (api.failures + 1)]
  <2>2. x \in ApiShape /\ x.target = api.target /\ x.started = api.started /\ x.timed = api.timed /\ x.took = api.took /\ x.state = "FAILED" /\ x.failures = api.failures
    <3>1. x \in ApiShape
      BY <1>1, <2>1, ApiShapeKept
    <3>2. QED
      BY <2>1, <3>1 DEF ApiShape
  <2>3. y \in ApiShape /\ y.target = x.target /\ y.started = x.started /\ y.timed = x.timed /\ y.took = x.took /\ y.state = x.state /\ y.failures = (api.failures + 1)
    <3>1. y \in ApiShape
      BY <1>1, <2>2, ApiShapeKept
    <3>2. QED
      BY <2>2, <3>1 DEF ApiShape
  <2>4. api' = y
    BY DEF ApiFails
  <2> HIDE DEF x, y
  <2>5. QED
    BY <2>2, <2>3, <2>4
<1>3. /\ drive' \in [Callers -> {None} \cup Drive] /\ drive'[c] = None /\ UNCHANGED <<tock, reset>>
      /\ \A d \in Callers \ {c} : drive'[d] = drive[d]
  BY DEF ApiFails, ApiIInv
<1>4. \A e \in Endpoints : reset[e].found \in Nat /\ reset[e].found < api'.failures
  BY <1>1, <1>2 DEF ApiIInv, ResetShape
<1>5. ApiAgrees' /\ OneResetReports'
  BY <1>2, <1>3, <1>4 DEF ApiIInv, ApiAgrees, OneResetReports
<1>6. \A d \in Callers : drive'[d] # None =>
          drive'[d].since <= tock' /\ (api'.timed # None => drive'[d].since <= api'.timed)
  BY <1>2, <1>3 DEF ApiIInv
<1>7. \A e \in Endpoints : reset'[e].found <= api'.failures /\ reset'[e].found < api'.failures
  BY <1>1, <1>2, <1>3, <1>4
<1>8. QED
  BY <1>2, <1>3, <1>5, <1>6, <1>7 DEF ApiIInv

\* A reset finds the failure that is shown, which no reset has found before it.
LEMMA ApiResetKeeps ==
  ASSUME ApiIInv, NEW e \in Endpoints, ApiReset(e)
  PROVE  ApiIInv' /\ UNCHANGED drive /\ api'.took = api.took
<1>1. /\ api \in ApiShape /\ api.failures \in Nat /\ Found \in Nat /\ Found <= api.failures
      /\ \A f \in Endpoints : reset[f] \in ResetShape /\ reset[f].found \in Nat /\ reset[f].found <= api.failures
      /\ \A f \in Endpoints : Found # 0 => Found # reset[f].found
  <2>1. api \in ApiShape /\ api.failures \in Nat
    BY DEF ApiIInv, ApiShape
  <2>2. Found \in Nat /\ Found <= api.failures
    BY <2>1 DEF Found
  <2>3. \A f \in Endpoints : reset[f] \in ResetShape /\ reset[f].found \in Nat /\ reset[f].found <= api.failures
    BY DEF ApiIInv, ResetShape
  <2>4. \A f \in Endpoints : Found # 0 => Found # reset[f].found
    BY <2>1, <2>3 DEF ApiIInv, Found
  <2>5. QED
    BY <2>1, <2>2, <2>3, <2>4
<1>2. /\ api' \in ApiShape /\ api'.state = "IDLE" /\ api'.timed = api.timed /\ api'.took = api.took
      /\ api'.failures = api.failures
      /\ api'.target = None <=> api'.started = None
  <2>1. CASE api.state = "FAILED"
    <3>1. api \in ApiShape
      BY <1>1
    <3> DEFINE x == [api EXCEPT !.state = "IDLE"]
               y == [x EXCEPT !.target = None]
               z == [y EXCEPT !.started = None]
    <3>2. x \in ApiShape /\ x.target = api.target /\ x.started = api.started /\ x.timed = api.timed /\ x.took = api.took /\ x.state = "IDLE" /\ x.failures = api.failures
      <4>1. x \in ApiShape
        BY <1>1, <3>1, ApiShapeKept
      <4>2. QED
        BY <3>1, <4>1 DEF ApiShape
    <3>3. y \in ApiShape /\ y.target = None /\ y.started = x.started /\ y.timed = x.timed /\ y.took = x.took /\ y.state = x.state /\ y.failures = x.failures
      <4>1. y \in ApiShape
        BY <1>1, <3>2, ApiShapeKept
      <4>2. QED
        BY <3>2, <4>1 DEF ApiShape
    <3>4. z \in ApiShape /\ z.target = y.target /\ z.started = None /\ z.timed = y.timed /\ z.took = y.took /\ z.state = y.state /\ z.failures = y.failures
      <4>1. z \in ApiShape
        BY <1>1, <3>3, ApiShapeKept
      <4>2. QED
        BY <3>3, <4>1 DEF ApiShape
    <3>5. api' = z
      BY <2>1 DEF ApiReset
    <3> HIDE DEF x, y, z
    <3>6. QED
      BY <3>2, <3>3, <3>4, <3>5
  <2>2. CASE api.state # "FAILED"
    BY <1>1, <2>2 DEF ApiReset, ApiShape, ApiIInv, ApiAgrees
  <2>3. QED
    BY <2>1, <2>2
<1>3. PICK q \in ResetShape : /\ q = [NoReset EXCEPT !.at = "status", !.found = Found]
                              /\ q.found = Found /\ q.ok = FALSE
  <2> DEFINE x == [NoReset EXCEPT !.at = "status"]
             y == [x EXCEPT !.found = Found]
  <2>1. NoReset \in ResetShape /\ NoReset.ok = FALSE
    BY DEF NoReset, ResetShape
  <2>2. x \in ResetShape /\ x.ok = FALSE
    <3>1. x \in ResetShape
      BY <2>1 DEF ResetShape
    <3>2. QED
      BY <2>1, <3>1 DEF ResetShape
  <2>3. y \in ResetShape /\ y.found = Found /\ y.ok = x.ok
    <3>1. y \in ResetShape
      BY <1>1, <2>2 DEF ResetShape
    <3>2. QED
      BY <2>2, <3>1 DEF ResetShape
  <2>4. y = [NoReset EXCEPT !.at = "status", !.found = Found]
    OBVIOUS
  <2> HIDE DEF x, y
  <2>5. QED
    BY <2>2, <2>3, <2>4
<1>4. reset' = [reset EXCEPT ![e] = q] /\ UNCHANGED <<tock, drive>>
  BY <1>3 DEF ApiReset
<1>5. /\ reset' \in [Endpoints -> ResetShape] /\ reset'[e] = q
      /\ \A f \in Endpoints \ {e} : reset'[f] = reset[f]
  BY <1>4 DEF ApiIInv
<1>6. OneResetReports'
  <2>1. ASSUME NEW a \in Endpoints, NEW b \in Endpoints, a # b, reset'[a].found # 0
        PROVE  reset'[a].found # reset'[b].found
    BY <1>1, <1>3, <1>5, <2>1 DEF ApiIInv, OneResetReports
  <2>2. ASSUME NEW a \in Endpoints, reset'[a].ok, reset'[a].current = "FAILED"
        PROVE  api'.failures > reset'[a].found
    BY <1>1, <1>2, <1>3, <1>5, <2>2 DEF ApiIInv, OneResetReports
  <2>3. QED
    BY <2>1, <2>2 DEF OneResetReports
<1>7. \A f \in Endpoints : reset'[f].found <= api'.failures
  <2>1. reset'[e].found = Found /\ Found <= api.failures /\ api'.failures = api.failures
    BY <1>1, <1>2, <1>3, <1>5
  <2>2. ASSUME NEW f \in Endpoints \ {e} PROVE reset'[f].found <= api'.failures
    BY <1>1, <1>2, <1>5
  <2>3. QED
    BY <2>1, <2>2
<1>8. QED
  <2>1. \A c \in Callers : drive'[c] # None =>
            drive'[c].since <= tock' /\ (api'.timed # None => drive'[c].since <= api'.timed)
    BY <1>2, <1>4 DEF ApiIInv
  <2>2. tock' \in Nat /\ drive' \in [Callers -> {None} \cup Drive] /\ UNCHANGED drive
    BY <1>4 DEF ApiIInv
  <2>3. QED
    BY <1>2, <1>5, <1>6, <1>7, <2>1, <2>2 DEF ApiIInv, ApiAgrees

LEMMA ApiReplyKeeps ==
  ASSUME ApiIInv, NEW e \in Endpoints, ApiReply(e)
  PROVE  ApiIInv' /\ UNCHANGED <<drive, api>>
<1>1. /\ reset[e] \in ResetShape /\ reset \in [Endpoints -> ResetShape] /\ api.state \in {"IDLE", "FAILED"}
      /\ (reset[e].found # 0) \in BOOLEAN
  BY DEF ApiIInv, ApiShape
<1>2. /\ reset' = [reset EXCEPT ![e] = [reset[e] EXCEPT !.at = "idle", !.ok = (reset[e].found # 0),
                                                        !.current = api.state]]
      /\ UNCHANGED <<tock, api, drive>>
  BY <1>1 DEF ApiReply
<1>3. PICK q \in ResetShape : /\ q = [reset[e] EXCEPT !.at = "idle", !.ok = (reset[e].found # 0),
                                                      !.current = api.state]
                              /\ q.found = reset[e].found /\ q.current = api.state
  <2> DEFINE x == [reset[e] EXCEPT !.at = "idle"]
             y == [x EXCEPT !.ok = (reset[e].found # 0)]
             z == [y EXCEPT !.current = api.state]
  <2>1. x \in ResetShape /\ x.found = reset[e].found
    <3>1. x \in ResetShape
      BY <1>1 DEF ResetShape
    <3>2. QED
      BY <1>1, <3>1 DEF ResetShape
  <2>2. y \in ResetShape /\ y.found = x.found
    <3>1. y \in ResetShape
      BY <1>1, <2>1 DEF ResetShape
    <3>2. QED
      BY <2>1, <3>1 DEF ResetShape
  <2>3. z \in ResetShape /\ z.found = y.found /\ z.current = api.state
    <3>1. z \in ResetShape
      BY <1>1, <2>2 DEF ResetShape
    <3>2. QED
      BY <2>2, <3>1 DEF ResetShape
  <2>4. z = [reset[e] EXCEPT !.at = "idle", !.ok = (reset[e].found # 0), !.current = api.state]
    OBVIOUS
  <2> HIDE DEF x, y, z
  <2>5. QED
    BY <2>1, <2>2, <2>3, <2>4
<1>4. /\ reset' \in [Endpoints -> ResetShape] /\ reset'[e] = q
      /\ \A f \in Endpoints \ {e} : reset'[f] = reset[f]
  BY <1>1, <1>2, <1>3
<1>5. \A f \in Endpoints : reset'[f].found = reset[f].found
  BY <1>3, <1>4
<1>6. q.current = "FAILED" => api.failures > q.found
  <2>1. api.failures \in Nat /\ reset[e].found \in Nat
    BY <1>1 DEF ApiIInv, ApiShape, ResetShape
  <2>2. QED
    BY <1>3, <2>1 DEF ApiIInv
<1>7. OneResetReports'
  BY <1>2, <1>4, <1>5, <1>6 DEF ApiIInv, OneResetReports
<1>8. QED
  BY <1>2, <1>4, <1>5, <1>7 DEF ApiIInv, ApiAgrees

\* Only the end of a switch sets how long it took.
LEMMA ApiStepKeeps ==
  ASSUME ApiIInv, [SwitchNext]_switchVars
  PROVE  /\ ApiIInv'
         /\ \A c \in Callers : drive[c] # None /\ drive'[c] = None /\ api'.took # api.took
                => api'.took <= tock - drive[c].since
<1>1. CASE \E c \in Callers : \E b \in Targets : ApiBegin(c, b)
  BY <1>1, ApiBeginKeeps
<1>2. CASE \E c \in Callers : ApiComplete(c)
  BY <1>2, ApiCompleteKeeps
<1>3. CASE \E c \in Callers : ApiFails(c)
  BY <1>3, ApiFailsKeeps
<1>4. CASE \E e \in Endpoints : ApiReset(e) \/ ApiReply(e)
  BY <1>4, ApiResetKeeps, ApiReplyKeeps
<1>5. CASE ManagerNext
  <2>1. UNCHANGED <<tock, api, drive, reset>>
    BY <1>5 DEF ManagerNext, SwitchTo, Switch, Expire, FallBack, Hold, Release, SetState, SetActiveBackend, BeginSwitch,
           CompleteSwitch, ResetFailure, statusVars
  <2>2. QED
    BY <2>1 DEF ApiIInv, ApiAgrees, OneResetReports
<1>6. CASE SwitchTick
  <2>1. UNCHANGED <<api, drive, reset>> /\ tock' = tock + 1 /\ tock \in Nat
    BY <1>6 DEF SwitchTick, statusVars, ApiIInv
  <2>2. \A c \in Callers : drive[c] # None => drive[c].since \in Nat
    BY DEF ApiIInv, Drive
  <2>3. QED
    BY <2>1, <2>2 DEF ApiIInv, ApiAgrees, OneResetReports
<1>7. CASE UNCHANGED switchVars
  BY <1>7 DEF switchVars, ApiIInv, ApiAgrees, OneResetReports
<1>8. QED
  BY <1>1, <1>2, <1>3, <1>4, <1>5, <1>6, <1>7 DEF SwitchNext, ApiNext

(* Whoever switches, times out, fails or resets learns what happened, for any number of
   callers and endpoints: the tier shown is the active one, and no target is shown, unless a
   user has set the tier past switch_to() since; a racing switch is answered TRUE where it
   changed the backend; both managers show a target exactly with its start, the helpers
   called directly or not; one failure is cleared once, and no duration exceeds its own
   switch (backend_lifecycle.py switch_to and its helpers, status_api.py). *)
THEOREM CallersAreTold == SwitchSpec => BackendTold
<1>1. SwitchInit => ManagerIInv /\ ApiIInv
  BY InitManagerIInv, InitApiIInv
<1>2. ManagerIInv /\ ApiIInv /\ [SwitchNext]_switchVars => (ManagerIInv /\ ApiIInv)'
  BY ManagerStepKeeps, ApiStepKeeps
<1>3. ManagerIInv /\ ApiIInv => AdvertisedTier /\ StatusAgrees /\ OneResetReports
  BY DEF ManagerIInv, ApiIInv, ManagerAgrees, ApiAgrees, StatusAgrees
<1>4. ManagerIInv /\ [SwitchNext]_switchVars =>
        [\A c \in Callers :
           caller[c].at = "wait" /\ caller'[c].at = "idle"
             => caller'[c].answer = (manager'.active # manager.active)]_<<caller, manager>>
  BY ManagerStepKeeps
<1>5. ApiIInv /\ [SwitchNext]_switchVars =>
        [\A c \in Callers : drive[c] # None /\ drive'[c] = None /\ api'.took # api.took
            => api'.took <= tock - drive[c].since]_<<api, drive>>
  BY ApiStepKeeps
<1>6. QED
  BY <1>1, <1>2, <1>3, <1>4, <1>5, PTL DEF SwitchSpec, BackendTold, SwitchesCoalesce, TookAtMost

----------------------------------------------------------------------------
(* GortexMonitor *)

DetailShape == [sessions : Sessions \cup {None}, ok : BOOLEAN, asOf : Nat]
PollShape == [at : {"idle", "refresh", "ask", "stamp", "copy", "store", "show"}, clock : Nat, got : DetailShape]

GortexTypeOK ==
    /\ time \in Nat /\ daemon \in Sessions \cup {None}
    /\ detail \in DetailShape /\ cachedAt \in Int /\ poll \in [Polls -> PollShape]

\* A poll is short, and an answer it has got is of its own time.
PollOK(q) ==
    /\ q.at # "idle" => q.clock <= time /\ time <= q.clock + AskMax
    /\ q.at \in {"stamp", "store"} /\ q.got.ok => q.clock <= q.got.asOf /\ q.got.asOf <= time

\* The clock of the cache runs ahead of a confirmed answer by no more than the call took
\* that got it, and so does the clock of a poll about to show it, once nobody is between
\* setting the one and storing the other.
AnswerTimely ==
    detail.ok /\ Storing = {} =>
      /\ cachedAt <= detail.asOf + AskMax
      /\ \A t \in Polls : poll[t].at = "show" => poll[t].clock - detail.asOf < DetailTTL + AskMax

GortexIInv ==
    /\ GortexTypeOK
    /\ cachedAt <= time
    /\ \A t \in Polls : PollOK(poll[t])
    /\ AnswerTimely

LEMMA InitGortexIInv == GortexInit => GortexIInv
<1> SUFFICES ASSUME GortexInit PROVE GortexIInv
  OBVIOUS
<1>1. NoDetail \in DetailShape /\ NoDetail.ok = FALSE
  BY DEF NoDetail, DetailShape
<1>2. Quiet \in PollShape /\ Quiet.at = "idle"
  BY <1>1 DEF Quiet, PollShape
<1>3. GortexTypeOK /\ cachedAt <= time
  BY <1>1, <1>2, GortexAssumption DEF GortexInit, GortexTypeOK
<1>4. QED
  BY <1>1, <1>2, <1>3 DEF GortexInit, GortexIInv, PollOK, AnswerTimely

\* The numbers of a state, for the arithmetic of the steps.
LEMMA GortexNumbers ==
  ASSUME GortexIInv
  PROVE  /\ time \in Nat /\ cachedAt \in Int /\ AskMax \in Nat /\ DetailTTL \in Nat \ {0}
         /\ detail.asOf \in Nat /\ detail.ok \in BOOLEAN
         /\ \A t \in Polls : poll[t] \in PollShape /\ poll[t].clock \in Nat /\ poll[t].got.asOf \in Nat
  BY GortexAssumption DEF GortexIInv, GortexTypeOK, DetailShape, PollShape

\* One poll goes on; how, is said of its record q.
LEMMA OnePoll ==
  ASSUME GortexIInv, NEW t \in Polls, NEW q \in PollShape, poll' = [poll EXCEPT ![t] = q],
         UNCHANGED <<time, daemon>>, PollOK(q)
  PROVE  /\ poll' \in [Polls -> PollShape] /\ \A u \in Polls : PollOK(poll[u])'
         /\ \A u \in Polls \ {t} : poll'[u] = poll[u]
         /\ poll'[t] = q
         /\ poll[t].at \notin {"copy", "store"} /\ Storing' = {} => Storing = {}
<1>1. poll \in [Polls -> PollShape] /\ poll'[t] = q /\ \A u \in Polls \ {t} : poll'[u] = poll[u]
  BY DEF GortexIInv, GortexTypeOK
<1>2. poll' \in [Polls -> PollShape]
  BY <1>1
<1>3. ASSUME NEW u \in Polls PROVE PollOK(poll[u])'
  <2>1. CASE u = t
    BY <1>1, <2>1 DEF PollOK
  <2>2. CASE u # t
    BY <1>1, <2>2 DEF GortexIInv, PollOK
  <2>3. QED
    BY <2>1, <2>2
<1>4. poll[t].at \notin {"copy", "store"} /\ Storing' = {} => Storing = {}
  BY <1>1 DEF Storing
<1>5. QED
  BY <1>1, <1>2, <1>3, <1>4

\* A step of one poll that neither stores nor is about to show leaves the rest as it was.
LEMMA StillTimely ==
  ASSUME GortexIInv, NEW t \in Polls, NEW q \in PollShape, poll' = [poll EXCEPT ![t] = q],
         UNCHANGED <<time, daemon, detail, cachedAt>>, PollOK(q), q.at # "show",
         poll[t].at \notin {"copy", "store"}
  PROVE  GortexIInv'
<1>1. /\ poll' \in [Polls -> PollShape] /\ \A u \in Polls : PollOK(poll[u])'
      /\ \A u \in Polls \ {t} : poll'[u] = poll[u]
      /\ poll'[t] = q
      /\ Storing' = {} => Storing = {}
  BY OnePoll
<1>2. AnswerTimely'
  BY <1>1 DEF GortexIInv, AnswerTimely
<1>3. QED
  BY <1>1, <1>2 DEF GortexIInv, GortexTypeOK

LEMMA QuietOK == Quiet \in PollShape /\ Quiet.at = "idle" /\ PollOK(Quiet)
<1>1. Quiet \in PollShape /\ Quiet.at = "idle"
  BY DEF Quiet, PollShape, NoDetail, DetailShape
<1>2. QED
  BY <1>1 DEF PollOK

LEMMA LivenessKeeps ==
  ASSUME GortexIInv, NEW t \in Polls, Liveness(t)
  PROVE  GortexIInv'
<1> DEFINE asking == [Quiet EXCEPT !.at = "refresh", !.clock = time]
<1>1. poll[t].at = "idle" /\ UNCHANGED <<time, daemon, detail, cachedAt>>
  BY DEF Liveness
<1>2. asking \in PollShape /\ asking.at = "refresh" /\ asking.clock = time
  BY QuietOK DEF GortexIInv, GortexTypeOK, PollShape
<1>3. PICK q \in PollShape : poll' = [poll EXCEPT ![t] = q] /\ PollOK(q) /\ q.at # "show"
  <2>1. PollOK(asking)
    BY <1>2, GortexAssumption DEF PollOK, GortexIInv, GortexTypeOK
  <2>2. CASE daemon = None
    BY <2>2, QuietOK DEF Liveness
  <2>3. CASE daemon # None
    BY <1>2, <2>1, <2>3 DEF Liveness
  <2>4. QED
    BY <2>2, <2>3
<1>4. QED
  BY <1>1, <1>3, StillTimely

\* A poll that finds the cache young is about to show an answer that is.
LEMMA ReuseKeeps ==
  ASSUME GortexIInv, NEW t \in Polls, Reuse(t)
  PROVE  GortexIInv'
<1> DEFINE q == [poll[t] EXCEPT !.at = "show"]
<1>1. /\ poll[t].at = "refresh" /\ UNCHANGED <<time, daemon, detail, cachedAt>>
      /\ poll' = [poll EXCEPT ![t] = q] /\ poll[t].clock - cachedAt < DetailTTL
  BY DEF Reuse, Young
<1>2. q \in PollShape /\ q.at = "show" /\ q.clock = poll[t].clock /\ q.got = poll[t].got
  BY GortexNumbers DEF PollShape
<1>3. PollOK(q)
  BY <1>1, <1>2 DEF GortexIInv, PollOK
<1> HIDE DEF q
<1>4. /\ poll' \in [Polls -> PollShape] /\ \A u \in Polls : PollOK(poll[u])'
      /\ \A u \in Polls \ {t} : poll'[u] = poll[u]
      /\ poll'[t] = q
      /\ Storing' = {} => Storing = {}
  BY <1>1, <1>2, <1>3, OnePoll
<1>5. ASSUME detail.ok, Storing = {}
      PROVE  cachedAt <= detail.asOf + AskMax /\ q.clock - detail.asOf < DetailTTL + AskMax
  <2>1. cachedAt <= detail.asOf + AskMax
    BY <1>5 DEF GortexIInv, AnswerTimely
  <2>2. time \in Nat /\ cachedAt \in Int /\ AskMax \in Nat /\ DetailTTL \in Nat /\ detail.asOf \in Nat /\ q.clock \in Nat
    BY <1>2, GortexNumbers
  <2>3. QED
    BY <1>1, <1>2, <2>1, <2>2
<1>6. AnswerTimely'
  BY <1>1, <1>4, <1>5 DEF GortexIInv, AnswerTimely
<1>7. QED
  BY <1>1, <1>4, <1>6 DEF GortexIInv, GortexTypeOK

LEMMA AskKeeps ==
  ASSUME GortexIInv, NEW t \in Polls, StartAsking(t) \/ Ask(t)
  PROVE  GortexIInv'
<1>1. UNCHANGED <<time, daemon, detail, cachedAt>> /\ poll[t].at \in {"refresh", "ask"}
  BY DEF StartAsking, Ask
<1>2. poll[t] \in PollShape /\ PollOK(poll[t])
  BY DEF GortexIInv, GortexTypeOK
<1>3. PICK q \in PollShape : poll' = [poll EXCEPT ![t] = q] /\ PollOK(q) /\ q.at # "show"
  <2>1. CASE StartAsking(t)
    <3> DEFINE q == [poll[t] EXCEPT !.at = "ask"]
    <3>1. q \in PollShape /\ q.at = "ask" /\ q.clock = poll[t].clock
      BY <1>2 DEF PollShape
    <3>2. PollOK(q)
      BY <1>1, <1>2, <3>1 DEF PollOK
    <3>3. QED
      BY <2>1, <3>1, <3>2 DEF StartAsking
  <2>2. CASE Ask(t)
    <3>1. PICK answers \in {FALSE, daemon # None} :
            poll' = [poll EXCEPT ![t].at = "stamp",
                       ![t].got = IF answers THEN [sessions |-> daemon, ok |-> TRUE, asOf |-> time] ELSE NoDetail]
      BY <2>2 DEF Ask
    <3> DEFINE got == IF answers THEN [sessions |-> daemon, ok |-> TRUE, asOf |-> time] ELSE NoDetail
               q == [poll[t] EXCEPT !.at = "stamp", !.got = got]
    <3>2. got \in DetailShape
      BY DEF GortexIInv, GortexTypeOK, DetailShape, NoDetail
    <3>3. got.ok => got.asOf = time
      BY DEF NoDetail
    <3> HIDE DEF got
    <3>4. q \in PollShape /\ q.at = "stamp" /\ q.clock = poll[t].clock /\ q.got = got
      BY <1>2, <3>2 DEF PollShape
    <3>5. PollOK(q)
      BY <1>1, <1>2, <3>3, <3>4 DEF PollOK, GortexIInv, GortexTypeOK
    <3>6. poll' = [poll EXCEPT ![t] = q]
      BY <3>1 DEF got
    <3>7. QED
      BY <3>4, <3>5, <3>6
  <2>3. QED
    BY <2>1, <2>2
<1>4. QED
  BY <1>1, <1>3, StillTimely

\* While a poll has set cached_at and not yet the cache, nothing is said of either.
LEMMA StampKeeps ==
  ASSUME GortexIInv, NEW t \in Polls, Stamp(t)
  PROVE  GortexIInv'
<1> DEFINE at == IF poll[t].got.ok THEN "store" ELSE "copy"
           q == [poll[t] EXCEPT !.at = at]
<1>1. poll[t].at = "stamp" /\ UNCHANGED <<time, daemon, detail>> /\ cachedAt' = poll[t].clock
      /\ poll' = [poll EXCEPT ![t] = q]
  BY DEF Stamp
<1>2. poll[t] \in PollShape /\ PollOK(poll[t])
  BY DEF GortexIInv, GortexTypeOK
<1>3. q \in PollShape /\ q.at \in {"copy", "store"} /\ q.clock = poll[t].clock /\ q.got = poll[t].got
  BY <1>2 DEF PollShape
<1> HIDE DEF q, at
<1>4. PollOK(q)
  BY <1>1, <1>2, <1>3 DEF PollOK
<1>5. poll' \in [Polls -> PollShape] /\ (\A u \in Polls : PollOK(poll[u])') /\ poll'[t] = q
  BY <1>1, <1>3, <1>4, OnePoll
<1>6. cachedAt' \in Int /\ cachedAt' <= time
  BY <1>1, <1>2 DEF PollOK, PollShape
<1>7. AnswerTimely'
  BY <1>3, <1>5 DEF AnswerTimely, Storing
<1>8. QED
  BY <1>1, <1>5, <1>6, <1>7 DEF GortexIInv, GortexTypeOK

LEMMA CopyKeeps ==
  ASSUME GortexIInv, NEW t \in Polls, Copy(t)
  PROVE  GortexIInv'
<1> DEFINE got == [detail EXCEPT !.ok = FALSE]
           q == [poll[t] EXCEPT !.at = "store", !.got = got]
<1>1. poll[t].at = "copy" /\ UNCHANGED <<time, daemon, detail, cachedAt>> /\ poll' = [poll EXCEPT ![t] = q]
  BY DEF Copy
<1>2. poll[t] \in PollShape /\ PollOK(poll[t]) /\ detail \in DetailShape
  BY DEF GortexIInv, GortexTypeOK
<1>3. got \in DetailShape /\ got.ok = FALSE
  BY <1>2 DEF DetailShape
<1> HIDE DEF got
<1>4. q \in PollShape /\ q.at = "store" /\ q.clock = poll[t].clock /\ q.got = got
  BY <1>2, <1>3 DEF PollShape
<1> HIDE DEF q
<1>5. PollOK(q)
  BY <1>1, <1>2, <1>3, <1>4 DEF PollOK
<1>6. poll' \in [Polls -> PollShape] /\ (\A u \in Polls : PollOK(poll[u])') /\ poll'[t] = q
  BY <1>1, <1>4, <1>5, OnePoll
<1>7. AnswerTimely'
  BY <1>4, <1>6 DEF AnswerTimely, Storing
<1>8. QED
  BY <1>1, <1>6, <1>7 DEF GortexIInv, GortexTypeOK

\* What is stored as confirmed was counted during the poll that stores it.
LEMMA StoreKeeps ==
  ASSUME GortexIInv, NEW t \in Polls, StoreDetail(t)
  PROVE  GortexIInv'
<1> DEFINE q == [poll[t] EXCEPT !.at = "show"]
<1>1. /\ poll[t].at = "store" /\ UNCHANGED <<time, daemon, cachedAt>> /\ poll' = [poll EXCEPT ![t] = q]
      /\ detail' = poll[t].got
  BY DEF StoreDetail
<1>2. poll[t] \in PollShape /\ PollOK(poll[t]) /\ poll[t].got \in DetailShape
  BY DEF GortexIInv, GortexTypeOK, PollShape
<1>3. q \in PollShape /\ q.at = "show" /\ q.clock = poll[t].clock /\ q.got = poll[t].got
  BY <1>2 DEF PollShape
<1> HIDE DEF q
<1>4. PollOK(q)
  BY <1>1, <1>2, <1>3 DEF PollOK
<1>5. /\ poll' \in [Polls -> PollShape] /\ \A u \in Polls : PollOK(poll[u])'
  BY <1>1, <1>3, <1>4, OnePoll
<1>6. ASSUME detail'.ok
      PROVE  /\ cachedAt' <= detail'.asOf + AskMax
             /\ \A u \in Polls : poll'[u].at = "show" => poll'[u].clock - detail'.asOf < DetailTTL + AskMax
  <2>1. time \in Nat /\ cachedAt \in Int /\ AskMax \in Nat /\ DetailTTL \in Nat \ {0} /\ cachedAt <= time
        /\ poll[t].got.asOf \in Nat /\ poll[t].clock \in Nat
    BY GortexNumbers DEF GortexIInv
  <2>2. poll[t].clock <= poll[t].got.asOf /\ time <= poll[t].clock + AskMax
    BY <1>1, <1>2, <1>6 DEF PollOK
  <2>3. time <= detail'.asOf + AskMax /\ detail'.asOf \in Nat
    BY <1>1, <2>1, <2>2
  <2>4. cachedAt' <= detail'.asOf + AskMax
    BY <1>1, <2>1, <2>3
  <2>5. ASSUME NEW u \in Polls, poll'[u].at = "show"
        PROVE  poll'[u].clock - detail'.asOf < DetailTTL + AskMax
    <3>1. poll'[u].clock <= time /\ poll'[u].clock \in Nat
      BY <1>1, <1>5, <2>5 DEF PollOK, PollShape
    <3>2. QED
      BY <2>1, <2>3, <3>1
  <2>6. QED
    BY <2>4, <2>5
<1>7. AnswerTimely'
  BY <1>6 DEF AnswerTimely
<1>8. QED
  BY <1>1, <1>2, <1>5, <1>7 DEF GortexIInv, GortexTypeOK

LEMMA ShowKeeps ==
  ASSUME GortexIInv, NEW t \in Polls, ShowDetail(t)
  PROVE  GortexIInv' /\ (detail.ok /\ Storing = {} => time - detail.asOf < DetailTTL + 2 * AskMax)
<1>1. poll[t].at = "show" /\ UNCHANGED <<time, daemon, detail, cachedAt>> /\ poll' = [poll EXCEPT ![t] = Quiet]
  BY DEF ShowDetail
<1>2. GortexIInv'
  BY <1>1, QuietOK, StillTimely
<1>3. ASSUME detail.ok, Storing = {} PROVE time - detail.asOf < DetailTTL + 2 * AskMax
  <2>1. poll[t].clock - detail.asOf < DetailTTL + AskMax /\ time <= poll[t].clock + AskMax
    BY <1>1, <1>3 DEF GortexIInv, AnswerTimely, PollOK
  <2>2. time \in Nat /\ detail.asOf \in Nat /\ poll[t].clock \in Nat /\ DetailTTL \in Nat /\ AskMax \in Nat
    BY GortexNumbers
  <2>3. QED
    BY <2>1, <2>2
<1>4. QED
  BY <1>2, <1>3

LEMMA TimeKeeps == GortexIInv /\ (DaemonChanges \/ GortexTick) => GortexIInv' /\ UNCHANGED poll
<1> SUFFICES ASSUME GortexIInv, DaemonChanges \/ GortexTick PROVE GortexIInv' /\ UNCHANGED poll
  OBVIOUS
<1>1. UNCHANGED <<detail, cachedAt, poll>> /\ AnswerTimely'
  BY DEF DaemonChanges, GortexTick, GortexIInv, AnswerTimely, Storing
<1>2. CASE DaemonChanges
  <2>1. UNCHANGED time /\ daemon' \in Sessions \cup {None}
    BY <1>2 DEF DaemonChanges
  <2>2. \A u \in Polls : PollOK(poll[u])'
    BY <1>1, <2>1 DEF GortexIInv, PollOK
  <2>3. QED
    BY <1>1, <2>1, <2>2 DEF GortexIInv, GortexTypeOK
<1>3. CASE GortexTick
  <2>1. /\ time' = time + 1 /\ UNCHANGED daemon
        /\ \A u \in Polls : poll[u].at # "idle" => time - poll[u].clock < AskMax
    BY <1>3 DEF GortexTick
  <2>2. time \in Nat /\ cachedAt \in Int /\ AskMax \in Nat
    BY GortexNumbers
  <2>3. ASSUME NEW u \in Polls PROVE PollOK(poll[u])'
    <3>1. poll[u] \in PollShape /\ PollOK(poll[u]) /\ poll[u].clock \in Nat /\ poll[u].got.asOf \in Nat
      BY GortexNumbers DEF GortexIInv
    <3>2. poll[u].at # "idle" => poll[u].clock <= time + 1 /\ time + 1 <= poll[u].clock + AskMax
      BY <2>1, <2>2, <3>1 DEF PollOK
    <3>3. poll[u].at \in {"stamp", "store"} /\ poll[u].got.ok =>
            poll[u].clock <= poll[u].got.asOf /\ poll[u].got.asOf <= time + 1
      BY <2>2, <3>1 DEF PollOK
    <3>4. QED
      BY <1>1, <2>1, <3>2, <3>3 DEF PollOK
  <2>4. QED
    BY <1>1, <2>1, <2>2, <2>3 DEF GortexIInv, GortexTypeOK
<1>4. QED
  BY <1>1, <1>2, <1>3

LEMMA StepGortex ==
  ASSUME GortexIInv, [GortexNext]_gortexVars
  PROVE  /\ GortexIInv'
         /\ \A t \in Polls : poll[t].at = "show" /\ poll'[t].at = "idle" /\ detail.ok /\ Storing = {}
              => time - detail.asOf < DetailTTL + 2 * AskMax
<1>1. CASE UNCHANGED gortexVars
  <2>1. UNCHANGED <<time, daemon, detail, cachedAt, poll>>
    BY <1>1 DEF gortexVars
  <2>2. QED
    BY <2>1 DEF GortexIInv, GortexTypeOK, AnswerTimely, PollOK, Storing
<1>2. CASE DaemonChanges \/ GortexTick
  BY <1>2, TimeKeeps
<1>3. ASSUME NEW s \in Polls, ShowDetail(s)
      PROVE  /\ GortexIInv'
             /\ \A t \in Polls : poll[t].at = "show" /\ poll'[t].at = "idle" /\ detail.ok /\ Storing = {}
                  => time - detail.asOf < DetailTTL + 2 * AskMax
  BY <1>3, ShowKeeps
<1>4. ASSUME NEW s \in Polls,
             Liveness(s) \/ Reuse(s) \/ StartAsking(s) \/ Ask(s) \/ Stamp(s) \/ Copy(s) \/ StoreDetail(s)
      PROVE  GortexIInv' /\ \A t \in Polls : ~(poll[t].at = "show" /\ poll'[t].at = "idle")
  <2>1. poll \in [Polls -> PollShape]
    BY DEF GortexIInv, GortexTypeOK
  <2>2. poll[s].at # "show" /\ \A t \in Polls \ {s} : poll'[t] = poll[t]
    BY <1>4, <2>1 DEF Liveness, Reuse, StartAsking, Ask, Stamp, Copy, StoreDetail
  <2>3. GortexIInv'
    BY <1>4, LivenessKeeps, ReuseKeeps, AskKeeps, StampKeeps, CopyKeeps, StoreKeeps
  <2>4. QED
    BY <2>2, <2>3
<1>5. QED
  BY <1>1, <1>2, <1>3, <1>4 DEF GortexNext

(* What /monitor says of the gortex daemon, for any number of tabs that poll it at once and
   any lifetimes: sessions called confirmed were counted less than a lifetime and two polls
   ago, whichever polls fail and put an older copy of the cache back over a newer answer, but
   for the moment between a poll's setting cached_at and the cache
   (monitor.py _refresh_gortex_detail_cache). *)
THEOREM MonitorIsHonest == GortexSpec => ConfirmedIsRecent
<1>1. GortexSpec => []GortexIInv
  <2>1. GortexIInv /\ [GortexNext]_gortexVars => GortexIInv'
    BY StepGortex
  <2>2. QED
    BY <2>1, InitGortexIInv, PTL DEF GortexSpec
<1>2. GortexIInv /\ [GortexNext]_gortexVars =>
        [\A t \in Polls : poll[t].at = "show" /\ poll'[t].at = "idle" /\ detail.ok /\ Storing = {}
           => time - detail.asOf < DetailTTL + 2 * AskMax]_poll
  BY StepGortex
<1>3. QED
  BY <1>1, <1>2, PTL DEF GortexSpec, ConfirmedIsRecent

----------------------------------------------------------------------------
(* The types of the shared files and tables, for any number of writers *)

\* Among the inodes there is one that no name and no open file has, when a writer is
\* about to make a file.
LEMMA FreeInode ==
  ASSUME TypeOK, NEW w \in Writers, pc[w] = "open", NEW n \in {"target", "tmp"}, name[n] = None
  PROVE  \E i \in Inodes : i \notin InUse
<1>1. /\ IsFiniteSet(Writers) /\ Cardinality(Writers) \in Nat /\ fd[w] = None
      /\ fd \in [Writers -> Inodes \cup {None}] /\ name \in [{"target", "tmp"} -> Inodes \cup {None}]
  BY RegistryAssumption, FS_CardinalityType DEF TypeOK
<1>2. PICK m \in {"target", "tmp"} : InUse \subseteq {name[m]} \cup {fd[v] : v \in Writers}
  <2>1. InUse = {name["target"], name["tmp"]} \cup {fd[v] : v \in Writers}
    BY <1>1 DEF InUse
  <2>2. None \in {fd[v] : v \in Writers}
    BY <1>1
  <2>3. CASE n = "target"
    BY <2>1, <2>2, <2>3
  <2>4. CASE n = "tmp"
    BY <2>1, <2>2, <2>4
  <2> QED
    BY <2>3, <2>4
<1> DEFINE opened == {fd[v] : v \in Writers}
           used == opened \cup {name[m]}
<1>3. IsFiniteSet(opened) /\ Cardinality(opened) <= Cardinality(Writers) /\ Cardinality(opened) \in Nat
  <2>1. fd \in Surjection(Writers, opened)
    BY <1>1 DEF Surjection
  <2> HIDE DEF opened
  <2> QED
    BY <1>1, <2>1, FS_Surjection, FS_CardinalityType
<1>4. IsFiniteSet(used) /\ Cardinality(used) <= Cardinality(Writers) + 1
  <2> HIDE DEF opened
  <2> QED
    <3>1. IsFiniteSet(used) /\ Cardinality(used) = (IF name[m] \in opened THEN Cardinality(opened) ELSE Cardinality(opened) + 1)
      BY <1>3, FS_AddElement
    <3> HIDE DEF used
    <3> QED
      BY <1>1, <1>3, <3>1
<1>5. IsFiniteSet(Inodes) /\ Cardinality(Inodes) = Cardinality(Writers) + 2
  BY <1>1, FS_Interval DEF Inodes
<1>6. ~(Inodes \subseteq used)
  <2> HIDE DEF used
  <2> QED
    BY <1>1, <1>4, <1>5, FS_Subset, FS_CardinalityType
<1> QED
  BY <1>2, <1>6

LEMMA RegistryTypeKept == TypeOK /\ [Next]_vars => TypeOK'
<1> SUFFICES ASSUME TypeOK, [Next]_vars PROVE TypeOK'
  OBVIOUS
<1> DEFINE Places == {"idle", "snapshot", "open", "write", "replace"}
<1>1. /\ state \in [Calls -> {"new", "running", "over"}] /\ active \subseteq Calls /\ pc \in [Writers -> Places]
      /\ payload \in [Writers -> SUBSET Calls] /\ fd \in [Writers -> Inodes \cup {None}]
      /\ name \in [{"target", "tmp"} -> Inodes \cup {None}] /\ disk \in [Inodes -> Texts]
      /\ \A w \in Writers : pc[w] = "write" <=> fd[w] # None
      /\ restarts \in 0..Restarts
  BY DEF TypeOK
<1>2. ASSUME NEW w \in Writers, NEW c \in Calls, Register(w, c) \/ Drop(w, c) PROVE TypeOK'
  <2>1. /\ state' \in [Calls -> {"new", "running", "over"}] /\ active' \subseteq Calls
        /\ pc[w] = "idle" /\ pc' = [pc EXCEPT ![w] = "snapshot"] /\ UNCHANGED <<payload, fd, name, disk, restarts>>
    BY <1>1, <1>2 DEF Register, Drop, GoTo, files
  <2> QED
    BY <1>1, <2>1 DEF TypeOK
<1>3. ASSUME NEW c \in Calls, Abandon(c) PROVE TypeOK'
  BY <1>1, <1>3 DEF Abandon, files, TypeOK
<1>4. ASSUME NEW w \in Writers, Snapshot(w) PROVE TypeOK'
  <2>1. /\ pc[w] = "snapshot" /\ pc' = [pc EXCEPT ![w] = "open"] /\ payload' = [payload EXCEPT ![w] = active]
        /\ UNCHANGED <<state, active, fd, name, disk, restarts>>
    BY <1>4 DEF Snapshot, GoTo, files
  <2> QED
    BY <1>1, <2>1 DEF TypeOK
<1>5. ASSUME NEW w \in Writers, OpenTmp(w) PROVE TypeOK'
  <2>1. PICK f \in Inodes : /\ name' = [name EXCEPT !["tmp"] = f] /\ disk' = [disk EXCEPT ![f] = Empty]
                            /\ fd' = [fd EXCEPT ![w] = f]
    <3> DEFINE f == IF name["tmp"] # None THEN name["tmp"] ELSE CHOOSE i \in Inodes : i \notin InUse
    <3>1. f \in Inodes
      <4>1. CASE name["tmp"] # None
        BY <4>1, <1>1
      <4>2. CASE name["tmp"] = None
        <5>1. \E i \in Inodes : i \notin InUse
          BY <4>2, <1>5, FreeInode DEF OpenTmp, Truncate
        <5> QED
          BY <4>2, <5>1
      <4> QED
        BY <4>1, <4>2
    <3> QED
      BY <1>5, <3>1 DEF OpenTmp, Truncate
  <2>2. pc[w] = "open" /\ pc' = [pc EXCEPT ![w] = "write"] /\ UNCHANGED <<state, active, payload, restarts>>
    BY <1>5 DEF OpenTmp, Truncate, GoTo
  <2>3. f # None /\ Empty \in Texts
    BY RegistryConstants
  <2> QED
    BY <1>1, <2>1, <2>2, <2>3 DEF TypeOK
<1>6. ASSUME NEW w \in Writers, Write(w) PROVE TypeOK'
  <2>1. /\ pc[w] = "write" /\ pc' = [pc EXCEPT ![w] = "replace"] /\ fd' = [fd EXCEPT ![w] = None]
        /\ UNCHANGED <<state, active, payload, name, restarts>>
    BY <1>6 DEF Write, GoTo
  <2>2. PICK x : disk' = [disk EXCEPT ![fd[w]] = x] /\ x \in {Json(payload[w]), [disk[fd[w]] EXCEPT !.form = "mixed"]}
    BY <1>6 DEF Write
  <2>3. x \in Texts
    <3>1. disk[fd[w]] \in Texts
      BY <1>1, <2>1
    <3>2. [disk[fd[w]] EXCEPT !.form = "mixed"] \in Texts
      BY <3>1 DEF Texts
    <3>3. payload[w] \in SUBSET Calls
      BY <1>1
    <3> QED
      BY <2>2, <3>2, <3>3, RegistryConstants
  <2> QED
    BY <1>1, <2>1, <2>2, <2>3 DEF TypeOK
<1>7. ASSUME NEW w \in Writers, Replace(w) PROVE TypeOK'
  <2>1. /\ pc[w] = "replace" /\ pc' = [pc EXCEPT ![w] = "idle"]
        /\ UNCHANGED <<state, active, payload, fd, disk, restarts>>
    BY <1>7 DEF Replace, GoTo
  <2>2. name' \in [{"target", "tmp"} -> Inodes \cup {None}]
    BY <1>1, <1>7 DEF Replace
  <2> QED
    BY <1>1, <2>1, <2>2 DEF TypeOK
<1>8. CASE Restart
  <2>1. pc' \in [Writers -> Places] /\ \A w \in Writers : pc'[w] # "write"
    BY <1>8 DEF Restart
  <2>2. /\ state' \in [Calls -> {"new", "running", "over"}] /\ active' = {}
        /\ payload' \in [Writers -> SUBSET Calls] /\ fd' = [w \in Writers |-> None]
        /\ restarts' \in 0..Restarts /\ UNCHANGED <<name, disk>>
    BY <1>1, <1>8, RegistryAssumption DEF Restart, files
  <2> QED
    BY <1>1, <2>1, <2>2 DEF TypeOK
<1>9. CASE UNCHANGED vars
  BY <1>1, <1>9 DEF vars, TypeOK
<1> QED
  BY <1>2, <1>3, <1>4, <1>5, <1>6, <1>7, <1>8, <1>9 DEF Next, Flush

LEMMA InitTypeOK == Init => TypeOK
<1> SUFFICES ASSUME Init PROVE TypeOK
  OBVIOUS
<1>1. pc \in [Writers -> {"idle", "snapshot", "open", "write", "replace"}] /\ \A w \in Writers : pc[w] # "write"
  BY DEF Init, Booting
<1> QED
  BY <1>1, RegistryConstants, RegistryAssumption DEF Init, TypeOK

(* In whatever order threads flush the registry, hooks and the benchmark's writer use the
   ledger, and processes die: an inode is free whenever a file is made, whoever writes has it
   open, and the write lock of the ledger is held exactly by the process whose transaction
   is open (route_by_size.py _flush_active, _record). *)
THEOREM StoresAreWellFormed == StoresSpec => []StoresTypeOK
<1>1. StoresInit => TypeOK /\ LedgerIInv
  BY InitTypeOK, InitLedgerIInv DEF StoresInit
<1>2. ASSUME [StoresNext]_AllVars PROVE [Next]_vars /\ [LedgerNext]_ledgerVars
  BY <1>2 DEF StoresNext, AllVars
<1>3. TypeOK /\ LedgerIInv /\ [StoresNext]_AllVars => TypeOK' /\ LedgerIInv'
  BY <1>2, RegistryTypeKept, NextLedgerIInv
<1>4. TypeOK /\ LedgerIInv => StoresTypeOK
  BY DEF StoresTypeOK, LedgerIInv
<1> QED
  BY <1>1, <1>3, <1>4, PTL DEF StoresSpec
================================================================================
