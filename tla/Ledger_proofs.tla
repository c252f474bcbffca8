----------------------------- MODULE Ledger_proofs -----------------------------
(***************************************************************************)
(* Proofs about Ledger, for any turns, tasks, tabs and windows.            *)
(***************************************************************************)
EXTENDS Ledger, SequenceTheorems, FiniteSetTheorems, TLAPS

Records == [turn : Turns, ts : 0..MaxTime]

\* What has been inserted, committed or not, in the order of the ids.
Booked == rows \o open
HasRow(t) == \E i \in 1..Len(Booked) : Booked[i].turn = t
InHook(t) == turn[t] \in {"dropped", "inserted"}

Stored ==
    /\ rows \in Seq(Records) /\ open \in Seq(Records)
    /\ writer \in {None, "proxy", "compare"}

\* One row for each turn at most, and one exactly for those whose row was taken.
OneRowEach == \A i, j \in 1..Len(Booked) : Booked[i].turn = Booked[j].turn => i = j
TakenHaveRows == \A t \in Turns : HasRow(t) <=> turn[t] \in {"inserted", "over"} /\ t \notin refused

\* The row of a turn that is inserted is not committed yet: a restart takes it back.
InsertedIsOpen == \A t \in Turns : turn[t] = "inserted" => \E i \in 1..Len(open) : open[i].turn = t
RefusedAreOver == \A t \in refused : turn[t] = "over"
OneHook == \A t, u \in Turns : InHook(t) /\ InHook(u) => t = u

LedgerIInv ==
    /\ LedgerTypeOK /\ Stored
    /\ OneRowEach /\ TakenHaveRows /\ InsertedIsOpen /\ RefusedAreOver /\ OneHook

----------------------------------------------------------------------------
(* The operators of the model *)

LEMMA LedgerConstants ==
  /\ MaxTime \in Nat /\ None # "proxy" /\ None # "compare" /\ Nameless \subseteq Turns
  /\ None \notin Turns /\ PageMax \in Nat /\ RecentLimit \in Nat \ {0}
  /\ Windows \in Seq(Nat) /\ Len(Windows) = 3
  BY LedgerAssumption, MaxTimeAssumption

LEMMA LedgerFacts ==
  ASSUME LedgerIInv
  PROVE  /\ rows \in Seq(Records) /\ open \in Seq(Records) /\ Booked \in Seq(Records)
         /\ Len(rows) \in Nat /\ Len(open) \in Nat
         /\ Len(Booked) = Len(rows) + Len(open)
         /\ \A i \in 1..Len(rows) : Booked[i] = rows[i]
         /\ \A i \in 1..Len(open) : Booked[Len(rows) + i] = open[i]
         /\ DOMAIN rows = 1..Len(rows) /\ DOMAIN open = 1..Len(open)
         /\ seconds \in 0..MaxTime
         /\ turn \in [Turns -> {"new", "running", "dropped", "inserted", "over", "failed", "died"}]
         /\ inflight \subseteq Turns /\ refused \subseteq Turns
         /\ writer \in {None, "proxy", "compare"}
         /\ writer = "proxy" <=> open # <<>>
         /\ writer = "compare" <=> compares = "inserted"
<1>1. rows \in Seq(Records) /\ open \in Seq(Records)
  BY DEF LedgerIInv, Stored
<1>2. Len(rows) \in Nat /\ Len(open) \in Nat /\ DOMAIN rows = 1..Len(rows) /\ DOMAIN open = 1..Len(open)
  BY <1>1
<1>3. /\ Booked \in Seq(Records) /\ Len(Booked) = Len(rows) + Len(open)
      /\ \A i \in 1..Len(rows) + Len(open) :
            Booked[i] = IF i <= Len(rows) THEN rows[i] ELSE open[i - Len(rows)]
  BY <1>1, ConcatProperties DEF Booked
<1>4. ASSUME NEW i \in 1..Len(rows) PROVE Booked[i] = rows[i]
  BY <1>2, <1>3
<1>5. ASSUME NEW i \in 1..Len(open) PROVE Booked[Len(rows) + i] = open[i]
  BY <1>2, <1>3
<1>6. QED
  BY <1>1, <1>2, <1>3, <1>4, <1>5 DEF LedgerIInv, LedgerTypeOK, Stored

\* A turn has a row where it is committed or where it is open.
LEMMA WhereRowsAre ==
  ASSUME LedgerIInv, NEW t
  PROVE  HasRow(t) <=> \/ \E i \in 1..Len(rows) : rows[i].turn = t
                       \/ \E i \in 1..Len(open) : open[i].turn = t
<1>1. ASSUME NEW i \in 1..Len(Booked), Booked[i].turn = t
      PROVE  \/ \E j \in 1..Len(rows) : rows[j].turn = t
             \/ \E j \in 1..Len(open) : open[j].turn = t
  <2>1. CASE i <= Len(rows)
    BY <1>1, <2>1, LedgerFacts
  <2>2. CASE i > Len(rows)
    <3>1. i - Len(rows) \in 1..Len(open) /\ Len(rows) + (i - Len(rows)) = i
      BY <2>2, LedgerFacts
    <3>2. open[i - Len(rows)] = Booked[i]
      BY <3>1, LedgerFacts
    <3>3. QED
      BY <1>1, <3>1, <3>2
  <2>3. QED
    BY <2>1, <2>2, LedgerFacts
<1>2. ASSUME NEW i \in 1..Len(rows), rows[i].turn = t PROVE HasRow(t)
  <2>1. i \in 1..Len(Booked)
    BY LedgerFacts
  <2>2. QED
    BY <1>2, <2>1, LedgerFacts DEF HasRow
<1>3. ASSUME NEW i \in 1..Len(open), open[i].turn = t PROVE HasRow(t)
  <2>1. Len(rows) + i \in 1..Len(Booked)
    BY LedgerFacts
  <2>2. QED
    BY <1>3, <2>1, LedgerFacts DEF HasRow
<1>4. QED
  BY <1>1, <1>2, <1>3 DEF HasRow

\* No turn has a committed row and an open one.
LEMMA CommittedOrOpen ==
  ASSUME LedgerIInv, NEW i \in 1..Len(rows), NEW j \in 1..Len(open)
  PROVE  rows[i].turn # open[j].turn
<1>1. /\ i \in 1..Len(Booked) /\ Len(rows) + j \in 1..Len(Booked) /\ i # Len(rows) + j
      /\ Booked[i] = rows[i] /\ Booked[Len(rows) + j] = open[j]
  BY LedgerFacts
<1>2. QED
  BY <1>1 DEF LedgerIInv, OneRowEach

----------------------------------------------------------------------------
(* The invariant *)

LEMMA InitLedgerIInv == LedgerInit => LedgerIInv
<1> SUFFICES ASSUME LedgerInit PROVE LedgerIInv
  OBVIOUS
<1>1. rows = <<>> /\ open = <<>> /\ Booked = <<>> /\ Len(Booked) = 0
  BY DEF LedgerInit, Booked
<1>2. LedgerTypeOK /\ Stored
  BY <1>1, LedgerConstants DEF LedgerInit, LedgerTypeOK, Stored
<1>3. QED
  BY <1>1, <1>2 DEF LedgerInit, LedgerIInv, OneRowEach, TakenHaveRows, HasRow, InsertedIsOpen, RefusedAreOver,
     OneHook, InHook

\* A turn begins, fails, or leaves the mirror: no row changes.
LEMMA NoRowStep ==
  ASSUME LedgerIInv, NEW t \in Turns, NEW at \in {"running", "dropped", "failed"},
         turn[t] \in {"new", "running"}, turn' = [turn EXCEPT ![t] = at],
         at = "dropped" => LoopFree, inflight' \subseteq Turns,
         UNCHANGED <<seconds, rows, open, writer, compares, refused>>
  PROVE  LedgerIInv'
<1>1. /\ turn \in [Turns -> {"new", "running", "dropped", "inserted", "over", "failed", "died"}]
      /\ refused \subseteq Turns
  BY LedgerFacts
<1>2. turn' \in [Turns -> {"new", "running", "dropped", "inserted", "over", "failed", "died"}]
      /\ turn'[t] = at /\ \A u \in Turns \ {t} : turn'[u] = turn[u]
  BY <1>1
<1>3. LedgerTypeOK' /\ Stored'
  BY <1>2 DEF LedgerIInv, LedgerTypeOK, Stored
<1>4. Booked' = Booked
  BY DEF Booked
<1>5. \A u \in Turns : turn'[u] \in {"inserted", "over"} <=> turn[u] \in {"inserted", "over"}
  BY <1>2
<1>6. OneRowEach' /\ TakenHaveRows'
  BY <1>4, <1>5 DEF LedgerIInv, OneRowEach, TakenHaveRows, HasRow
<1>7. InsertedIsOpen' /\ RefusedAreOver'
  BY <1>1, <1>2 DEF LedgerIInv, InsertedIsOpen, RefusedAreOver
<1>8. OneHook'
  <2>1. CASE at = "dropped"
    BY <1>2, <2>1 DEF LoopFree, OneHook, InHook
  <2>2. CASE at # "dropped"
    BY <1>2, <2>2 DEF LedgerIInv, OneHook, InHook
  <2>3. QED
    BY <2>1, <2>2
<1>9. QED
  BY <1>3, <1>6, <1>7, <1>8 DEF LedgerIInv

LEMMA InsertStep ==
  ASSUME LedgerIInv, NEW t \in Turns, RecordInsert(t)
  PROVE  LedgerIInv' /\ Booked' = Append(Booked, Row(t))
<1>1. /\ turn[t] = "dropped" /\ writer \in {None, "proxy"} /\ turn' = [turn EXCEPT ![t] = "inserted"]
      /\ writer' = "proxy" /\ open' = Append(open, Row(t))
      /\ UNCHANGED <<seconds, inflight, rows, compares, refused, page>>
  BY DEF RecordInsert, GoesTo
<1>2. Row(t) \in Records /\ Row(t).turn = t
  BY LedgerFacts DEF Row, Records
<1>3. /\ turn \in [Turns -> {"new", "running", "dropped", "inserted", "over", "failed", "died"}]
      /\ refused \subseteq Turns /\ rows \in Seq(Records) /\ open \in Seq(Records) /\ Booked \in Seq(Records)
  BY LedgerFacts
<1>4. turn' \in [Turns -> {"new", "running", "dropped", "inserted", "over", "failed", "died"}]
      /\ turn'[t] = "inserted" /\ \A u \in Turns \ {t} : turn'[u] = turn[u]
  BY <1>1, <1>3
<1>5. /\ open' \in Seq(Records) /\ open' # <<>> /\ Len(open') = Len(open) + 1
      /\ \A i \in 1..Len(open) : open'[i] = open[i]
      /\ open'[Len(open) + 1] = Row(t)
  BY <1>1, <1>2, <1>3, AppendProperties
<1>6. LedgerTypeOK' /\ Stored'
  <2>1. /\ compares # "inserted" /\ writer' # "compare"
    BY <1>1, LedgerFacts, LedgerConstants
  <2>2. \A i \in DOMAIN open' : open'[i] \in Records
    BY <1>5
  <2>3. \A i \in DOMAIN rows : rows[i] \in Records
    BY <1>3
  <2>4. QED
    BY <1>1, <1>3, <1>4, <1>5, <2>1, <2>2, <2>3 DEF LedgerIInv, LedgerTypeOK, Stored, Records
<1>7. Booked' = Append(Booked, Row(t))
  <2>1. Booked' = rows \o (open \o <<Row(t)>>)
    BY <1>1, <1>2, <1>3, AppendIsConcat DEF Booked
  <2>2. <<Row(t)>> \in Seq(Records)
    BY <1>2
  <2>3. Booked' = Booked \o <<Row(t)>>
    BY <1>3, <2>1, <2>2, ConcatAssociative DEF Booked
  <2>4. QED
    BY <1>2, <1>3, <2>3, AppendIsConcat
<1>8. /\ Len(Booked') = Len(Booked) + 1 /\ Len(Booked) \in Nat
      /\ \A i \in 1..Len(Booked) : Booked'[i] = Booked[i]
      /\ Booked'[Len(Booked) + 1] = Row(t)
  BY <1>2, <1>3, <1>7, AppendProperties
<1>9. ~HasRow(t) /\ t \notin refused
  BY <1>1, LedgerFacts DEF LedgerIInv, TakenHaveRows, RefusedAreOver
<1>10. \A u : HasRow(u)' <=> HasRow(u) \/ u = t
  <2>1. 1..Len(Booked') = 1..Len(Booked) \cup {Len(Booked) + 1}
    BY <1>8
  <2>2. QED
    BY <1>2, <1>8, <2>1 DEF HasRow
<1>11. OneRowEach'
  <2>1. 1..Len(Booked') = 1..Len(Booked) \cup {Len(Booked) + 1}
    BY <1>8
  <2>2. \A i \in 1..Len(Booked) : Booked[i].turn # t
    BY <1>9 DEF HasRow
  <2>3. QED
    BY <1>2, <1>8, <2>1, <2>2 DEF LedgerIInv, OneRowEach
<1>12. TakenHaveRows'
  BY <1>1, <1>4, <1>9, <1>10 DEF LedgerIInv, TakenHaveRows
<1>13. InsertedIsOpen'
  <2>1. \A u \in Turns \ {t} : turn[u] # "inserted"
    BY <1>1 DEF LedgerIInv, OneHook, InHook
  <2>2. Len(open) + 1 \in 1..Len(open') /\ open'[Len(open) + 1].turn = t
    BY <1>2, <1>5, LedgerFacts
  <2>3. QED
    BY <1>4, <2>1, <2>2 DEF InsertedIsOpen
<1>14. RefusedAreOver' /\ OneHook'
  BY <1>1, <1>3, <1>4, <1>9 DEF LedgerIInv, RefusedAreOver, OneHook, InHook
<1>15. QED
  BY <1>6, <1>7, <1>11, <1>12, <1>13, <1>14 DEF LedgerIInv

LEMMA LockedOutStep ==
  ASSUME LedgerIInv, NEW t \in Turns, RecordLockedOut(t)
  PROVE  LedgerIInv'
<1>1. /\ turn[t] = "dropped" /\ turn' = [turn EXCEPT ![t] = "over"] /\ refused' = refused \cup {t}
      /\ UNCHANGED <<seconds, inflight, rows, open, writer, compares, page>>
  BY DEF RecordLockedOut, GoesTo
<1>2. /\ turn \in [Turns -> {"new", "running", "dropped", "inserted", "over", "failed", "died"}]
      /\ refused \subseteq Turns
  BY LedgerFacts
<1>3. turn' \in [Turns -> {"new", "running", "dropped", "inserted", "over", "failed", "died"}]
      /\ turn'[t] = "over" /\ \A u \in Turns \ {t} : turn'[u] = turn[u]
  BY <1>1, <1>2
<1>4. LedgerTypeOK' /\ Stored'
  BY <1>1, <1>3 DEF LedgerIInv, LedgerTypeOK, Stored
<1>5. Booked' = Booked /\ ~HasRow(t)
  BY <1>1 DEF Booked, LedgerIInv, TakenHaveRows
<1>6. OneRowEach' /\ TakenHaveRows'
  BY <1>1, <1>3, <1>5 DEF LedgerIInv, OneRowEach, TakenHaveRows, HasRow
<1>7. InsertedIsOpen' /\ RefusedAreOver' /\ OneHook'
  BY <1>1, <1>2, <1>3 DEF LedgerIInv, InsertedIsOpen, RefusedAreOver, OneHook, InHook
<1>8. QED
  BY <1>4, <1>6, <1>7 DEF LedgerIInv

\* A commit, and one that raises: the rows are the same, and the hook is over.
LEMMA CommitSteps ==
  ASSUME LedgerIInv, NEW t \in Turns
  PROVE  /\ RecordCommit(t) => LedgerIInv' /\ Booked' = Booked
         /\ RecordCommitBusy(t) => LedgerIInv'
<1>1. /\ turn \in [Turns -> {"new", "running", "dropped", "inserted", "over", "failed", "died"}]
      /\ refused \subseteq Turns /\ rows \in Seq(Records) /\ open \in Seq(Records) /\ Booked \in Seq(Records)
  BY LedgerFacts
<1>2. ASSUME turn[t] = "inserted", turn' = [turn EXCEPT ![t] = "over"], Booked' = Booked,
             UNCHANGED <<seconds, inflight, compares, refused, page>>, LedgerTypeOK', Stored'
      PROVE  LedgerIInv'
  <2>1. turn'[t] = "over" /\ \A u \in Turns \ {t} : turn'[u] = turn[u] /\ turn[u] \notin {"dropped", "inserted"}
    BY <1>1, <1>2 DEF LedgerIInv, OneHook, InHook
  <2>2. OneRowEach' /\ TakenHaveRows'
    BY <1>2, <2>1 DEF LedgerIInv, OneRowEach, TakenHaveRows, HasRow
  <2>3. InsertedIsOpen' /\ RefusedAreOver' /\ OneHook'
    BY <1>1, <1>2, <2>1 DEF LedgerIInv, InsertedIsOpen, RefusedAreOver, OneHook, InHook
  <2>4. QED
    BY <1>2, <2>2, <2>3 DEF LedgerIInv
<1>3. ASSUME RecordCommit(t) PROVE LedgerIInv' /\ Booked' = Booked
  <2>1. /\ turn[t] = "inserted" /\ turn' = [turn EXCEPT ![t] = "over"] /\ rows' = rows \o open
        /\ open' = <<>> /\ writer' = None /\ UNCHANGED <<seconds, inflight, compares, refused, page>>
    BY <1>3 DEF RecordCommit, GoesTo
  <2>2. rows' = Booked /\ Booked' = Booked
    BY <1>1, <2>1, ConcatEmptySeq DEF Booked
  <2>3. writer = "proxy"
    <3>1. open # <<>>
      BY <2>1, LedgerFacts DEF LedgerIInv, InsertedIsOpen
    <3>2. QED
      BY <3>1, LedgerFacts
  <2>4. Stored'
    BY <1>1, <2>1, <2>2 DEF Stored
  <2>5. compares # "inserted"
    BY <2>3, LedgerFacts
  <2>6. LedgerTypeOK'
    <3>1. \A i \in DOMAIN rows' : rows'[i] \in Records
      BY <1>1, <2>2
    <3>2. turn' \in [Turns -> {"new", "running", "dropped", "inserted", "over", "failed", "died"}]
      BY <1>1, <2>1
    <3>3. QED
      BY <2>1, <2>5, <3>1, <3>2, LedgerConstants DEF LedgerIInv, LedgerTypeOK, Records
  <2>7. QED
    BY <1>2, <2>1, <2>2, <2>4, <2>6
<1>4. ASSUME RecordCommitBusy(t) PROVE LedgerIInv'
  <2>1. /\ turn[t] = "inserted" /\ turn' = [turn EXCEPT ![t] = "over"]
        /\ UNCHANGED <<seconds, inflight, rows, open, writer, compares, refused, page>>
    BY <1>4 DEF RecordCommitBusy, GoesTo
  <2>2. Booked' = Booked /\ Stored'
    BY <2>1 DEF Booked, LedgerIInv, Stored
  <2>3. LedgerTypeOK'
    BY <1>1, <2>1 DEF LedgerIInv, LedgerTypeOK
  <2>4. QED
    BY <1>2, <2>1, <2>2, <2>3
<1>5. QED
  BY <1>3, <1>4

\* The proxy dies: the rows of the open transaction are gone, and with them
\* every trace of their turns.
LEMMA RestartStep ==
  ASSUME LedgerIInv, ProxyRestart
  PROVE  LedgerIInv' /\ Booked' = rows
<1>1. /\ turn' = [t \in Turns |-> IF turn[t] \in {"running", "dropped", "inserted"} \/ t \in TurnsIn(open)
                                  THEN "died" ELSE turn[t]]
      /\ inflight' = {} /\ open' = <<>> /\ writer' = IF writer = "proxy" THEN None ELSE writer
      /\ UNCHANGED <<seconds, rows, compares, refused, page>>
  BY DEF ProxyRestart
<1>2. /\ turn \in [Turns -> {"new", "running", "dropped", "inserted", "over", "failed", "died"}]
      /\ refused \subseteq Turns /\ rows \in Seq(Records) /\ DOMAIN open = 1..Len(open)
      /\ DOMAIN rows = 1..Len(rows)
  BY LedgerFacts
<1>3. turn' \in [Turns -> {"new", "running", "dropped", "inserted", "over", "failed", "died"}]
  BY <1>1, <1>2
<1>4. Booked' = rows
  BY <1>1, <1>2, ConcatEmptySeq DEF Booked
<1>5. Stored' /\ LedgerTypeOK'
  <2>1. writer' \in {None, "proxy", "compare"} /\ writer' # "proxy"
        /\ (writer' = "compare" <=> writer = "compare")
    BY <1>1, LedgerFacts, LedgerConstants
  <2>2. Stored'
    BY <1>1, <1>2, <2>1 DEF Stored
  <2>3. \A i \in DOMAIN rows : rows[i] \in Records
    BY <1>2
  <2>4. QED
    BY <1>1, <1>3, <2>1, <2>2, <2>3 DEF LedgerIInv, LedgerTypeOK, Records
<1>6. \A t : HasRow(t)' <=> \E i \in 1..Len(rows) : rows[i].turn = t
  BY <1>4 DEF HasRow
<1>7. \A t : t \in TurnsIn(open) <=> \E i \in 1..Len(open) : open[i].turn = t
  BY <1>2 DEF TurnsIn
<1>8. ASSUME NEW t \in Turns
      PROVE  /\ HasRow(t)' <=> turn'[t] \in {"inserted", "over"} /\ t \notin refused
             /\ turn'[t] \notin {"dropped", "inserted"}
             /\ t \in refused => turn'[t] = "over"
  <2>1. HasRow(t) <=> turn[t] \in {"inserted", "over"} /\ t \notin refused
    BY DEF LedgerIInv, TakenHaveRows
  <2>2. t \in refused => turn[t] = "over"
    BY DEF LedgerIInv, RefusedAreOver
  <2>3. turn[t] = "inserted" => t \in TurnsIn(open)
    BY <1>7 DEF LedgerIInv, InsertedIsOpen
  <2>4. turn'[t] = IF turn[t] \in {"running", "dropped", "inserted"} \/ t \in TurnsIn(open)
                   THEN "died" ELSE turn[t]
    BY <1>1
  <2>5. HasRow(t) <=> HasRow(t)' \/ t \in TurnsIn(open)
    BY <1>6, <1>7, WhereRowsAre
  <2>6. ~(HasRow(t)' /\ t \in TurnsIn(open))
    BY <1>6, <1>7, CommittedOrOpen
  <2>7. QED
    BY <2>1, <2>2, <2>3, <2>4, <2>5, <2>6
<1>9. OneRowEach'
  <2>1. \A i \in 1..Len(rows) : i \in 1..Len(Booked) /\ Booked[i] = rows[i]
    BY LedgerFacts
  <2>2. QED
    BY <1>4, <2>1 DEF LedgerIInv, OneRowEach
<1>10. TakenHaveRows' /\ InsertedIsOpen' /\ RefusedAreOver' /\ OneHook'
  BY <1>1, <1>2, <1>8 DEF TakenHaveRows, InsertedIsOpen, RefusedAreOver, OneHook, InHook
<1>11. QED
  BY <1>4, <1>5, <1>9, <1>10 DEF LedgerIInv

\* The comparison takes the lock where it is free, and gives it back.
LEMMA CompareSteps ==
  ASSUME LedgerIInv, CompareInsert \/ CompareLockedOut \/ CompareCommit
  PROVE  LedgerIInv'
<1>1. UNCHANGED <<seconds, turn, inflight, rows, open, refused>>
  BY DEF CompareInsert, CompareLockedOut, CompareCommit
<1>2. writer' \in {None, "proxy", "compare"} /\ (writer' = "proxy" <=> open # <<>>)
      /\ (writer' = "compare" <=> compares' = "inserted")
  BY LedgerFacts, LedgerConstants DEF CompareInsert, CompareLockedOut, CompareCommit
<1>3. LedgerTypeOK' /\ Stored'
  BY <1>1, <1>2 DEF LedgerIInv, LedgerTypeOK, Stored
<1>4. QED
  BY <1>1, <1>3 DEF LedgerIInv, OneRowEach, TakenHaveRows, HasRow, Booked, InsertedIsOpen, RefusedAreOver, OneHook,
     InHook

\* The pages only read.
PageStep(p) ==
    \/ \E w \in DOMAIN Windows : StatsWindow(p, w)
    \/ StatsRecent(p) \/ StatsActive(p)
    \/ TasksList(p) \/ (\E k \in Tasks : TasksTiers(p, k) \/ OpenTask(p, k))
    \/ OpenActive(p) \/ TaskRows(p) \/ TaskActive(p)
    \/ MonitorActive(p) \/ MonitorCalls(p) \/ MonitorSummary(p) \/ Again(p)

LEMMA PagesRead ==
  ASSUME NEW p \in Pages, PageStep(p)
  PROVE  UNCHANGED <<seconds, turn, inflight, rows, open, writer, compares, refused>>
  BY DEF PageStep, StatsWindow, StatsRecent, StatsActive, TasksList, TasksTiers, OpenTask, OpenActive, TaskRows,
     TaskActive, MonitorActive, MonitorCalls, MonitorSummary, Again, Show

LEMMA NextLedgerIInv == LedgerIInv /\ [LedgerNext]_ledgerVars => LedgerIInv'
<1> SUFFICES ASSUME LedgerIInv, [LedgerNext]_ledgerVars PROVE LedgerIInv'
  OBVIOUS
<1>1. ASSUME NEW t \in Turns, Begin(t) \/ Failure(t) \/ RecordDrop(t) PROVE LedgerIInv'
  <2>1. Dropped(t) \subseteq Turns /\ inflight \cup {t} \subseteq Turns
    BY LedgerFacts DEF Dropped
  <2>2. CASE Begin(t)
    BY <2>1, <2>2, NoRowStep DEF Begin, GoesTo
  <2>3. CASE Failure(t)
    BY <2>1, <2>3, NoRowStep DEF Failure, GoesTo
  <2>4. CASE RecordDrop(t)
    BY <2>1, <2>4, NoRowStep DEF RecordDrop, GoesTo
  <2>5. QED
    BY <1>1, <2>2, <2>3, <2>4
<1>2. ASSUME NEW t \in Turns, Hook(t) PROVE LedgerIInv'
  BY <1>2, InsertStep, LockedOutStep, CommitSteps DEF Hook
<1>3. ASSUME UNCHANGED <<turn, inflight, rows, open, writer, compares, refused>>, seconds' \in 0..MaxTime
      PROVE  LedgerIInv'
  BY <1>3 DEF LedgerIInv, LedgerTypeOK, Stored, OneRowEach, TakenHaveRows, HasRow, Booked, InsertedIsOpen,
     RefusedAreOver, OneHook, InHook
<1>4. ASSUME NEW p \in Pages, PageStep(p) PROVE LedgerIInv'
  BY <1>3, <1>4, PagesRead, LedgerFacts
<1>5. CASE LedgerTick
  <2>1. seconds' \in 0..MaxTime
    BY <1>5, LedgerFacts, LedgerConstants DEF LedgerTick
  <2>2. QED
    BY <1>3, <1>5, <2>1 DEF LedgerTick
<1>6. CASE UNCHANGED ledgerVars
  BY <1>3, <1>6, LedgerFacts DEF ledgerVars
<1>7. CASE LedgerNext
  BY <1>1, <1>2, <1>4, <1>5, <1>7, RestartStep, CompareSteps DEF LedgerNext, PageStep
<1>8. QED
  BY <1>6, <1>7

----------------------------------------------------------------------------
(* The ledger bills once *)

\* The rows that one turn has in a sequence of rows.
OfTurn(s, t) == {i \in DOMAIN s : s[i].turn = t}

\* How many there are, where no two of them are of one turn.
LEMMA CountOfTurn ==
  ASSUME NEW s, NEW t, \A i, j \in DOMAIN s : s[i].turn = s[j].turn => i = j
  PROVE  Cardinality(OfTurn(s, t)) = IF \E i \in DOMAIN s : s[i].turn = t THEN 1 ELSE 0
<1>1. ASSUME NEW i \in DOMAIN s, s[i].turn = t
      PROVE  Cardinality(OfTurn(s, t)) = 1
  <2>1. OfTurn(s, t) = {i}
    BY <1>1 DEF OfTurn
  <2>2. QED
    BY <2>1, FS_Singleton
<1>2. ASSUME \A i \in DOMAIN s : s[i].turn # t
      PROVE  Cardinality(OfTurn(s, t)) = 0
  <2>1. OfTurn(s, t) = {}
    BY <1>2 DEF OfTurn
  <2>2. QED
    BY <2>1, FS_EmptySet
<1>3. QED
  BY <1>1, <1>2

LEMMA BilledOnceHolds == LedgerIInv => BilledOnce
<1> SUFFICES ASSUME LedgerIInv, NEW t \in Turns
             PROVE  LET n == Cardinality(OfTurn(rows, t)) + Cardinality(OfTurn(open, t))
                    IN  /\ n <= 1
                        /\ turn[t] = "over" => (n = 1) # (t \in refused)
                        /\ turn[t] \in {"new", "running", "failed"} => n = 0
  BY DEF BilledOnce, OfTurn
<1>1. DOMAIN rows = 1..Len(rows) /\ DOMAIN open = 1..Len(open)
  BY LedgerFacts
<1>2. \A i, j \in DOMAIN rows : rows[i].turn = rows[j].turn => i = j
  <2>1. \A i \in 1..Len(rows) : i \in 1..Len(Booked) /\ Booked[i] = rows[i]
    BY LedgerFacts
  <2>2. QED
    BY <1>1, <2>1 DEF LedgerIInv, OneRowEach
<1>3. \A i, j \in DOMAIN open : open[i].turn = open[j].turn => i = j
  <2>1. \A i \in 1..Len(open) : Len(rows) + i \in 1..Len(Booked) /\ Booked[Len(rows) + i] = open[i]
    BY LedgerFacts
  <2>2. ASSUME NEW i \in DOMAIN open, NEW j \in DOMAIN open, open[i].turn = open[j].turn PROVE i = j
    <3>1. /\ Len(rows) + i \in 1..Len(Booked) /\ Len(rows) + j \in 1..Len(Booked)
          /\ Booked[Len(rows) + i].turn = Booked[Len(rows) + j].turn
      BY <1>1, <2>1, <2>2
    <3>2. Len(rows) + i = Len(rows) + j
      BY <3>1 DEF LedgerIInv, OneRowEach
    <3>3. QED
      BY <1>1, <3>2, LedgerFacts
  <2>3. QED
    BY <2>2
<1> DEFINE inRows == \E i \in DOMAIN rows : rows[i].turn = t
           inOpen == \E i \in DOMAIN open : open[i].turn = t
<1>4. /\ Cardinality(OfTurn(rows, t)) = IF inRows THEN 1 ELSE 0
      /\ Cardinality(OfTurn(open, t)) = IF inOpen THEN 1 ELSE 0
  BY <1>2, <1>3, CountOfTurn
<1>5. ~(inRows /\ inOpen)
  BY <1>1, CommittedOrOpen
<1>6. HasRow(t) <=> inRows \/ inOpen
  BY <1>1, WhereRowsAre
<1> HIDE DEF inRows, inOpen
<1> DEFINE n == Cardinality(OfTurn(rows, t)) + Cardinality(OfTurn(open, t))
<1>7. n \in {0, 1} /\ (n = 1 <=> HasRow(t))
  BY <1>4, <1>5, <1>6
<1> HIDE DEF n
<1>8. HasRow(t) <=> turn[t] \in {"inserted", "over"} /\ t \notin refused
  BY DEF LedgerIInv, TakenHaveRows
<1>9. n <= 1 /\ (turn[t] \in {"new", "running", "failed"} => n = 0)
  BY <1>7, <1>8
<1>10. turn[t] = "over" => (n = 1) # (t \in refused)
  BY <1>7, <1>8
<1>11. QED
  BY <1>9, <1>10 DEF n

\* cost.db and the router's open transaction: every record is of a turn, and the
\* proxy holds the write lock exactly while it has a transaction open.
THEOREM LedgerTypeCorrect == LedgerSpec => []LedgerTypeOK
  BY InitLedgerIInv, NextLedgerIInv, PTL DEF LedgerSpec, LedgerIInv

\* _record(): each success is billed once or reported, whatever other hooks,
\* comparisons and pages interleave with it, also where a commit fails and the
\* next turn's carries its row; only a restart of the proxy takes a row back.
THEOREM SuccessesAreBilledOnce == LedgerSpec => []BilledOnce
  BY InitLedgerIInv, NextLedgerIInv, BilledOnceHolds, PTL DEF LedgerSpec

----------------------------------------------------------------------------
(* The pages: the invariant *)

Kinds == {"none", "stats", "list", "open", "opened", "missing", "task", "monitor"}
PageShape ==
    [kind : Kinds, step : Nat, began : Nat, task : Tasks \cup {None}, counts : Seq(SUBSET Turns),
     left : SUBSET Tasks, recent : SUBSET Turns, active : SUBSET Turns, numbers : [Turns -> Int]]

\* The mirror holds no turn whose row was taken, but for the nameless.
MirrorIsRunning == \A t \in inflight \ Nameless : turn[t] = "running"

\* What a page shows as finished has a committed row.  It reads the mirror last; the
\* monitor reads it first, and what it shows has a row since then or none yet.
Unread(q) ==
    \/ q.kind \in {"none", "list", "open", "opened", "missing"}
    \/ q.kind = "stats" /\ q.step <= 3
    \/ q.kind = "task" /\ q.step = 0
ShowsOnce(q) ==
    /\ q.recent \subseteq TurnsIn(rows)
    /\ Unread(q) => q.active = {}
    /\ q.kind # "monitor" => q.recent \cap q.active \subseteq Nameless
    /\ q.kind = "monitor" => \A t \in q.active \ Nameless : \A i \in 1..Len(Booked) :
                                Booked[i].turn = t => Booked[i].ts >= q.began

\* What a window counted was in it when the page began; a later window begins less than
\* PageMax after that, and is longer by more.
Nested(q) == \A i, j \in 1..Len(q.counts) : i < j => q.counts[i] \subseteq q.counts[j]
Windowed(q) ==
    /\ q.began <= seconds
    /\ q.kind = "stats" =>
         /\ q.step \in 1..5 /\ Len(q.counts) = (IF q.step <= 3 THEN q.step ELSE 3)
         /\ q.step <= 4 => seconds - q.began <= PageMax
         /\ \A j \in 1..Len(q.counts) : \A t \in q.counts[j] :
              \E i \in DOMAIN rows : rows[i].turn = t /\ q.began - rows[i].ts <= Windows[j]
         /\ Nested(q)

\* The tiers cover the turns of every task that was asked for already.
Covered(q) ==
    /\ q.kind = "none" => Len(q.counts) = 0
    /\ q.kind \notin {"stats", "list"} => Len(q.counts) <= 1
    /\ q.kind = "list" =>
         /\ Len(q.counts) = 2 /\ q.step # 0 /\ IsFiniteSet(q.left)
         /\ q.counts[1] \subseteq TurnsIn(rows)
         /\ \A t \in q.counts[1] : TaskOf[t] \in q.left \/ t \in q.counts[2]

\* A number that is shown is that of the turn's row, however many there are now.
Numbered(q) ==
    \A t \in Turns : q.numbers[t] # 0 =>
        /\ q.kind = "task"
        /\ \E i \in RowsOf(q.task) : rows[i].turn = t /\ q.numbers[t] = TurnNumber(RowsOf(q.task), i)

PageOK(q) == ShowsOnce(q) /\ Windowed(q) /\ Covered(q) /\ Numbered(q)

PagesIInv ==
    /\ LedgerIInv /\ MirrorIsRunning
    /\ page \in [Pages -> PageShape]
    /\ \A p \in Pages : PageOK(page[p])

LEMMA TurnsInRows ==
  ASSUME LedgerIInv
  PROVE  /\ TurnsIn(rows) \subseteq Turns
         /\ \A t : t \in TurnsIn(rows) <=> \E i \in DOMAIN rows : rows[i].turn = t
         /\ \A t \in TurnsIn(rows) : turn[t] \in {"inserted", "over"}
<1>1. ASSUME NEW i \in DOMAIN rows PROVE rows[i].turn \in Turns
  <2>1. rows[i] \in Records
    BY LedgerFacts
  <2>2. QED
    BY <2>1 DEF Records
<1>2. \A t \in TurnsIn(rows) : HasRow(t)
  BY LedgerFacts, WhereRowsAre DEF TurnsIn
<1>3. QED
  BY <1>1, <1>2 DEF TurnsIn, LedgerIInv, TakenHaveRows

\* A turn's number is its place among the rows, from the oldest on ...
LEMMA NumberIsRank ==
  ASSUME NEW own \in SUBSET Int, IsFiniteSet(own), NEW i \in own
  PROVE  TurnNumber(own, i) = Cardinality({j \in own : j <= i})
<1>1. own \ Newer(own, i) = {j \in own : j <= i} /\ own \cap Newer(own, i) = Newer(own, i)
  <2>1. \A j \in own : ~(j > i) <=> j <= i
    OBVIOUS
  <2>2. QED
    BY <2>1 DEF Newer
<1>2. Cardinality(own \ Newer(own, i)) = Cardinality(own) - Cardinality(own \cap Newer(own, i))
  BY FS_Difference
<1>3. QED
  BY <1>1, <1>2 DEF TurnNumber

\* ... and stays so, whatever is committed after it.
LEMMA NumberStays ==
  ASSUME LedgerIInv, LedgerIInv', rows' \in {rows, Booked}, NEW k, NEW i \in RowsOf(k)
  PROVE  i \in RowsOf(k)' /\ rows'[i] = rows[i] /\ TurnNumber(RowsOf(k), i)' = TurnNumber(RowsOf(k), i)
<1>1. /\ Len(rows) \in Nat /\ Len(rows') \in Nat /\ Len(rows) <= Len(rows')
      /\ DOMAIN rows = 1..Len(rows) /\ DOMAIN rows' = 1..Len(rows')
      /\ \A j \in 1..Len(rows) : rows'[j] = rows[j]
  <2>1. Len(rows') \in Nat /\ DOMAIN rows' = 1..Len(rows')
    BY LedgerFacts DEF Stored, LedgerIInv
  <2>2. QED
    BY <2>1, LedgerFacts
<1>2. i \in 1..Len(rows) /\ RowsOf(k) \subseteq 1..Len(rows) /\ RowsOf(k)' \subseteq 1..Len(rows')
  BY <1>1 DEF RowsOf
<1>3. i \in RowsOf(k)' /\ rows'[i] = rows[i]
  BY <1>1, <1>2 DEF RowsOf
<1>4. {j \in RowsOf(k)' : j <= i} = {j \in RowsOf(k) : j <= i}
  BY <1>1, <1>2 DEF RowsOf
<1>5. IsFiniteSet(RowsOf(k)) /\ IsFiniteSet(RowsOf(k)')
  <2>1. IsFiniteSet(1..Len(rows)) /\ IsFiniteSet(1..Len(rows'))
    BY <1>1, FS_Interval
  <2>2. IsFiniteSet(RowsOf(k))
    BY <1>2, <2>1, FS_Subset
  <2>3. IsFiniteSet(RowsOf(k)')
    BY <1>2, <2>1, FS_Subset
  <2>4. QED
    BY <2>2, <2>3
<1>6. TurnNumber(RowsOf(k), i) = Cardinality({j \in RowsOf(k) : j <= i})
  BY <1>2, <1>5, NumberIsRank
<1>7. TurnNumber(RowsOf(k)', i) = Cardinality({j \in RowsOf(k)' : j <= i})
  BY <1>2, <1>3, <1>5, NumberIsRank
<1>8. TurnNumber(RowsOf(k), i)' = TurnNumber(RowsOf(k)', i)
  BY DEF TurnNumber, Newer
<1>9. QED
  BY <1>3, <1>4, <1>6, <1>7, <1>8

\* Time passes and rows are added while a page is read: what it has read stays right.
LEMMA PageStays ==
  ASSUME LedgerIInv, LedgerIInv', rows' \in {rows, Booked}, seconds' >= seconds,
         \A i \in 1..Len(Booked') : \/ \E j \in 1..Len(Booked) : Booked'[i] = Booked[j]
                                    \/ Booked'[i].ts >= seconds,
         NEW q \in PageShape, PageOK(q),
         q.kind = "stats" /\ q.step \in 1..4 => seconds' - q.began <= PageMax
  PROVE  PageOK(q)'
<1>1. seconds \in Nat /\ seconds' \in Nat
  <2>1. seconds \in 0..MaxTime /\ seconds' \in 0..MaxTime
    BY DEF LedgerIInv, LedgerTypeOK
  <2>2. QED
    BY <2>1, LedgerConstants
<1>2. rows' \in Seq(Records) /\ open' \in Seq(Records) /\ Booked' \in Seq(Records)
  <2>1. rows' \in Seq(Records) /\ open' \in Seq(Records)
    BY DEF LedgerIInv, Stored
  <2>2. QED
    BY <2>1, ConcatProperties DEF Booked
<1>3. /\ DOMAIN rows \subseteq DOMAIN rows' /\ \A i \in DOMAIN rows : rows'[i] = rows[i]
      /\ TurnsIn(rows) \subseteq TurnsIn(rows')
  <2>1. DOMAIN rows' = 1..Len(rows') /\ Len(rows') \in Nat
    BY <1>2
  <2>2. DOMAIN rows \subseteq DOMAIN rows' /\ \A i \in DOMAIN rows : rows'[i] = rows[i]
    BY <2>1, LedgerFacts
  <2>3. QED
    BY <2>2 DEF TurnsIn
<1>4. /\ q.began \in Nat /\ q.kind \in Kinds /\ q.step \in Nat /\ q.counts \in Seq(SUBSET Turns)
      /\ q.numbers \in [Turns -> Int] /\ Len(q.counts) \in Nat
  BY DEF PageShape
<1>5. ShowsOnce(q)'
  <2>1. q.recent \subseteq TurnsIn(rows')
    BY <1>3 DEF PageOK, ShowsOnce
  <2>2. ASSUME q.kind = "monitor", NEW t \in q.active \ Nameless, NEW i \in 1..Len(Booked'), Booked'[i].turn = t
        PROVE  Booked'[i].ts >= q.began
    <3>1. CASE \E j \in 1..Len(Booked) : Booked'[i] = Booked[j]
      BY <2>2, <3>1 DEF PageOK, ShowsOnce
    <3>2. CASE Booked'[i].ts >= seconds
      <4>1. Booked'[i] \in Records
        BY <1>2
      <4>2. Booked'[i].ts \in Nat
        BY <4>1, LedgerConstants DEF Records
      <4>3. q.began <= seconds
        BY DEF PageOK, Windowed
      <4>4. QED
        BY <1>1, <1>4, <3>2, <4>2, <4>3
    <3>3. QED
      BY <3>1, <3>2
  <2>3. (Unread(q) => q.active = {}) /\ (q.kind # "monitor" => q.recent \cap q.active \subseteq Nameless)
    BY DEF PageOK, ShowsOnce
  <2>4. QED
    BY <2>1, <2>2, <2>3 DEF ShowsOnce, Unread
<1>6. Windowed(q)'
  <2>1. q.began <= seconds'
    BY <1>1, <1>4 DEF PageOK, Windowed
  <2>2. ASSUME q.kind = "stats", NEW j \in 1..Len(q.counts), NEW t \in q.counts[j]
        PROVE  \E i \in DOMAIN rows' : rows'[i].turn = t /\ q.began - rows'[i].ts <= Windows[j]
    <3>1. PICK i \in DOMAIN rows : rows[i].turn = t /\ q.began - rows[i].ts <= Windows[j]
      BY <2>2 DEF PageOK, Windowed
    <3>2. QED
      BY <1>3, <3>1
  <2>3. q.kind = "stats" => /\ q.step \in 1..5 /\ Len(q.counts) = (IF q.step <= 3 THEN q.step ELSE 3)
                            /\ Nested(q)
    BY DEF PageOK, Windowed
  <2>4. QED
    BY <1>4, <2>1, <2>2, <2>3 DEF Windowed, Nested
<1>7. Covered(q)'
  BY <1>3 DEF PageOK, Covered
<1>8. Numbered(q)'
  <2>1. ASSUME NEW t \in Turns, q.numbers[t] # 0
        PROVE  /\ q.kind = "task"
               /\ \E i \in RowsOf(q.task)' : rows'[i].turn = t /\ q.numbers[t] = TurnNumber(RowsOf(q.task), i)'
    <3>1. /\ q.kind = "task"
          /\ \E i \in RowsOf(q.task) : rows[i].turn = t /\ q.numbers[t] = TurnNumber(RowsOf(q.task), i)
      BY <2>1 DEF PageOK, Numbered
    <3>2. PICK i \in RowsOf(q.task) : rows[i].turn = t /\ q.numbers[t] = TurnNumber(RowsOf(q.task), i)
      BY <3>1
    <3>3. i \in RowsOf(q.task)' /\ rows'[i] = rows[i]
          /\ TurnNumber(RowsOf(q.task), i)' = TurnNumber(RowsOf(q.task), i)
      BY NumberStays
    <3>4. QED
      BY <3>1, <3>2, <3>3
  <2>2. QED
    BY <2>1 DEF Numbered
<1>9. QED
  BY <1>5, <1>6, <1>7, <1>8 DEF PageOK

LEMMA WorldStep ==
  ASSUME PagesIInv, LedgerIInv', MirrorIsRunning', UNCHANGED page,
         rows' \in {rows, Booked}, seconds' >= seconds,
         \A i \in 1..Len(Booked') : \/ \E j \in 1..Len(Booked) : Booked'[i] = Booked[j]
                                    \/ Booked'[i].ts >= seconds,
         \A p \in Pages : page[p].kind = "stats" /\ page[p].step \in 1..4
                             => seconds' - page[p].began <= PageMax
  PROVE  PagesIInv'
<1>1. LedgerIInv /\ page \in [Pages -> PageShape]
  BY DEF PagesIInv
<1>2. ASSUME NEW p \in Pages PROVE PageOK(page[p])'
  <2>1. page[p] \in PageShape /\ PageOK(page[p])
    BY DEF PagesIInv
  <2>2. PICK q \in PageShape : q = page[p] /\ PageOK(q)
    BY <2>1
  <2>3. PageOK(q)'
    BY <1>1, <2>2, PageStays
  <2>4. page'[p] = q
    BY <2>2
  <2>5. QED
    BY <2>3, <2>4 DEF PageOK, ShowsOnce, Unread, Windowed, Nested, Covered, Numbered
<1>3. QED
  BY <1>1, <1>2 DEF PagesIInv

\* A tab reads something: its page changes, and nothing else does.
LEMMA PageChanges ==
  ASSUME PagesIInv, NEW p \in Pages, NEW r \in PageShape, page' = [page EXCEPT ![p] = r], PageOK(r),
         UNCHANGED <<seconds, turn, inflight, rows, open, writer, compares, refused>>
  PROVE  PagesIInv'
<1>1. LedgerIInv' /\ MirrorIsRunning' /\ page \in [Pages -> PageShape]
  BY DEF PagesIInv, LedgerIInv, LedgerTypeOK, Stored, OneRowEach, TakenHaveRows, HasRow, Booked, InsertedIsOpen,
     RefusedAreOver, OneHook, InHook, MirrorIsRunning
<1>2. page' \in [Pages -> PageShape] /\ page'[p] = r /\ \A u \in Pages \ {p} : page'[u] = page[u]
  BY <1>1
<1>3. ASSUME NEW u \in Pages PROVE PageOK(page[u])'
  <2>1. PICK q \in PageShape : q = page'[u] /\ PageOK(q)
    <3>1. page'[u] \in PageShape /\ (page'[u] = r \/ page'[u] = page[u])
      BY <1>2
    <3>2. PageOK(page[u])
      BY DEF PagesIInv
    <3>3. QED
      BY <3>1, <3>2
  <2>2. Booked' = Booked /\ LedgerIInv /\ seconds \in 0..MaxTime
    BY LedgerFacts DEF Booked, PagesIInv
  <2>3. q.kind = "stats" /\ q.step \in 1..4 => seconds - q.began <= PageMax
    BY <2>1 DEF PageOK, Windowed
  <2>4. PageOK(q)'
    BY <1>1, <2>1, <2>2, <2>3, PageStays
  <2>5. QED
    BY <2>1, <2>4 DEF PageOK, ShowsOnce, Unread, Windowed, Nested, Covered, Numbered
<1>4. QED
  BY <1>1, <1>2, <1>3 DEF PagesIInv

\* What a page reads next is added to what it has read.
LEMMA Shown ==
  ASSUME PagesIInv, NEW p \in Pages, NEW step \in Nat, NEW rec \in PageShape, Show(p, step, rec)
  PROVE  /\ page[p].step = step /\ page[p] \in PageShape /\ PageOK(page[p])
         /\ UNCHANGED <<seconds, turn, inflight, rows, open, writer, compares, refused>>
         /\ \E r \in PageShape :
              /\ page' = [page EXCEPT ![p] = r]
              /\ r.step = step + 1 /\ r.began = (IF step = 0 THEN seconds ELSE rec.began)
              /\ r.kind = rec.kind /\ r.task = rec.task /\ r.counts = rec.counts /\ r.left = rec.left
              /\ r.recent = rec.recent /\ r.active = rec.active /\ r.numbers = rec.numbers
<1> DEFINE began == IF step = 0 THEN seconds ELSE rec.began
           r0 == [rec EXCEPT !.step = step + 1]
           r == [r0 EXCEPT !.began = began]
<1>1. seconds \in Nat
  <2>1. seconds \in 0..MaxTime
    BY LedgerFacts DEF PagesIInv
  <2>2. QED
    BY <2>1, LedgerConstants
<1>a. began \in Nat
  BY <1>1 DEF PageShape
<1>3. /\ page[p].step = step /\ page' = [page EXCEPT ![p] = r]
      /\ UNCHANGED <<seconds, turn, inflight, rows, open, writer, compares, refused>>
  BY DEF Show
<1>b. began = IF step = 0 THEN seconds ELSE rec.began
  OBVIOUS
<1> HIDE DEF began
<1>c. /\ r0 \in PageShape /\ r0.step = step + 1
      /\ r0.kind = rec.kind /\ r0.task = rec.task /\ r0.counts = rec.counts /\ r0.left = rec.left
      /\ r0.recent = rec.recent /\ r0.active = rec.active /\ r0.numbers = rec.numbers
  BY DEF PageShape
<1> HIDE DEF r0
<1>2. /\ r \in PageShape /\ r.step = step + 1 /\ r.began = began
      /\ r.kind = rec.kind /\ r.task = rec.task /\ r.counts = rec.counts /\ r.left = rec.left
      /\ r.recent = rec.recent /\ r.active = rec.active /\ r.numbers = rec.numbers
  BY <1>a, <1>c DEF PageShape
<1>4. page[p] \in PageShape /\ PageOK(page[p])
  BY DEF PagesIInv
<1> HIDE DEF r
<1>5. QED
  BY <1>2, <1>3, <1>4, <1>b

LEMMA PageFacts ==
  ASSUME PagesIInv
  PROVE  /\ LedgerIInv /\ seconds \in Nat /\ inflight \subseteq Turns
         /\ DOMAIN rows = 1..Len(rows) /\ Len(rows) \in Nat
         /\ TurnsIn(rows) \subseteq Turns
         /\ \A ids : ids \subseteq DOMAIN rows => TurnsAt(ids) \subseteq TurnsIn(rows)
         /\ TurnsIn(rows) \cap inflight \subseteq Nameless
<1>1. LedgerIInv /\ MirrorIsRunning
  BY DEF PagesIInv
<1>2. seconds \in 0..MaxTime /\ inflight \subseteq Turns /\ DOMAIN rows = 1..Len(rows) /\ Len(rows) \in Nat
  BY <1>1, LedgerFacts
<1>3. ASSUME NEW t \in TurnsIn(rows) \cap inflight PROVE t \in Nameless
  BY <1>1, <1>3, TurnsInRows DEF MirrorIsRunning
<1>4. \A ids : ids \subseteq DOMAIN rows => TurnsAt(ids) \subseteq TurnsIn(rows)
  BY DEF TurnsAt, TurnsIn
<1>5. QED
  BY <1>1, <1>2, <1>3, <1>4, TurnsInRows, LedgerConstants

LEMMA RowTimes ==
  ASSUME LedgerIInv
  PROVE  \A i \in DOMAIN rows : rows[i].ts \in Nat
<1>1. ASSUME NEW i \in DOMAIN rows PROVE rows[i].ts \in Nat
  <2>1. rows[i] \in Records
    BY LedgerFacts
  <2>2. QED
    BY <2>1, LedgerConstants DEF Records
<1>2. QED
  BY <1>1

LEMMA LongerWindows ==
  ASSUME NEW i \in 1..3, NEW j \in 1..3, i < j
  PROVE  Windows[i] \in Nat /\ Windows[j] \in Nat /\ Windows[i] + PageMax <= Windows[j]
<1>1. Windows[i] \in Nat /\ Windows[j] \in Nat
  BY LedgerConstants, ElementOfSeq
<1>2. Windows[i] + PageMax <= Windows[j]
  BY LedgerAssumption
<1>3. QED
  BY <1>1, <1>2

\* /stats, its summaries: a later window counts what the earlier ones did.
LEMMA StatsWindowStep ==
  ASSUME PagesIInv, NEW p \in Pages, NEW w \in DOMAIN Windows, StatsWindow(p, w)
  PROVE  PagesIInv'
<1> DEFINE q == page[p]
           new == TurnsAt(Within(w))
           rec == [q EXCEPT !.kind = "stats", !.counts = Append(q.counts, new)]
<1>1. w \in 1..3 /\ w - 1 \in Nat /\ Windows[w] \in Nat
  <2>1. DOMAIN Windows = 1..3
    BY LedgerConstants
  <2>2. w \in 1..3
    BY <2>1
  <2>3. Windows[w] \in Nat
    BY LedgerConstants, ElementOfSeq, <2>1, <2>2
  <2>4. QED
    BY <2>2, <2>3
<1>2. q \in PageShape /\ PageOK(q)
  BY DEF PagesIInv
<1>3. new \in SUBSET Turns /\ \A t : t \in new <=> \E i \in DOMAIN rows : rows[i].turn = t
                                                /\ seconds - rows[i].ts <= Windows[w]
  BY PageFacts DEF Within, TurnsAt
<1>4. Append(q.counts, new) \in Seq(SUBSET Turns)
  BY <1>2, <1>3 DEF PageShape
<1>5. rec \in PageShape /\ rec.kind = "stats" /\ rec.counts = Append(q.counts, new)
      /\ rec.began = q.began /\ rec.left = q.left /\ rec.recent = q.recent /\ rec.active = q.active
      /\ rec.numbers = q.numbers
  BY <1>2, <1>4 DEF PageShape, Kinds
<1>6. q.kind = (IF w = 1 THEN "none" ELSE "stats") /\ Show(p, w - 1, rec)
  BY DEF StatsWindow
<1> HIDE DEF q, new, rec
<1>7. PICK r \in PageShape :
              /\ page' = [page EXCEPT ![p] = r] /\ r.step = w
              /\ r.began = (IF w = 1 THEN seconds ELSE q.began)
              /\ r.kind = "stats" /\ r.counts = Append(q.counts, new)
              /\ r.recent = q.recent /\ r.active = q.active /\ r.numbers = q.numbers
  BY <1>1, <1>5, <1>6, Shown
<1>8. q.step = w - 1 /\ UNCHANGED <<seconds, turn, inflight, rows, open, writer, compares, refused>>
  BY <1>1, <1>5, <1>6, Shown DEF q
<1>9. ShowsOnce(r)
  BY <1>1, <1>2, <1>6, <1>7, <1>8 DEF PageOK, ShowsOnce, Unread
<1>10. Windowed(r)
  <2>1. q.began \in Nat /\ r.began \in Nat /\ seconds \in Nat /\ q.counts \in Seq(SUBSET Turns)
    BY <1>2, <1>7, PageFacts DEF PageShape
  <2>2. r.began <= seconds
    BY <1>2, <1>7, <2>1 DEF PageOK, Windowed
  <2>3. Len(q.counts) = w - 1
    <3>1. CASE w = 1
      BY <1>2, <1>6, <3>1 DEF PageOK, Covered
    <3>2. CASE w # 1
      BY <1>1, <1>2, <1>6, <1>8, <3>2 DEF PageOK, Windowed
    <3>3. QED
      BY <3>1, <3>2
  <2>4. /\ Len(r.counts) = w /\ \A j \in 1..(w - 1) : r.counts[j] = q.counts[j]
        /\ r.counts[w] = new
    BY <1>1, <1>3, <1>7, <2>1, <2>3, AppendProperties
  <2>5. seconds - r.began <= PageMax
    BY <1>1, <1>2, <1>6, <1>7, <1>8, <2>1, LedgerConstants DEF PageOK, Windowed
  <2>6. \A i \in DOMAIN rows : rows[i].ts \in Nat
    BY RowTimes, PageFacts
  <2>7. ASSUME NEW j \in 1..w, NEW t \in r.counts[j]
        PROVE  \E i \in DOMAIN rows : rows[i].turn = t /\ r.began - rows[i].ts <= Windows[j]
    <3>1. CASE j = w
      <4>1. PICK i \in DOMAIN rows : rows[i].turn = t /\ seconds - rows[i].ts <= Windows[w]
        BY <1>3, <2>4, <2>7, <3>1
      <4>2. rows[i].ts \in Nat
        BY <2>6
      <4>3. QED
        BY <1>1, <2>1, <2>2, <3>1, <4>1, <4>2
    <3>2. CASE j # w
      <4>1. j \in 1..(w - 1) /\ w # 1
        BY <1>1, <3>2
      <4>2. t \in q.counts[j] /\ j \in 1..Len(q.counts) /\ q.kind = "stats" /\ r.began = q.began
        BY <1>6, <1>7, <2>3, <2>4, <2>7, <4>1
      <4>3. QED
        BY <1>2, <4>2 DEF PageOK, Windowed
    <3>3. QED
      BY <3>1, <3>2
  <2>8. Nested(r)
    <3>1. SUFFICES ASSUME NEW i \in 1..w, NEW j \in 1..w, i < j PROVE r.counts[i] \subseteq r.counts[j]
      BY <2>4 DEF Nested
    <3>2. CASE j = w
      <4>1. SUFFICES ASSUME NEW t \in r.counts[i] PROVE t \in new
        BY <2>4, <3>2
      <4>2. PICK k \in DOMAIN rows : rows[k].turn = t /\ r.began - rows[k].ts <= Windows[i]
        BY <2>7
      <4>3. rows[k].ts \in Nat
        BY <2>6
      <4>4. Windows[i] \in Nat /\ Windows[i] + PageMax <= Windows[w]
        BY <1>1, <3>1, <3>2, LongerWindows
      <4>5. seconds - rows[k].ts <= Windows[w]
        BY <1>1, <2>1, <2>5, <4>2, <4>3, <4>4, LedgerConstants
      <4>6. QED
        BY <1>3, <4>2, <4>5
    <3>3. CASE j # w
      <4>1. i \in 1..(w - 1) /\ j \in 1..(w - 1) /\ w # 1
        BY <1>1, <3>1, <3>3
      <4>2. q.kind = "stats" /\ Len(q.counts) = w - 1
        BY <1>6, <2>3, <4>1
      <4>3. q.counts[i] \subseteq q.counts[j]
        BY <1>2, <3>1, <4>1, <4>2 DEF PageOK, Windowed, Nested
      <4>4. QED
        BY <2>4, <4>1, <4>3
    <3>4. QED
      BY <3>2, <3>3
  <2>9. QED
    BY <1>1, <1>7, <2>2, <2>4, <2>5, <2>7, <2>8 DEF Windowed
<1>11. Covered(r) /\ Numbered(r)
  BY <1>2, <1>6, <1>7, <1>8 DEF PageOK, Covered, Numbered, Kinds
<1>12. QED
  BY <1>7, <1>8, <1>9, <1>10, <1>11, PageChanges DEF PageOK
\* /stats, its rows and then the mirror: what has a row has left the mirror.
LEMMA StatsRowsSteps ==
  ASSUME PagesIInv, NEW p \in Pages, StatsRecent(p) \/ StatsActive(p)
  PROVE  PagesIInv'
<1> DEFINE q == page[p]
<1>1. q \in PageShape /\ PageOK(q)
  BY DEF PagesIInv
<1>2. CASE StatsRecent(p)
  <2> DEFINE new == TurnsAt(Latest(DOMAIN rows))
             rec == [q EXCEPT !.recent = new]
  <2>1. new \subseteq TurnsIn(rows) /\ new \in SUBSET Turns
    BY PageFacts DEF Latest
  <2>2. q.kind = "stats" /\ Show(p, 3, rec)
    BY <1>2 DEF StatsRecent
  <2> HIDE DEF new, q
  <2>3. /\ rec \in PageShape /\ rec.recent = new /\ rec.kind = q.kind /\ rec.counts = q.counts
        /\ rec.began = q.began /\ rec.active = q.active /\ rec.numbers = q.numbers
    BY <1>1, <2>1 DEF PageShape
  <2> HIDE DEF rec
  <2>4. PICK r \in PageShape :
          /\ page' = [page EXCEPT ![p] = r] /\ r.step = 4 /\ r.began = q.began /\ r.kind = "stats"
          /\ r.counts = q.counts /\ r.recent = new /\ r.active = q.active /\ r.numbers = q.numbers
    BY <2>2, <2>3, Shown, SMTT(40)
  <2>5. q.step = 3 /\ UNCHANGED <<seconds, turn, inflight, rows, open, writer, compares, refused>>
    BY <2>2, <2>3, Shown DEF q
  <2>6. ShowsOnce(r)
    BY <1>1, <2>1, <2>2, <2>4, <2>5 DEF PageOK, ShowsOnce, Unread
  <2>7. Windowed(r)
    BY <1>1, <2>2, <2>4, <2>5 DEF PageOK, Windowed, Nested
  <2>8. Covered(r) /\ Numbered(r)
    BY <1>1, <2>2, <2>4, <2>5 DEF PageOK, Covered, Numbered
  <2>9. QED
    BY <2>4, <2>5, <2>6, <2>7, <2>8, PageChanges DEF PageOK
<1>3. CASE StatsActive(p)
  <2> DEFINE rec == [q EXCEPT !.active = inflight]
  <2>1. inflight \in SUBSET Turns /\ TurnsIn(rows) \cap inflight \subseteq Nameless
    BY PageFacts
  <2>2. q.kind = "stats" /\ Show(p, 4, rec)
    BY <1>3 DEF StatsActive
  <2> HIDE DEF q
  <2>3. /\ rec \in PageShape /\ rec.recent = q.recent /\ rec.kind = q.kind /\ rec.counts = q.counts
        /\ rec.began = q.began /\ rec.active = inflight /\ rec.numbers = q.numbers
    BY <1>1, <2>1 DEF PageShape
  <2> HIDE DEF rec
  <2>4. PICK r \in PageShape :
          /\ page' = [page EXCEPT ![p] = r] /\ r.step = 5 /\ r.began = q.began /\ r.kind = "stats"
          /\ r.counts = q.counts /\ r.recent = q.recent /\ r.active = inflight /\ r.numbers = q.numbers
    BY <2>2, <2>3, Shown
  <2>5. q.step = 4 /\ UNCHANGED <<seconds, turn, inflight, rows, open, writer, compares, refused>>
    BY <2>2, <2>3, Shown DEF q
  <2>6. ShowsOnce(r)
    BY <1>1, <2>1, <2>2, <2>4, <2>5 DEF PageOK, ShowsOnce, Unread
  <2>7. Windowed(r)
    BY <1>1, <2>2, <2>4, <2>5 DEF PageOK, Windowed, Nested
  <2>8. Covered(r) /\ Numbered(r)
    BY <1>1, <2>2, <2>4, <2>5 DEF PageOK, Covered, Numbered
  <2>9. QED
    BY <2>4, <2>5, <2>6, <2>7, <2>8, PageChanges DEF PageOK
<1>4. QED
  BY <1>2, <1>3

\* /monitor, the mirror first: a row that comes later is stamped later.
LEMMA MonitorSteps ==
  ASSUME PagesIInv, NEW p \in Pages, MonitorActive(p) \/ MonitorCalls(p) \/ MonitorSummary(p)
  PROVE  PagesIInv'
<1> DEFINE q == page[p]
<1>1. q \in PageShape /\ PageOK(q)
  BY DEF PagesIInv
<1>2. CASE MonitorActive(p)
  <2> DEFINE rec == [q EXCEPT !.kind = "monitor", !.active = inflight]
  <2>1. inflight \in SUBSET Turns
    BY PageFacts
  <2>2. \A t \in inflight \ Nameless : \A i \in 1..Len(Booked) : Booked[i].turn # t
    <3>1. \A t \in inflight \ Nameless : turn[t] = "running" /\ t \in Turns
      BY <2>1 DEF PagesIInv, MirrorIsRunning
    <3>2. QED
      BY <3>1 DEF PagesIInv, LedgerIInv, TakenHaveRows, HasRow
  <2>3. q.kind = "none" /\ Show(p, 0, rec)
    BY <1>2 DEF MonitorActive
  <2> HIDE DEF q
  <2>4. /\ rec \in PageShape /\ rec.recent = q.recent /\ rec.kind = "monitor" /\ rec.counts = q.counts
        /\ rec.active = inflight /\ rec.numbers = q.numbers
    BY <1>1, <2>1 DEF PageShape, Kinds
  <2> HIDE DEF rec
  <2>5. PICK r \in PageShape :
          /\ page' = [page EXCEPT ![p] = r] /\ r.step = 1 /\ r.began = seconds /\ r.kind = "monitor"
          /\ r.counts = q.counts /\ r.recent = q.recent /\ r.active = inflight /\ r.numbers = q.numbers
    BY <2>3, <2>4, Shown
  <2>6. UNCHANGED <<seconds, turn, inflight, rows, open, writer, compares, refused>>
    BY <2>3, <2>4, Shown
  <2>7. ShowsOnce(r)
    BY <1>1, <2>2, <2>5 DEF PageOK, ShowsOnce, Unread
  <2>8. Windowed(r)
    BY <2>5, PageFacts DEF Windowed
  <2>9. Covered(r) /\ Numbered(r)
    BY <1>1, <2>3, <2>5 DEF PageOK, Covered, Numbered
  <2>10. QED
    BY <2>5, <2>6, <2>7, <2>8, <2>9, PageChanges DEF PageOK
<1>3. CASE MonitorCalls(p)
  <2> DEFINE new == TurnsAt(Latest(Within(1)))
             rec == [q EXCEPT !.recent = new]
  <2>1. new \subseteq TurnsIn(rows) /\ new \in SUBSET Turns
    BY PageFacts DEF Latest, Within
  <2>2. q.kind = "monitor" /\ Show(p, 1, rec)
    BY <1>3 DEF MonitorCalls
  <2> HIDE DEF new, q
  <2>3. /\ rec \in PageShape /\ rec.recent = new /\ rec.kind = q.kind /\ rec.counts = q.counts
        /\ rec.began = q.began /\ rec.active = q.active /\ rec.numbers = q.numbers
    BY <1>1, <2>1 DEF PageShape
  <2> HIDE DEF rec
  <2>4. PICK r \in PageShape :
          /\ page' = [page EXCEPT ![p] = r] /\ r.step = 2 /\ r.began = q.began /\ r.kind = "monitor"
          /\ r.counts = q.counts /\ r.recent = new /\ r.active = q.active /\ r.numbers = q.numbers
    BY <2>2, <2>3, Shown
  <2>5. UNCHANGED <<seconds, turn, inflight, rows, open, writer, compares, refused>>
    BY <2>2, <2>3, Shown
  <2>6. ShowsOnce(r)
    BY <1>1, <2>1, <2>2, <2>4 DEF PageOK, ShowsOnce, Unread
  <2>7. Windowed(r) /\ Covered(r) /\ Numbered(r)
    BY <1>1, <2>2, <2>4 DEF PageOK, Windowed, Covered, Numbered
  <2>8. QED
    BY <2>4, <2>5, <2>6, <2>7, PageChanges DEF PageOK
<1>4. CASE MonitorSummary(p)
  <2> DEFINE rec == [q EXCEPT !.counts = <<{}>>]
  <2>1. q.kind = "monitor" /\ Show(p, 2, rec)
    BY <1>4 DEF MonitorSummary
  <2> HIDE DEF q
  <2>2. <<{}>> \in Seq(SUBSET Turns) /\ Len(<<{}>>) = 1
    OBVIOUS
  <2>3. /\ rec \in PageShape /\ rec.recent = q.recent /\ rec.kind = q.kind /\ rec.counts = <<{}>>
        /\ rec.began = q.began /\ rec.active = q.active /\ rec.numbers = q.numbers
    BY <1>1, <2>2 DEF PageShape
  <2> HIDE DEF rec
  <2>4. PICK r \in PageShape :
          /\ page' = [page EXCEPT ![p] = r] /\ r.step = 3 /\ r.began = q.began /\ r.kind = "monitor"
          /\ r.counts = <<{}>> /\ r.recent = q.recent /\ r.active = q.active /\ r.numbers = q.numbers
    BY <2>1, <2>3, Shown
  <2>5. UNCHANGED <<seconds, turn, inflight, rows, open, writer, compares, refused>>
    BY <2>1, <2>3, Shown
  <2>6. ShowsOnce(r)
    BY <1>1, <2>1, <2>4 DEF PageOK, ShowsOnce, Unread
  <2>7. Windowed(r) /\ Covered(r) /\ Numbered(r)
    BY <1>1, <2>1, <2>2, <2>4 DEF PageOK, Windowed, Covered, Numbered
  <2>8. QED
    BY <2>4, <2>5, <2>6, <2>7, PageChanges DEF PageOK
<1>5. QED
  BY <1>2, <1>3, <1>4

\* The tasks that have rows are finitely many, as the rows are.
LEMMA TasksWithRows ==
  ASSUME LedgerIInv, NEW own \in SUBSET TurnsIn(rows)
  PROVE  IsFiniteSet({TaskOf[t] : t \in own})
<1> DEFINE f == [i \in DOMAIN rows |-> TaskOf[rows[i].turn]]
           all == {f[i] : i \in DOMAIN rows}
<1>1. IsFiniteSet(DOMAIN rows)
  BY LedgerFacts, FS_Interval
<1>2. f \in Surjection(DOMAIN rows, all)
  BY DEF Surjection
<1>3. IsFiniteSet(all)
  BY <1>1, <1>2, FS_Surjection
<1>4. {TaskOf[t] : t \in own} \subseteq all
  BY DEF TurnsIn
<1>5. QED
  BY <1>3, <1>4, FS_Subset

\* /tasks/_list: the turns first, then the tiers task by task.
LEMMA ListSteps ==
  ASSUME PagesIInv, NEW p \in Pages, TasksList(p) \/ \E k \in Tasks : TasksTiers(p, k)
  PROVE  PagesIInv'
<1> DEFINE q == page[p]
<1>1. q \in PageShape /\ PageOK(q)
  BY DEF PagesIInv
<1>2. CASE TasksList(p)
  <2> DEFINE own == {t \in TurnsIn(rows) : TaskOf[t] # None}
             left == {TaskOf[t] : t \in own}
             counts == <<own, {}>>
             rec == [q EXCEPT !.kind = "list", !.counts = counts, !.left = left]
  <2>1. own \in SUBSET Turns /\ own \subseteq TurnsIn(rows) /\ left \in SUBSET Tasks
    BY PageFacts DEF Tasks
  <2>2. IsFiniteSet(left) /\ \A t \in own : TaskOf[t] \in left
    BY <2>1, TasksWithRows DEF PagesIInv
  <2>3. q.kind = "none" /\ Show(p, 0, rec)
    BY <1>2 DEF TasksList
  <2> HIDE DEF q, own, left
  <2>4. counts \in Seq(SUBSET Turns) /\ Len(counts) = 2 /\ counts[1] = own
    BY <2>1
  <2> HIDE DEF counts
  <2>5. /\ rec \in PageShape /\ rec.kind = "list" /\ rec.counts = counts /\ rec.left = left
        /\ rec.recent = q.recent /\ rec.active = q.active /\ rec.numbers = q.numbers
    BY <1>1, <2>1, <2>4 DEF PageShape, Kinds
  <2> HIDE DEF rec
  <2>6. PICK r \in PageShape :
          /\ page' = [page EXCEPT ![p] = r] /\ r.step = 1 /\ r.began = seconds /\ r.kind = "list"
          /\ r.counts = counts /\ r.left = left /\ r.recent = q.recent /\ r.active = q.active
          /\ r.numbers = q.numbers
    BY <2>3, <2>5, Shown
  <2>7. UNCHANGED <<seconds, turn, inflight, rows, open, writer, compares, refused>>
    BY <2>3, <2>5, Shown
  <2>8. ShowsOnce(r)
    BY <1>1, <2>3, <2>6 DEF PageOK, ShowsOnce, Unread
  <2>9. Windowed(r)
    BY <2>6, PageFacts DEF Windowed
  <2>10. Covered(r)
    BY <2>1, <2>2, <2>4, <2>6 DEF Covered
  <2>11. Numbered(r)
    BY <1>1, <2>3, <2>6 DEF PageOK, Numbered
  <2>12. QED
    BY <2>6, <2>7, <2>8, <2>9, <2>10, <2>11, PageChanges DEF PageOK
<1>3. ASSUME NEW k \in Tasks, TasksTiers(p, k) PROVE PagesIInv'
  <2> DEFINE tiers == q.counts[2] \cup TurnsAt(RowsOf(k))
             left == q.left \ {k}
             counts == <<q.counts[1], tiers>>
             rec == [q EXCEPT !.counts = counts, !.left = left]
  <2>1. q.kind = "list" /\ Show(p, q.step, rec)
    BY <1>3 DEF TasksTiers
  <2>2. /\ q.counts \in Seq(SUBSET Turns) /\ q.step \in Nat /\ q.left \in SUBSET Tasks /\ q.began \in Nat
    BY <1>1 DEF PageShape
  <2>3. /\ Len(q.counts) = 2 /\ q.step # 0 /\ IsFiniteSet(q.left) /\ q.counts[1] \subseteq TurnsIn(rows)
        /\ \A t \in q.counts[1] : TaskOf[t] \in q.left \/ t \in q.counts[2]
    BY <1>1, <2>1 DEF PageOK, Covered
  <2>4. TurnsAt(RowsOf(k)) \in SUBSET Turns
    BY PageFacts DEF RowsOf
  <2>5. \A t \in TurnsIn(rows) : TaskOf[t] = k => t \in TurnsAt(RowsOf(k))
    BY DEF TurnsIn, TurnsAt, RowsOf
  <2>6. q.counts[1] \in SUBSET Turns /\ tiers \in SUBSET Turns /\ left \in SUBSET Tasks /\ IsFiniteSet(left)
    <3>1. q.counts[1] \in SUBSET Turns /\ q.counts[2] \in SUBSET Turns
      BY <2>2, <2>3, ElementOfSeq
    <3>2. IsFiniteSet(left)
      BY <2>3, FS_RemoveElement
    <3>3. QED
      BY <2>2, <2>4, <3>1, <3>2
  <2>7. \A t \in q.counts[1] : TaskOf[t] \in left \/ t \in tiers
    BY <2>3, <2>5
  <2> HIDE DEF q, tiers, left
  <2>8. counts \in Seq(SUBSET Turns) /\ Len(counts) = 2 /\ counts[1] = q.counts[1] /\ counts[2] = tiers
    BY <2>6
  <2> HIDE DEF counts
  <2>9. /\ rec \in PageShape /\ rec.kind = q.kind /\ rec.counts = counts /\ rec.left = left
        /\ rec.began = q.began /\ rec.recent = q.recent /\ rec.active = q.active /\ rec.numbers = q.numbers
    BY <1>1, <2>6, <2>8 DEF PageShape
  <2> HIDE DEF rec
  <2>10. PICK r \in PageShape :
          /\ page' = [page EXCEPT ![p] = r] /\ r.step = q.step + 1 /\ r.began = q.began /\ r.kind = "list"
          /\ r.counts = counts /\ r.left = left /\ r.recent = q.recent /\ r.active = q.active
          /\ r.numbers = q.numbers
    BY <2>1, <2>2, <2>3, <2>9, Shown
  <2>11. UNCHANGED <<seconds, turn, inflight, rows, open, writer, compares, refused>>
    BY <2>1, <2>2, <2>9, Shown
  <2>12. ShowsOnce(r)
    BY <1>1, <2>1, <2>10 DEF PageOK, ShowsOnce, Unread
  <2>13. Windowed(r) /\ Numbered(r)
    BY <1>1, <2>1, <2>10 DEF PageOK, Windowed, Numbered
  <2>14. Covered(r)
    BY <2>2, <2>3, <2>6, <2>7, <2>8, <2>10 DEF Covered
  <2>15. QED
    BY <2>10, <2>11, <2>12, <2>13, <2>14, PageChanges DEF PageOK
<1>4. QED
  BY <1>2, <1>3

\* Opening the page of a task.
LEMMA OpenSteps ==
  ASSUME PagesIInv, NEW p \in Pages, OpenActive(p) \/ \E k \in Tasks : OpenTask(p, k)
  PROVE  PagesIInv'
<1> DEFINE q == page[p]
<1>1. q \in PageShape /\ PageOK(q)
  BY DEF PagesIInv
<1>2. ASSUME NEW k \in Tasks, OpenTask(p, k) PROVE PagesIInv'
  <2> DEFINE new == TurnsAt(RowsOf(k))
             rec == [q EXCEPT !.kind = "open", !.task = k, !.recent = new]
  <2>1. new \subseteq TurnsIn(rows) /\ new \in SUBSET Turns
    BY PageFacts DEF RowsOf
  <2>2. q.kind = "none" /\ Show(p, 0, rec)
    BY <1>2 DEF OpenTask
  <2> HIDE DEF new, q
  <2>3. /\ rec \in PageShape /\ rec.recent = new /\ rec.kind = "open" /\ rec.counts = q.counts
        /\ rec.active = q.active /\ rec.numbers = q.numbers
    BY <1>1, <2>1 DEF PageShape, Kinds
  <2> HIDE DEF rec
  <2>4. PICK r \in PageShape :
          /\ page' = [page EXCEPT ![p] = r] /\ r.step = 1 /\ r.began = seconds /\ r.kind = "open"
          /\ r.counts = q.counts /\ r.recent = new /\ r.active = q.active /\ r.numbers = q.numbers
    BY <2>2, <2>3, Shown
  <2>5. UNCHANGED <<seconds, turn, inflight, rows, open, writer, compares, refused>>
    BY <2>2, <2>3, Shown
  <2>6. ShowsOnce(r)
    BY <1>1, <2>1, <2>2, <2>4 DEF PageOK, ShowsOnce, Unread
  <2>7. Windowed(r)
    BY <2>4, PageFacts DEF Windowed
  <2>8. Covered(r) /\ Numbered(r)
    BY <1>1, <2>2, <2>4 DEF PageOK, Covered, Numbered
  <2>9. QED
    BY <2>4, <2>5, <2>6, <2>7, <2>8, PageChanges DEF PageOK
<1>3. CASE OpenActive(p)
  <2> DEFINE known == q.recent # {} \/ \E t \in inflight : TaskOf[t] = q.task
             kind == IF known THEN "opened" ELSE "missing"
             rec == [q EXCEPT !.kind = kind, !.recent = {}]
  <2>1. q.kind = "open" /\ Show(p, 1, rec)
    BY <1>3 DEF OpenActive
  <2>2. kind \in {"opened", "missing"}
    OBVIOUS
  <2> HIDE DEF kind, q
  <2>3. /\ rec \in PageShape /\ rec.recent = {} /\ rec.kind = kind /\ rec.counts = q.counts
        /\ rec.began = q.began /\ rec.active = q.active /\ rec.numbers = q.numbers
    BY <1>1, <2>2 DEF PageShape, Kinds
  <2> HIDE DEF rec
  <2>4. PICK r \in PageShape :
          /\ page' = [page EXCEPT ![p] = r] /\ r.step = 2 /\ r.began = q.began /\ r.kind = kind
          /\ r.counts = q.counts /\ r.recent = {} /\ r.active = q.active /\ r.numbers = q.numbers
    BY <2>1, <2>3, Shown
  <2>5. UNCHANGED <<seconds, turn, inflight, rows, open, writer, compares, refused>>
    BY <2>1, <2>3, Shown
  <2>6. ShowsOnce(r)
    BY <1>1, <2>1, <2>2, <2>4 DEF PageOK, ShowsOnce, Unread
  <2>7. Windowed(r)
    BY <1>1, <2>2, <2>4 DEF PageOK, Windowed
  <2>8. Covered(r) /\ Numbered(r)
    BY <1>1, <2>1, <2>2, <2>4 DEF PageOK, Covered, Numbered
  <2>9. QED
    BY <2>4, <2>5, <2>6, <2>7, <2>8, PageChanges DEF PageOK
<1>4. QED
  BY <1>2, <1>3

\* What a tab was told of a turn's number stays.
NumbersKept(q, r) == \A t \in Turns : q.numbers[t] # 0 => r.numbers[t] = q.numbers[t]

\* The opened page: every poll numbers the rows anew, and alike.
LEMMA TaskSteps ==
  ASSUME PagesIInv, NEW p \in Pages, TaskRows(p) \/ TaskActive(p)
  PROVE  PagesIInv' /\ NumbersKept(page[p], page'[p])
<1> DEFINE q == page[p]
<1>1. q \in PageShape /\ PageOK(q) /\ page \in [Pages -> PageShape]
  BY DEF PagesIInv
<1>2. CASE TaskRows(p)
  <2> DEFINE own == RowsOf(q.task)
             new == TurnsAt(own)
             row(t) == CHOOSE i \in own : rows[i].turn = t
             numbers == [t \in Turns |-> IF t \in new THEN TurnNumber(own, row(t)) ELSE 0]
             rec == [q EXCEPT !.recent = new, !.numbers = numbers]
  <2>1. new \subseteq TurnsIn(rows) /\ new \in SUBSET Turns
    BY PageFacts DEF RowsOf
  <2>2. \A t \in new : row(t) \in own /\ rows[row(t)].turn = t
    BY DEF TurnsAt
  <2>3. IsFiniteSet(own) /\ own \subseteq 1..Len(rows)
    <3>1. own \subseteq 1..Len(rows) /\ Len(rows) \in Nat
      BY PageFacts DEF RowsOf
    <3>2. IsFiniteSet(1..Len(rows))
      BY <3>1, FS_Interval
    <3>3. QED
      BY <3>1, <3>2, FS_Subset
  <2>4. ASSUME NEW i PROVE TurnNumber(own, i) \in Int
    <3>1. IsFiniteSet(Newer(own, i))
      BY <2>3, FS_Subset DEF Newer
    <3>2. QED
      BY <2>3, <3>1, FS_CardinalityType DEF TurnNumber
  <2>5. numbers \in [Turns -> Int]
    BY <2>4
  <2>6. \A t \in Turns : numbers[t] # 0 =>
           t \in new /\ numbers[t] = TurnNumber(own, row(t))
    OBVIOUS
  <2>7. ASSUME NEW t \in Turns, q.numbers[t] # 0 PROVE numbers[t] = q.numbers[t]
    <3>1. PICK i \in own : rows[i].turn = t /\ q.numbers[t] = TurnNumber(own, i)
      BY <1>1, <2>7 DEF PageOK, Numbered
    <3>2. t \in new
      BY <3>1 DEF TurnsAt
    <3>3. i \in 1..Len(rows) /\ row(t) \in 1..Len(rows) /\ rows[row(t)].turn = rows[i].turn
      BY <2>2, <2>3, <3>1, <3>2
    <3>4. row(t) = i
      <4>1. \A j \in 1..Len(rows) : j \in 1..Len(Booked) /\ Booked[j] = rows[j]
        BY PageFacts, LedgerFacts
      <4>2. QED
        BY <3>3, <4>1 DEF PagesIInv, LedgerIInv, OneRowEach
    <3>5. QED
      BY <3>1, <3>2, <3>4
  <2>8. q.kind = "task" /\ Show(p, 0, rec)
    BY <1>2 DEF TaskRows
  <2> HIDE DEF numbers, new, q
  <2>9. /\ rec \in PageShape /\ rec.recent = new /\ rec.kind = q.kind /\ rec.counts = q.counts
        /\ rec.task = q.task /\ rec.active = q.active /\ rec.numbers = numbers
    BY <1>1, <2>1, <2>5 DEF PageShape
  <2> HIDE DEF rec, own, row
  <2>10. PICK r \in PageShape :
          /\ page' = [page EXCEPT ![p] = r] /\ r.step = 1 /\ r.began = seconds /\ r.kind = "task"
          /\ r.task = q.task /\ r.counts = q.counts /\ r.recent = new /\ r.active = q.active
          /\ r.numbers = numbers
    BY <2>8, <2>9, Shown
  <2>11. q.step = 0 /\ UNCHANGED <<seconds, turn, inflight, rows, open, writer, compares, refused>>
    BY <2>8, <2>9, Shown DEF q
  <2>12. ShowsOnce(r)
    BY <1>1, <2>1, <2>8, <2>10, <2>11 DEF PageOK, ShowsOnce, Unread
  <2>13. Windowed(r)
    BY <2>10, PageFacts DEF Windowed
  <2>14. Covered(r)
    BY <1>1, <2>8, <2>10 DEF PageOK, Covered
  <2>15. Numbered(r)
    BY <2>2, <2>6, <2>10 DEF Numbered, own
  <2>16. PagesIInv'
    BY <2>10, <2>11, <2>12, <2>13, <2>14, <2>15, PageChanges DEF PageOK
  <2>17. page'[p].numbers = numbers
    BY <1>1, <2>10
  <2>18. QED
    BY <2>7, <2>16, <2>17 DEF NumbersKept, q
<1>3. CASE TaskActive(p)
  <2> DEFINE own == {t \in inflight : TaskOf[t] = q.task}
             rec == [q EXCEPT !.active = own]
  <2>1. own \in SUBSET Turns /\ TurnsIn(rows) \cap own \subseteq Nameless
    BY PageFacts
  <2>2. q.kind = "task" /\ Show(p, 1, rec)
    BY <1>3 DEF TaskActive
  <2> HIDE DEF q, own
  <2>3. /\ rec \in PageShape /\ rec.recent = q.recent /\ rec.kind = q.kind /\ rec.counts = q.counts
        /\ rec.task = q.task /\ rec.began = q.began /\ rec.active = own /\ rec.numbers = q.numbers
    BY <1>1, <2>1 DEF PageShape
  <2> HIDE DEF rec
  <2>4. PICK r \in PageShape :
          /\ page' = [page EXCEPT ![p] = r] /\ r.step = 2 /\ r.began = q.began /\ r.kind = "task"
          /\ r.task = q.task /\ r.counts = q.counts /\ r.recent = q.recent /\ r.active = own
          /\ r.numbers = q.numbers
    BY <2>2, <2>3, Shown
  <2>5. UNCHANGED <<seconds, turn, inflight, rows, open, writer, compares, refused>>
    BY <2>2, <2>3, Shown
  <2>6. ShowsOnce(r)
    BY <1>1, <2>1, <2>2, <2>4 DEF PageOK, ShowsOnce, Unread
  <2>7. Windowed(r) /\ Covered(r) /\ Numbered(r)
    BY <1>1, <2>2, <2>4 DEF PageOK, Windowed, Covered, Numbered
  <2>8. PagesIInv'
    BY <2>4, <2>5, <2>6, <2>7, PageChanges DEF PageOK
  <2>9. page'[p].numbers = q.numbers
    BY <1>1, <2>4
  <2>10. QED
    BY <2>8, <2>9 DEF NumbersKept, q
<1>4. QED
  BY <1>2, <1>3

\* A tab polls again: it keeps the task it was opened on, and its numbers.
LEMMA AgainStep ==
  ASSUME PagesIInv, NEW p \in Pages, Again(p)
  PROVE  PagesIInv' /\ NumbersKept(page[p], page'[p])
<1> DEFINE q == page[p]
           kept == [Blank EXCEPT !.kind = "task", !.task = q.task, !.numbers = q.numbers]
           r == IF q.kind \in {"opened", "task"} THEN kept ELSE Blank
<1>1. q \in PageShape /\ PageOK(q) /\ page \in [Pages -> PageShape] /\ seconds \in Nat
  BY PageFacts DEF PagesIInv
<1>2. /\ page' = [page EXCEPT ![p] = r]
      /\ UNCHANGED <<seconds, turn, inflight, rows, open, writer, compares, refused>>
  BY DEF Again
<1>3. /\ Blank \in PageShape /\ Blank.kind = "none" /\ Blank.step = 0 /\ Blank.began = 0
      /\ Blank.counts = <<>> /\ Blank.recent = {} /\ Blank.active = {}
      /\ \A t \in Turns : Blank.numbers[t] = 0
  BY DEF Blank, PageShape, Kinds
<1> HIDE DEF q
<1>4. /\ kept \in PageShape /\ kept.kind = "task" /\ kept.step = 0 /\ kept.began = 0 /\ kept.task = q.task
      /\ kept.counts = <<>> /\ kept.recent = {} /\ kept.active = {} /\ kept.numbers = q.numbers
  BY <1>1, <1>3 DEF PageShape, Kinds
<1> HIDE DEF kept
<1>5. r \in PageShape /\ r.kind \in {"none", "task"} /\ r.began = 0 /\ Len(r.counts) = 0
      /\ r.recent = {} /\ r.active = {}
  BY <1>3, <1>4
<1>6. ShowsOnce(r) /\ Windowed(r) /\ Covered(r)
  BY <1>1, <1>5 DEF ShowsOnce, Unread, Windowed, Covered
<1>7. Numbered(r)
  BY <1>1, <1>3, <1>4 DEF PageOK, Numbered
<1>8. NumbersKept(q, r)
  BY <1>1, <1>3, <1>4 DEF PageOK, Numbered, NumbersKept
<1> HIDE DEF r
<1>9. PagesIInv'
  BY <1>2, <1>5, <1>6, <1>7, PageChanges DEF PageOK
<1>10. page'[p] = r
  BY <1>1, <1>2
<1>11. QED
  BY <1>8, <1>9, <1>10 DEF q

LEMMA InitPagesIInv == LedgerInit => PagesIInv
<1> SUFFICES ASSUME LedgerInit PROVE PagesIInv
  OBVIOUS
<1>1. LedgerIInv /\ seconds = 0 /\ inflight = {} /\ page = [p \in Pages |-> Blank]
  BY InitLedgerIInv DEF LedgerInit
<1>2. /\ Blank \in PageShape /\ Blank.kind = "none" /\ Blank.began = 0
      /\ Blank.counts = <<>> /\ Blank.recent = {} /\ Blank.active = {}
      /\ \A t \in Turns : Blank.numbers[t] = 0
  BY DEF Blank, PageShape, Kinds
<1>3. PageOK(Blank)
  BY <1>1, <1>2 DEF PageOK, ShowsOnce, Unread, Windowed, Covered, Numbered
<1>4. QED
  BY <1>1, <1>2, <1>3 DEF PagesIInv, MirrorIsRunning

\* While nothing is inserted and the clock stands, the pages stay as they are.
LEMMA QuietWorld ==
  ASSUME PagesIInv, LedgerIInv', MirrorIsRunning', UNCHANGED <<page, seconds>>,
         rows' \in {rows, Booked}, Booked' \in {rows, Booked}
  PROVE  PagesIInv'
<1>1. LedgerIInv /\ seconds \in Nat
  BY PageFacts
<1>2. ASSUME NEW i \in 1..Len(Booked') PROVE \E j \in 1..Len(Booked) : Booked'[i] = Booked[j]
  <2>1. CASE Booked' = Booked
    BY <1>2, <2>1
  <2>2. CASE Booked' = rows
    <3>1. i \in 1..Len(rows)
      BY <1>2, <2>2
    <3>2. i \in 1..Len(Booked) /\ Booked[i] = rows[i]
      BY <1>1, <3>1, LedgerFacts
    <3>3. QED
      BY <2>2, <3>2
  <2>3. QED
    BY <2>1, <2>2
<1>3. ASSUME NEW p \in Pages, page[p].kind = "stats", page[p].step \in 1..4
      PROVE  seconds' - page[p].began <= PageMax
  BY <1>3 DEF PagesIInv, PageOK, Windowed
<1>4. QED
  BY <1>1, <1>2, <1>3, WorldStep

\* What the hooks do to the mirror.
LEMMA MirrorSteps ==
  ASSUME PagesIInv, NEW t \in Turns
  PROVE  /\ Begin(t) => MirrorIsRunning'
         /\ Failure(t) => MirrorIsRunning'
         /\ RecordDrop(t) => MirrorIsRunning'
         /\ Hook(t) => MirrorIsRunning'
<1>1. /\ turn \in [Turns -> {"new", "running", "dropped", "inserted", "over", "failed", "died"}]
      /\ inflight \subseteq Turns /\ \A u \in inflight \ Nameless : turn[u] = "running"
  BY LedgerFacts DEF PagesIInv, MirrorIsRunning
<1>2. ASSUME Begin(t) PROVE MirrorIsRunning'
  BY <1>1, <1>2 DEF Begin, GoesTo, MirrorIsRunning
<1>3. ASSUME Failure(t) PROVE MirrorIsRunning'
  BY <1>1, <1>3 DEF Failure, GoesTo, Dropped, MirrorIsRunning
<1>4. ASSUME RecordDrop(t) PROVE MirrorIsRunning'
  BY <1>1, <1>4 DEF RecordDrop, GoesTo, Dropped, MirrorIsRunning
<1>5. ASSUME Hook(t) PROVE MirrorIsRunning'
  <2>1. inflight' = inflight /\ turn[t] \in {"dropped", "inserted"} /\ \E at : turn' = [turn EXCEPT ![t] = at]
    BY <1>5 DEF Hook, RecordInsert, RecordLockedOut, RecordCommit, RecordCommitBusy, GoesTo
  <2>2. QED
    BY <1>1, <2>1 DEF MirrorIsRunning
<1>6. QED
  BY <1>2, <1>3, <1>4, <1>5

LEMMA InsertKeepsPages ==
  ASSUME PagesIInv, NEW t \in Turns, RecordInsert(t)
  PROVE  PagesIInv'
<1>1. LedgerIInv /\ seconds \in Nat /\ Booked \in Seq(Records)
  BY PageFacts, LedgerFacts
<1>2. LedgerIInv' /\ MirrorIsRunning' /\ Booked' = Append(Booked, Row(t))
  BY <1>1, InsertStep, MirrorSteps DEF Hook
<1>3. UNCHANGED <<page, seconds, rows>> /\ Row(t) \in Records /\ Row(t).ts = seconds
  BY <1>1, LedgerFacts DEF RecordInsert, Row, Records
<1>4. ASSUME NEW i \in 1..Len(Booked')
      PROVE  \/ \E j \in 1..Len(Booked) : Booked'[i] = Booked[j]
             \/ Booked'[i].ts >= seconds
  <2>1. /\ Len(Booked') = Len(Booked) + 1 /\ Len(Booked) \in Nat
        /\ \A j \in 1..Len(Booked) : Booked'[j] = Booked[j]
        /\ Booked'[Len(Booked) + 1] = Row(t)
    BY <1>1, <1>2, <1>3, AppendProperties
  <2>2. CASE i = Len(Booked) + 1
    BY <1>1, <1>3, <2>1, <2>2
  <2>3. CASE i # Len(Booked) + 1
    BY <1>4, <2>1, <2>3
  <2>4. QED
    BY <2>2, <2>3
<1>5. ASSUME NEW p \in Pages, page[p].kind = "stats", page[p].step \in 1..4
      PROVE  seconds' - page[p].began <= PageMax
  BY <1>3, <1>5 DEF PagesIInv, PageOK, Windowed
<1>6. QED
  BY <1>1, <1>2, <1>3, <1>4, <1>5, WorldStep

\* A page takes PageMax at most.
LEMMA TickKeepsPages ==
  ASSUME PagesIInv, LedgerTick
  PROVE  PagesIInv'
<1>1. LedgerIInv /\ seconds \in Nat /\ seconds' = seconds + 1
      /\ UNCHANGED <<turn, inflight, rows, open, writer, compares, refused, page>>
  BY PageFacts DEF LedgerTick
<1>2. LedgerIInv'
  BY <1>1, NextLedgerIInv DEF LedgerNext
<1>3. Booked' = Booked /\ MirrorIsRunning'
  BY <1>1 DEF Booked, PagesIInv, MirrorIsRunning
<1>4. ASSUME NEW p \in Pages, page[p].kind = "stats", page[p].step \in 1..4
      PROVE  seconds' - page[p].began <= PageMax
  <2>1. Loading(p)
    BY <1>4 DEF Loading, Steps
  <2>2. seconds - page[p].began < PageMax
    BY <2>1 DEF LedgerTick
  <2>3. page[p].began \in Nat
    BY DEF PagesIInv, PageShape
  <2>4. QED
    BY <1>1, <2>2, <2>3, LedgerConstants
<1>5. QED
  BY <1>1, <1>2, <1>3, <1>4, WorldStep

LEMMA PageStepKeeps ==
  ASSUME PagesIInv, NEW p \in Pages, PageStep(p)
  PROVE  PagesIInv'
  BY StatsWindowStep, StatsRowsSteps, ListSteps, OpenSteps, TaskSteps, MonitorSteps, AgainStep DEF PageStep

LEMMA NextPagesIInv == PagesIInv /\ [LedgerNext]_ledgerVars => PagesIInv'
<1> SUFFICES ASSUME PagesIInv, [LedgerNext]_ledgerVars PROVE PagesIInv'
  OBVIOUS
<1>1. LedgerIInv /\ LedgerIInv' /\ MirrorIsRunning
  BY NextLedgerIInv DEF PagesIInv
<1>2. ASSUME NEW t \in Turns, Begin(t) \/ Failure(t) \/ RecordDrop(t) PROVE PagesIInv'
  <2>1. MirrorIsRunning'
    BY <1>2, MirrorSteps
  <2>2. UNCHANGED <<page, seconds, rows, open>>
    BY <1>2 DEF Begin, Failure, RecordDrop
  <2>3. Booked' = Booked
    BY <2>2 DEF Booked
  <2>4. QED
    BY <1>1, <2>1, <2>2, <2>3, QuietWorld
<1>3. ASSUME NEW t \in Turns, Hook(t) PROVE PagesIInv'
  <2>1. MirrorIsRunning'
    BY <1>3, MirrorSteps
  <2>2. CASE RecordCommit(t)
    <3>1. UNCHANGED <<page, seconds>> /\ rows' = Booked
      BY <2>2 DEF RecordCommit, Booked
    <3>2. Booked' = Booked
      BY <1>1, <2>2, CommitSteps
    <3>3. QED
      BY <1>1, <2>1, <3>1, <3>2, QuietWorld
  <2>3. CASE RecordLockedOut(t) \/ RecordCommitBusy(t)
    <3>1. UNCHANGED <<page, seconds, rows, open>>
      BY <2>3 DEF RecordLockedOut, RecordCommitBusy
    <3>2. Booked' = Booked
      BY <3>1 DEF Booked
    <3>3. QED
      BY <1>1, <2>1, <3>1, <3>2, QuietWorld
  <2>4. QED
    BY <1>3, <2>2, <2>3, InsertKeepsPages DEF Hook
<1>4. CASE ProxyRestart
  <2>1. UNCHANGED <<page, seconds, rows>> /\ MirrorIsRunning'
    BY <1>4 DEF ProxyRestart, MirrorIsRunning
  <2>2. Booked' = rows
    BY <1>1, <1>4, RestartStep
  <2>3. QED
    BY <1>1, <2>1, <2>2, QuietWorld
<1>5. CASE CompareInsert \/ CompareLockedOut \/ CompareCommit \/ UNCHANGED ledgerVars
  <2>1. UNCHANGED <<page, seconds, rows, open, inflight, turn>>
    BY <1>5 DEF CompareInsert, CompareLockedOut, CompareCommit, ledgerVars
  <2>2. Booked' = Booked /\ MirrorIsRunning'
    BY <1>1, <2>1 DEF Booked, MirrorIsRunning
  <2>3. QED
    BY <1>1, <2>1, <2>2, QuietWorld
<1>6. CASE LedgerNext
  BY <1>2, <1>3, <1>4, <1>5, <1>6, PageStepKeeps, TickKeepsPages DEF LedgerNext, PageStep
<1>7. QED
  BY <1>5, <1>6

----------------------------------------------------------------------------
(* The pages agree *)

LEMMA NeverTwiceHolds == PagesIInv => NeverTwice
<1> SUFFICES ASSUME PagesIInv, NEW p \in Pages, NEW t \in (page[p].recent \cap page[p].active) \ Nameless
             PROVE  /\ page[p].kind = "monitor"
                    /\ \E i \in DOMAIN rows : rows[i].turn = t /\ rows[i].ts >= page[p].began
  BY DEF NeverTwice
<1>1. LedgerIInv /\ ShowsOnce(page[p])
  BY DEF PagesIInv, PageOK
<1>2. page[p].kind = "monitor" /\ t \in TurnsIn(rows)
  BY <1>1 DEF ShowsOnce
<1>3. PICK i \in DOMAIN rows : rows[i].turn = t
  BY <1>2 DEF TurnsIn
<1>4. i \in 1..Len(Booked) /\ Booked[i] = rows[i]
  BY <1>1, LedgerFacts
<1>5. rows[i].ts >= page[p].began
  BY <1>1, <1>2, <1>3, <1>4 DEF ShowsOnce
<1>6. QED
  BY <1>2, <1>3, <1>5

LEMMA NestedWindowsHolds == PagesIInv => NestedWindows
<1> SUFFICES ASSUME PagesIInv, NEW p \in Pages, Loaded(p),
                    NEW i \in DOMAIN page[p].counts, NEW j \in DOMAIN page[p].counts, i < j
             PROVE  page[p].counts[i] \subseteq page[p].counts[j]
  BY DEF NestedWindows
<1>1. PICK q \in PageShape : q = page[p] /\ PageOK(q)
  BY DEF PagesIInv
<1>2. q.counts \in Seq(SUBSET Turns) /\ DOMAIN q.counts = 1..Len(q.counts) /\ Len(q.counts) \in Nat /\ q.step \in Nat
  BY <1>1 DEF PageShape
<1>3. i \in 1..Len(q.counts) /\ j \in 1..Len(q.counts)
  BY <1>1, <1>2
<1>4. CASE q.kind = "stats"
  BY <1>1, <1>3, <1>4 DEF PageOK, Windowed, Nested
<1>5. CASE q.kind = "list"
  <2>1. /\ Len(q.counts) = 2 /\ IsFiniteSet(q.left)
        /\ \A t \in q.counts[1] : TaskOf[t] \in q.left \/ t \in q.counts[2]
    BY <1>1, <1>5 DEF PageOK, Covered
  <2>2. i = 1 /\ j = 2
    BY <1>3, <2>1
  <2>3. q.step = q.step + Cardinality(q.left)
    BY <1>1, <1>5 DEF Loaded, Steps
  <2>4. Cardinality(q.left) = 0
    BY <1>2, <2>1, <2>3, FS_CardinalityType
  <2>5. q.left = {}
    BY <2>1, <2>4, FS_EmptySet
  <2>6. QED
    BY <1>1, <2>1, <2>2, <2>5
<1>6. CASE q.kind \notin {"stats", "list"}
  <2>1. Len(q.counts) <= 1
    BY <1>1, <1>6 DEF PageOK, Covered
  <2>2. QED
    BY <1>2, <1>3, <2>1
<1>7. QED
  BY <1>4, <1>5, <1>6

\* Only the page of a task shows numbers, and it keeps them.
LEMMA NumbersStay ==
  ASSUME PagesIInv, [LedgerNext]_ledgerVars, NEW p \in Pages
  PROVE  NumbersKept(page[p], page'[p])
<1>1. page \in [Pages -> PageShape] /\ Numbered(page[p])
  BY DEF PagesIInv, PageOK
<1>2. CASE page'[p] = page[p]
  BY <1>2 DEF NumbersKept
<1>3. CASE PageStep(p)
  <2>1. CASE page[p].kind = "task"
    <3>1. Again(p) \/ TaskRows(p) \/ TaskActive(p)
      BY <1>3, <2>1 DEF PageStep, StatsWindow, StatsRecent, StatsActive, TasksList, TasksTiers, OpenTask,
         OpenActive, MonitorActive, MonitorCalls, MonitorSummary
    <3>2. QED
      BY <3>1, AgainStep, TaskSteps
  <2>2. CASE page[p].kind # "task"
    BY <1>1, <2>2 DEF Numbered, NumbersKept
  <2>3. QED
    BY <2>1, <2>2
<1>4. ASSUME NEW u \in Pages, PageStep(u), u # p PROVE page'[p] = page[p]
  <2>1. \E r : page' = [page EXCEPT ![u] = r]
    BY <1>4 DEF PageStep, StatsWindow, StatsRecent, StatsActive, TasksList, TasksTiers, OpenTask, OpenActive,
       TaskRows, TaskActive, MonitorActive, MonitorCalls, MonitorSummary, Again, Show
  <2>2. QED
    BY <1>1, <1>4, <2>1
<1>5. CASE UNCHANGED page
  BY <1>2, <1>5
<1>6. (\E u \in Pages : PageStep(u)) \/ UNCHANGED page
  BY DEF LedgerNext, PageStep, Begin, Failure, RecordDrop, Hook, RecordInsert, RecordLockedOut, RecordCommit,
     RecordCommitBusy, ProxyRestart, CompareInsert, CompareLockedOut, CompareCommit, LedgerTick, ledgerVars
<1>7. QED
  BY <1>2, <1>3, <1>4, <1>5, <1>6

\* The dashboard's pages, each put together from several queries and the mirror
\* while turns are recorded: none shows a turn as running and as finished, the
\* windows of /stats nest, the tiers of a task cover its turns, and a turn that
\* was shown with a number keeps it.
THEOREM PagesAgreeAlways == LedgerSpec => PagesAgree
<1> DEFINE Kept == \A p \in Pages, t \in Turns :
                      page[p].numbers[t] # 0 => page'[p].numbers[t] = page[p].numbers[t]
<1>1. LedgerInit => PagesIInv
  BY InitPagesIInv
<1>2. PagesIInv /\ [LedgerNext]_ledgerVars => PagesIInv'
  BY NextPagesIInv
<1>3. PagesIInv => NeverTwice /\ NestedWindows
  BY NeverTwiceHolds, NestedWindowsHolds
<1>4. PagesIInv /\ [LedgerNext]_ledgerVars => [Kept]_page
  BY NumbersStay DEF NumbersKept
<1>5. QED
  BY <1>1, <1>2, <1>3, <1>4, PTL DEF LedgerSpec, PagesAgree, TurnNumbersStable

=============================================================================
