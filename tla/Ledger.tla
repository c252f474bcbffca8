-------------------------------- MODULE Ledger --------------------------------
(***************************************************************************)
(* cost/cost.db and .logs/active.json, between the proxy that writes them  *)
(* (route_by_size.py: the success and failure hooks) and the dashboard     *)
(* that reads both (dashboard/app.py, cost/savings.py) and writes the      *)
(* other table (compare/ab.py).                                            *)
(*                                                                         *)
(* The hooks run on the proxy's one event loop; a flush of the mirror is   *)
(* one step here, which ActiveRegistry justifies.  SQLite lets one         *)
(* connection write at a time; a reader sees what is committed.            *)
(***************************************************************************)
EXTENDS Common, Sequences, FiniteSets

CONSTANTS
    Turns,        \* requests
    TaskOf,       \* the Cline task of each, or None
    Nameless,     \* the turns LiteLLM gives no call id
    Pages,        \* browser tabs, each polling one page
    Windows,      \* lengths of the three windows of /stats: a day, a week, all time
    RecentLimit,  \* LIMIT of the recent requests
    PageMax       \* bound: a page is rendered within this

ASSUME LedgerAssumption ==
    /\ Nameless \subseteq Turns /\ None \notin Turns \cup Pages \cup {"proxy", "compare"}
    /\ Windows \in Seq(Nat) /\ Len(Windows) = 3 /\ RecentLimit \in Nat \ {0} /\ PageMax \in Nat
    /\ \A i, j \in 1..3 : i < j => Windows[i] + PageMax <= Windows[j]

VARIABLES
    seconds,   \* int(time.time())
    turn,      \* where each turn is in LiteLLM and in its hook
    inflight,  \* active.json
    rows,      \* the committed rows of `requests`, by id
    open,      \* the rows of the proxy's open transaction
    writer,    \* who holds SQLite's write lock: "proxy", "compare" or None
    compares,  \* the A/B comparison of the dashboard: "idle", "inserted" or "failed"
    refused,   \* turns whose row the hook could not insert, and said so on stderr
    page       \* what each tab has read so far

ledgerVars == <<seconds, turn, inflight, rows, open, writer, compares, refused, page>>

Tasks == {TaskOf[t] : t \in Turns} \ {None}
Row(t) == [turn |-> t, ts |-> seconds]
TurnsIn(s) == {s[i].turn : i \in DOMAIN s}

\* What a query answers is the set of the ids of its rows: their turns, ...
TurnsAt(ids) == {rows[i].turn : i \in ids}
\* ... and what ORDER BY id DESC puts before the row i, ...
Newer(ids, i) == {j \in ids : j > i}
\* ... with LIMIT RecentLimit.
Latest(ids) == {i \in ids : Cardinality(Newer(ids, i)) < RecentLimit}

Blank == [kind |-> "none", step |-> 0, began |-> 0, task |-> None, counts |-> <<>>, left |-> {},
          recent |-> {}, active |-> {}, numbers |-> [t \in Turns |-> 0]]

LedgerInit ==
    /\ seconds = 0
    /\ turn = [t \in Turns |-> "new"]
    /\ inflight = {}
    /\ rows = <<>> /\ open = <<>>
    /\ writer = None /\ compares = "idle"
    /\ refused = {}
    /\ page = [p \in Pages |-> Blank]

----------------------------------------------------------------------------
(* The hooks *)

\* A hook is a synchronous call: no other turn's runs before it ends.
LoopFree == \A t \in Turns : turn[t] \notin {"dropped", "inserted"}
GoesTo(t, at) == turn' = [turn EXCEPT ![t] = at]

\* _register_active() at the end of the pre-call hook.
Begin(t) ==
    /\ LoopFree /\ turn[t] = "new" /\ GoesTo(t, "running")
    /\ inflight' = inflight \cup {t}
    /\ UNCHANGED <<seconds, rows, open, writer, compares, refused, page>>

\* _drop_active() finds nothing to drop without a call id.
Dropped(t) == IF t \in Nameless THEN inflight ELSE inflight \ {t}

\* log_failure_event(): no row.
Failure(t) ==
    /\ LoopFree /\ turn[t] = "running" /\ GoesTo(t, "failed")
    /\ inflight' = Dropped(t)
    /\ UNCHANGED <<seconds, rows, open, writer, compares, refused, page>>

\* Mutant: _drop_active() is left to the failure hook.
RecordDropKeeps(t) ==
    /\ LoopFree /\ turn[t] = "running" /\ GoesTo(t, "dropped")
    /\ UNCHANGED <<seconds, inflight, rows, open, writer, compares, refused, page>>

\* Mutant: the INSERT begins a transaction of its own and drops the one left open.
RecordInsertAfresh(t) ==
    /\ turn[t] = "dropped" /\ writer \in {None, "proxy"}
    /\ GoesTo(t, "inserted")
    /\ writer' = "proxy"
    /\ open' = <<Row(t)>>
    /\ UNCHANGED <<seconds, inflight, rows, compares, refused, page>>

\* _record(), first its _drop_active() ...
RecordDrop(t) ==
    /\ LoopFree /\ turn[t] = "running" /\ GoesTo(t, "dropped")
    /\ inflight' = Dropped(t)
    /\ UNCHANGED <<seconds, rows, open, writer, compares, refused, page>>

\* ... then the INSERT, which opens a transaction, or joins one left open, ...
RecordInsert(t) ==
    /\ turn[t] = "dropped" /\ writer \in {None, "proxy"}
    /\ GoesTo(t, "inserted")
    /\ writer' = "proxy"
    /\ open' = Append(open, Row(t))
    /\ UNCHANGED <<seconds, inflight, rows, compares, refused, page>>

\* ... or gives up after 5 s on a locked database: an exception, printed.
RecordLockedOut(t) ==
    /\ turn[t] = "dropped" /\ writer = "compare"
    /\ GoesTo(t, "over")
    /\ refused' = refused \cup {t}
    /\ UNCHANGED <<seconds, inflight, rows, open, writer, compares, page>>

\* ... and the commit.
RecordCommit(t) ==
    /\ turn[t] = "inserted" /\ GoesTo(t, "over")
    /\ rows' = rows \o open
    /\ open' = <<>> /\ writer' = None
    /\ UNCHANGED <<seconds, inflight, compares, refused, page>>

\* Mutant: the failed commit lets go of the lock.
RecordCommitBusyUnlocks(t) ==
    /\ turn[t] = "inserted" /\ GoesTo(t, "over")
    /\ writer' = None
    /\ UNCHANGED <<seconds, inflight, rows, open, compares, refused, page>>

\* The commit waits for the readers; after 5 s it raises.  That is printed, and
\* the transaction stays open, with the lock, until the next turn's commit.
RecordCommitBusy(t) ==
    /\ turn[t] = "inserted" /\ GoesTo(t, "over")
    /\ UNCHANGED <<seconds, inflight, rows, open, writer, compares, refused, page>>

\* The proxy dies and starts again: __init__() flushes an empty dict, SQLite
\* rolls back what was not committed.
ProxyRestart ==
    /\ \E t \in Turns : turn[t] \in {"running", "dropped", "inserted"}
    /\ turn' = [t \in Turns |-> IF turn[t] \in {"running", "dropped", "inserted"} \/ t \in TurnsIn(open)
                                THEN "died" ELSE turn[t]]
    /\ inflight' = {} /\ open' = <<>>
    /\ writer' = IF writer = "proxy" THEN None ELSE writer
    /\ UNCHANGED <<seconds, rows, compares, refused, page>>

\* record_comparison(), on a connection of its own, closed in any case.
CompareInsert ==
    /\ compares = "idle" /\ writer = None
    /\ compares' = "inserted" /\ writer' = "compare"
    /\ UNCHANGED <<seconds, turn, inflight, rows, open, refused, page>>

CompareLockedOut ==
    /\ compares = "idle" /\ writer = "proxy"
    /\ compares' = "failed"
    /\ UNCHANGED <<seconds, turn, inflight, rows, open, writer, refused, page>>

CompareCommit ==
    /\ compares = "inserted"
    /\ compares' = "idle" /\ writer' = None
    /\ UNCHANGED <<seconds, turn, inflight, rows, open, refused, page>>

----------------------------------------------------------------------------
(* The pages: every query sees the rows committed by then *)

Show(p, step, rec) == /\ page[p].step = step
                      /\ page' = [page EXCEPT ![p] =
                           [rec EXCEPT !.step = step + 1, !.began = IF step = 0 THEN seconds ELSE rec.began]]
                      /\ UNCHANGED <<seconds, turn, inflight, rows, open, writer, compares, refused>>

\* summarize(): the rows of a window that ends now.
Within(w) == {i \in DOMAIN rows : seconds - rows[i].ts <= Windows[w]}

\* /stats: three summaries, each on a connection of its own, ...
StatsWindow(p, w) ==
    /\ page[p].kind = (IF w = 1 THEN "none" ELSE "stats")
    /\ Show(p, w - 1, [page[p] EXCEPT !.kind = "stats", !.counts = Append(page[p].counts, TurnsAt(Within(w)))])

\* ... the last rows, ...
StatsRecent(p) ==
    /\ page[p].kind = "stats"
    /\ Show(p, 3, [page[p] EXCEPT !.recent = TurnsAt(Latest(DOMAIN rows))])

\* ... and the mirror.
StatsActive(p) == page[p].kind = "stats" /\ Show(p, 4, [page[p] EXCEPT !.active = inflight])

RowsOf(k) == {i \in DOMAIN rows : TaskOf[rows[i].turn] = k}

\* turn_num = total - i, i from the newest row on.
TurnNumber(own, i) == Cardinality(own) - Cardinality(Newer(own, i))

\* /tasks/_list: one query for the turns of every task, ...
TasksList(p) ==
    /\ page[p].kind = "none"
    /\ LET own == {t \in TurnsIn(rows) : TaskOf[t] # None}
       IN  Show(p, 0, [page[p] EXCEPT !.kind = "list", !.counts = <<own, {}>>,
                                      !.left = {TaskOf[t] : t \in own}])

\* ... and then one for the tiers of each.
TasksTiers(p, k) ==
    /\ page[p].kind = "list" /\ k \in page[p].left
    /\ Show(p, page[p].step, [page[p] EXCEPT !.counts = <<page[p].counts[1], page[p].counts[2] \cup TurnsAt(RowsOf(k))>>,
                                                !.left = page[p].left \ {k}])

\* Opening /tasks/<id>: a row of it, ...
OpenTask(p, k) ==
    /\ page[p].kind = "none"
    /\ Show(p, 0, [page[p] EXCEPT !.kind = "open", !.task = k, !.recent = TurnsAt(RowsOf(k))])

\* ... or a turn in the mirror; a 404 without either.
OpenActive(p) ==
    /\ page[p].kind = "open"
    /\ LET known == page[p].recent # {} \/ \E t \in inflight : TaskOf[t] = page[p].task
       IN  Show(p, 1, [page[p] EXCEPT !.kind = IF known THEN "opened" ELSE "missing", !.recent = {}])

\* The opened page keeps polling: /tasks/<id>/_live numbers its rows, ...
TaskRows(p) ==
    /\ page[p].kind = "task"
    /\ LET own == RowsOf(page[p].task)
       IN  Show(p, 0, [page[p] EXCEPT
             !.recent = TurnsAt(own),
             !.numbers = [t \in Turns |-> IF t \in TurnsAt(own)
                 THEN TurnNumber(own, CHOOSE i \in own : rows[i].turn = t) ELSE 0]])

\* ... and looks for the task in the mirror.
TaskActive(p) ==
    /\ page[p].kind = "task"
    /\ LET own == {t \in inflight : TaskOf[t] = page[p].task}
       IN  Show(p, 1, [page[p] EXCEPT !.active = own])

\* monitor_data(): the mirror first, then the day's rows, ...
MonitorActive(p) ==
    page[p].kind = "none" /\ Show(p, 0, [page[p] EXCEPT !.kind = "monitor", !.active = inflight])

MonitorCalls(p) ==
    page[p].kind = "monitor" /\ Show(p, 1, [page[p] EXCEPT !.recent = TurnsAt(Latest(Within(1)))])

\* ... and today_summary(), which reads the dict of summarize() by attributes: that
\* raises, the exception is swallowed, and the day's total is 0.
MonitorSummary(p) == page[p].kind = "monitor" /\ Show(p, 2, [page[p] EXCEPT !.counts = <<{}>>])

\* How many steps a page takes; then the tab polls again.
Steps(pg) == CASE pg.kind = "stats" -> 5 [] pg.kind = "monitor" -> 3
               [] pg.kind \in {"open", "opened", "missing", "task"} -> 2
               [] pg.kind = "list" -> pg.step + Cardinality(pg.left) [] OTHER -> -1
Loaded(p) == page[p].step = Steps(page[p])
Loading(p) == page[p].step \in 1..(Steps(page[p]) - 1)

Again(p) ==
    /\ Loaded(p)
    /\ page' = [page EXCEPT ![p] =
         IF page[p].kind \in {"opened", "task"}
         THEN [Blank EXCEPT !.kind = "task", !.task = page[p].task, !.numbers = page[p].numbers]
         ELSE Blank]
    /\ UNCHANGED <<seconds, turn, inflight, rows, open, writer, compares, refused>>

LedgerTick ==
    /\ seconds < MaxTime /\ seconds' = seconds + 1
    /\ \A p \in Pages : Loading(p) => seconds - page[p].began < PageMax
    /\ UNCHANGED <<turn, inflight, rows, open, writer, compares, refused, page>>

Hook(t) == RecordInsert(t) \/ RecordLockedOut(t) \/ RecordCommit(t) \/ RecordCommitBusy(t)

LedgerNext ==
    \/ \E t \in Turns : Begin(t) \/ Failure(t) \/ RecordDrop(t) \/ Hook(t)
    \/ ProxyRestart \/ CompareInsert \/ CompareLockedOut \/ CompareCommit
    \/ \E p \in Pages : \/ \E w \in DOMAIN Windows : StatsWindow(p, w)
                       \/ StatsRecent(p) \/ StatsActive(p)
                       \/ TasksList(p) \/ (\E k \in Tasks : TasksTiers(p, k) \/ OpenTask(p, k))
                       \/ OpenActive(p) \/ TaskRows(p) \/ TaskActive(p)
                       \/ MonitorActive(p) \/ MonitorCalls(p) \/ MonitorSummary(p) \/ Again(p)
    \/ LedgerTick

LedgerSpec == LedgerInit /\ [][LedgerNext]_ledgerVars

----------------------------------------------------------------------------
(* Properties *)

\* Types, and: the proxy holds the write lock exactly while it has a transaction
\* open, which a commit that failed leaves behind for the next turn to finish.
LedgerTypeOK ==
    /\ seconds \in 0..MaxTime
    /\ turn \in [Turns -> {"new", "running", "dropped", "inserted", "over", "failed", "died"}]
    /\ inflight \subseteq Turns /\ refused \subseteq Turns
    /\ \A s \in {rows, open} : \A i \in DOMAIN s : s[i] \in [turn : Turns, ts : 0..MaxTime]
    /\ writer = "proxy" <=> open # <<>>
    /\ writer = "compare" <=> compares = "inserted"

\* _record() bills every success once: a turn whose hook is over has one row,
\* committed or in the transaction left open, or its loss was reported; a
\* failure has none; and only a crash of the proxy takes a row back.
BilledOnce ==
    /\ \A t \in Turns :
         LET n == Cardinality({i \in DOMAIN rows : rows[i].turn = t})
                  + Cardinality({i \in DOMAIN open : open[i].turn = t})
         IN  /\ n <= 1
             /\ turn[t] = "over" => (n = 1) # (t \in refused)
             /\ turn[t] \in {"new", "running", "failed"} => n = 0

\* /stats and the page of a task never show a turn as running and as finished:
\* _record() drops before it inserts, and the pages read the rows before the
\* mirror.  Two processes each keep an order for it.  /monitor reads them the other
\* way round, and shows twice only what was recorded since it began.
NeverTwice ==
    \A p \in Pages : Loaded(p) =>
        \A t \in (page[p].recent \cap page[p].active) \ Nameless :
            page[p].kind = "monitor" /\ \E i \in DOMAIN rows : rows[i].turn = t /\ rows[i].ts >= page[p].began

\* One page of /stats: what happened today is part of the week, and the week of all
\* time, though each is a query of its own while turns are being recorded (and the page
\* takes less than a window).  In the list of tasks, the tiers count every turn of a row.
NestedWindows ==
    \A p \in Pages : Loaded(p) =>
        \A i, j \in DOMAIN page[p].counts : i < j => page[p].counts[i] \subseteq page[p].counts[j]

\* A turn stays on its task's page, and keeps its number, from one poll to the next,
\* whatever is recorded or lost in between.
TurnNumbersStable ==
    [][\A p \in Pages, t \in Turns :
         page[p].numbers[t] # 0 => page'[p].numbers[t] = page[p].numbers[t]]_page

\* The pages agree with each other and with themselves, though each reads the ledger
\* in several statements between the hooks' commits: no turn is both running and
\* finished, a window holds what a shorter one holds, tiers cover the turns they are counted
\* for, a turn keeps its number.
PagesAgree == [](NeverTwice /\ NestedWindows) /\ TurnNumbersStable
============================================================================
