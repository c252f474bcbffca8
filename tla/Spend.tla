-------------------------------- MODULE Spend --------------------------------
(***************************************************************************)
(* What the providers billed for a benchmark: bench/pull_spend.py asks     *)
(* each provider, through its collector, and writes what it answers as     *)
(* rows of provider_spend, and bench/report.py reads the rows that overlap *)
(* a task's runs and picks one amount for the arm.  Every row is committed *)
(* by itself and none says which pull wrote it, so pulls that fail half    *)
(* way and pulls that are repeated all leave their rows.                   *)
(***************************************************************************)
EXTENDS Common, FiniteSetsExt, SequencesExt

CONSTANTS
    Arms,        \* the benchmark's arms
    Asks,        \* pulls one may ask for: [arm, span: [from, to], providers, csv, dry]
    Ran,         \* the window of the arm's runs
    Bills,       \* what they charged at the time of the runs,
                 \* [anthropic: amount, cursor: Seq([model, amount])], in tenths of a cent
    PageSize,    \* Cursor's events on a page
    MaxPages,    \* pages read at most (50 in the code)
    PullsMax     \* bound: pulls made

ASSUME SpendAssumption ==
    /\ None # 0
    /\ Ran.from \in Nat /\ Ran.to \in Nat /\ Ran.from <= Ran.to
    /\ PageSize \in Nat \ {0} /\ MaxPages \in Nat \ {0}
    /\ Bills \subseteq [anthropic : Nat, cursor : Seq([model : STRING, amount : Nat])]
    /\ \A ask \in Asks :
          /\ ask.arm \in Arms /\ ask.providers \subseteq {"anthropic", "cursor"}
          /\ ask.csv \in BOOLEAN /\ ask.dry \in BOOLEAN
          /\ ask.span.from \in Nat /\ ask.span.to \in Nat /\ ask.span.from <= ask.span.to

VARIABLES
    bill,        \* member of Bills: what was charged
    spent,       \* the table: a sequence of [arm, span, provider, source, amount]
    asking,      \* the pull under way, or the last one
    pulls        \* every pull begun, as it was asked

spendVars == <<bill, spent, asking, pulls>>

NoPull == [stage |-> "none"]

SpendInit ==
    /\ bill \in Bills
    /\ spent = <<>> /\ asking = NoPull /\ pulls = <<>>

\* What the first n amounts come to.
Adding(amounts) ==
    LET upto[n \in 0..Len(amounts)] == IF n = 0 THEN 0 ELSE upto[n - 1] + amounts[n]
    IN  upto

Total(amounts) == Adding(amounts)[Len(amounts)]
Summed(rows) == Total([i \in DOMAIN rows |-> rows[i].amount])

-----------------------------------------------------------------------------
\* What a collector makes of an answer

Row(provider, source, amount) ==
    [arm |-> asking.ask.arm, span |-> asking.ask.span, provider |-> provider,
     source |-> source, amount |-> amount]

\* The tokens carry no price; the cost of all days is one row.
UsageRows == <<Row("anthropic", "admin-api", 0)>>
AnthropicRows == UsageRows \o <<Row("anthropic", "admin-api-cost", bill.anthropic)>>

\* int(chargedCents): of every event the fraction of a cent is dropped.
WholeCents(events) == [i \in DOMAIN events |-> [events[i] EXCEPT !.amount = @ - (@ % 10)]]

\* An event goes into its model's bucket, the models in the order they first came.
Bucket(models, event) ==
    IF \E i \in DOMAIN models : models[i].model = event.model
    THEN LET own == CHOOSE i \in DOMAIN models : models[i].model = event.model
         IN  [models EXCEPT ![own].amount = @ + event.amount]
    ELSE Append(models, event)

Bucketing(events) ==
    LET upto[n \in 0..Len(events)] == IF n = 0 THEN <<>> ELSE Bucket(upto[n - 1], events[n])
    IN  upto

\* One row per model, and one for the whole window.
CursorRows(events) ==
    LET whole == WholeCents(events)
        models == Bucketing(whole)[Len(whole)]
    IN  Append([i \in DOMAIN models |-> Row("cursor", "usage-events", models[i].amount)],
               Row("cursor", "usage-events-rollup", Summed(whole)))

CsvRows(events) == [i \in DOMAIN events |-> Row("cursor", "manual-csv", events[i].amount)]

-----------------------------------------------------------------------------
\* A pull

\* On to the next provider of those that are left, anthropic before cursor.
Onward(pull, left) ==
    [pull EXCEPT !.stage = IF left = {} THEN "exit" ELSE "ask", !.left = left,
                 !.at = IF "anthropic" \in left THEN "anthropic" ELSE "cursor"]

StartPull(ask) ==
    /\ asking.stage \in {"none", "ended"} /\ Len(pulls) < PullsMax
    /\ asking' = Onward([stage |-> "ask", at |-> "cursor", left |-> {}, ask |-> ask, todo |-> <<>>,
                         page |-> 1, events |-> <<>>, failed |-> FALSE], ask.providers)
    /\ pulls' = Append(pulls, [ask |-> ask, code |-> None])
    /\ UNCHANGED <<bill, spent>>

NextProvider(pull) == Onward(pull, pull.left \ {pull.at})

\* The rows are only counted on a dry run.
Collected(rows) ==
    asking' = IF asking.ask.dry THEN NextProvider(asking) ELSE [asking EXCEPT !.stage = "write", !.todo = rows]

Asking(provider) == asking.stage = "ask" /\ asking.at = provider

\* Two requests, of which either may fail.
CollectAnthropic == Asking("anthropic") /\ Collected(AnthropicRows) /\ UNCHANGED <<bill, spent, pulls>>

\* A page of events, until all are there, a page is empty or the pages run out.
FetchPage ==
    /\ Asking("cursor") /\ ~asking.ask.csv
    /\ LET first == (asking.page - 1) * PageSize + 1
           here == SubSeq(bill.cursor, first, Min({first + PageSize - 1, Len(bill.cursor)}))
           all == asking.events \o here
       IN  IF here = <<>> \/ Len(all) >= Len(bill.cursor) \/ asking.page = MaxPages
           THEN Collected(CursorRows(all))
           ELSE asking' = [asking EXCEPT !.page = @ + 1, !.events = all]
    /\ UNCHANGED <<bill, spent, pulls>>

ReadCsv ==
    /\ Asking("cursor") /\ asking.ask.csv
    /\ Collected(CsvRows(bill.cursor))
    /\ UNCHANGED <<bill, spent, pulls>>

\* record_provider_spend: a connection, a row and a commit of its own.
RecordRow ==
    /\ asking.stage = "write"
    /\ IF asking.todo = <<>>
       THEN asking' = NextProvider(asking) /\ UNCHANGED spent
       ELSE /\ spent' = Append(spent, Head(asking.todo))
            /\ asking' = [asking EXCEPT !.todo = Tail(@)]
    /\ UNCHANGED <<bill, pulls>>

\* No key, an error answer, an unreadable file, a locked database: the provider's
\* remaining rows are skipped and the next provider is asked.
ProviderFails ==
    /\ asking.stage \in {"ask", "write"}
    /\ asking' = NextProvider([asking EXCEPT !.todo = <<>>, !.failed = TRUE])
    /\ UNCHANGED <<bill, spent, pulls>>

Ends(code) ==
    /\ asking' = [asking EXCEPT !.stage = "ended"]
    /\ pulls' = [pulls EXCEPT ![Len(pulls)].code = code]
    /\ UNCHANGED <<bill, spent>>

ExitPull == asking.stage = "exit" /\ Ends(IF asking.failed THEN 2 ELSE 0)
Interrupted == asking.stage \notin {"none", "ended"} /\ Ends(130)

SpendNext ==
    \/ \E ask \in Asks : StartPull(ask)
    \/ CollectAnthropic \/ FetchPage \/ ReadCsv \/ RecordRow
    \/ ProviderFails \/ ExitPull \/ Interrupted

-----------------------------------------------------------------------------
\* The report

Overlaps(span) == span.from <= Ran.to /\ span.to >= Ran.from

\* provider_spend_for_window: summed by source.
Billed(rows, a, s) ==
    Total([i \in DOMAIN rows |-> IF rows[i].arm = a /\ rows[i].source = s /\ Overlaps(rows[i].span)
                                 THEN rows[i].amount ELSE 0])
BySource(a, s) == Billed(spent, a, s)
Specific == {"usage-events", "manual-csv", "admin-api-cost"}
Everything(a) ==
    BySource(a, "usage-events") + BySource(a, "manual-csv") + BySource(a, "admin-api-cost")
    + BySource(a, "admin-api") + BySource(a, "usage-events-rollup")

\* summarize_task: the largest of the specific sources, or else everything.
Headline(a) ==
    LET best == Max({BySource(a, s) : s \in Specific})
    IN  IF best > 0 THEN best ELSE Everything(a)

-----------------------------------------------------------------------------
\* Properties

\* What a pull for `ask` can learn that one provider charged: the file holds it to the
\* fraction, the pages in whole cents and only as many events as are read.
Learned(events, csv) == IF csv THEN events ELSE WholeCents(events)
Charged(ask, provider) ==
    IF provider = "anthropic" THEN bill.anthropic
    ELSE Summed(Learned(IF ask.csv THEN bill.cursor
                        ELSE SubSeq(bill.cursor, 1, Min({PageSize * MaxPages, Len(bill.cursor)})), ask.csv))

\* A pull that was asked for some of the time the arm ran.
Writes(p, a) ==
    /\ p.ask.arm = a /\ ~p.ask.dry
    /\ \E t \in p.ask.span.from..p.ask.span.to : t \in Ran.from..Ran.to

(* Once a pull exited 0 its arm's amount is never below what it could learn that a
   provider it asked charged, whatever pulls failed, were interrupted or covered other windows before
   and after: pull_spend's exit status speaks for the table (pull_spend.py main,
   db.py provider_spend_for_window). *)
HeadlineCovers ==
    \A i \in DOMAIN pulls : LET p == pulls[i] IN
        p.code = 0 /\ Writes(p, p.ask.arm) =>
            \A provider \in p.ask.providers : Headline(p.ask.arm) >= Charged(p.ask, provider)

(* An arm's amount never exceeds one provider's charge times the pulls that asked
   that provider in the same way (that it may exceed the charge itself is
   BilledIsCharged): the roll-up is not added to the rows it sums, nor
   the file's rows to the interface's, nor one arm's to another's (cursor_admin.py
   collect, report.py summarize_task). *)
HeadlineWithinPulls ==
    \A a \in Arms :
        LET times(provider, csv) ==
                Cardinality({i \in DOMAIN pulls : /\ Writes(pulls[i], a) /\ provider \in pulls[i].ask.providers
                                                  /\ (provider = "cursor" => pulls[i].ask.csv = csv)})
        IN  Headline(a) <= Max({times("anthropic", FALSE) * bill.anthropic}
                               \cup {times("cursor", c) * Summed(Learned(bill.cursor, c)) : c \in BOOLEAN})

(* When every earlier pull of the arm failed and the last one exited 0, the arm's
   amount is what its provider charged, as far as a pull can learn it: report.py:188
   "'billed$' is what the provider actually charged for the run window". The code leaves
   the rows of the pulls that failed, so that it is not. *)
BilledIsCharged ==
    pulls # <<>> =>
        LET last == pulls[Len(pulls)] IN
        /\ last.code = 0 /\ Writes(last, last.ask.arm) /\ ~last.ask.csv
        /\ \A i \in 1..Len(pulls) - 1 : pulls[i].code = 2 /\ pulls[i].ask = last.ask
        => Headline(last.ask.arm) = Max({Charged(last.ask, p) : p \in last.ask.providers})

(* After one pull, of Cursor's events alone, that read them all and exited 0 the arm's
   amount is what the dashboard says: docs/benchmarks.md:208 "`chargedCents`. Best
   granularity, matches the dashboard." and cursor_admin.py:96 "`chargedCents` is the
   field to sum to match dashboard totals". It is cut to a whole cent before it is. *)
DashboardMatched ==
    \A ask \in Asks :
        /\ pulls = <<[ask |-> ask, code |-> 0]>> /\ Writes(pulls[1], ask.arm)
        /\ ask.providers = {"cursor"} /\ ~ask.csv /\ Len(bill.cursor) <= PageSize * MaxPages
        => Headline(ask.arm) = Summed(bill.cursor)
=============================================================================
