------------------------------- MODULE ArmRuns -------------------------------
(***************************************************************************)
(* The benchmark's single-answer arms: bench/runner.py asks a model the    *)
(* task several times (litellm_arm.run_arm), or an operator hands over     *)
(* what Cursor answered (cursor_session.ingest); each answer is graded by  *)
(* running the task's tests on it (grader.grade) and kept as a row, from   *)
(* which bench/report.py makes the arm's pass rate and the window in which *)
(* it looks for what the providers billed.                                 *)
(***************************************************************************)
EXTENDS Common, FiniteSetsExt, SequencesExt

CONSTANTS
    Replies,        \* [call, text, code: "broken", "hangs", "uncollected" or "runs",
                    \*  passed, failed, prints: None or what it prints as [passed, failed]]
    AttemptsAsked,  \* --attempts
    InvocationsMax, \* bound: times the runner is started
    ClockMax        \* bound: the clock

ASSUME ArmAssumption == \A reply \in Replies : reply.passed \in Nat /\ reply.failed \in Nat

VARIABLES
    byHand,         \* a Cursor arm, whose sessions are handed over, or an automated one
    benchClock,
    runner,         \* the runner: [step, attempt, started, at, reply]
    invocations,
    printed,        \* windows printed for pull_spend: [from, to]
    graded,         \* bench_runs of the arm: a sequence of rows
    called          \* for the properties: the replies whose grading went through

armVars == <<byHand, benchClock, runner, invocations, printed, graded, called>>

Idle == [step |-> "idle"]

ArmInit ==
    /\ byHand \in BOOLEAN /\ benchClock = 0 /\ runner = Idle /\ invocations = 0
    /\ printed = <<>> /\ graded = <<>> /\ called = <<>>

ClockTicks == benchClock < ClockMax /\ benchClock' = benchClock + 1
              /\ UNCHANGED <<byHand, runner, invocations, printed, graded, called>>

-----------------------------------------------------------------------------
\* Grading

Counts(p, f, e) == [passed |-> p, failed |-> f, errors |-> e, total |-> p + f + e]

\* A call that failed, or an answer that is empty: nothing is graded.
NoAnswer == [passed |-> 0, failed |-> 0, errors |-> 1, total |-> 0]

\* pytest shows what a failing test printed before its summary, and the first
\* "N passed" and "N failed" of its output are taken.
Summary(reply) ==
    IF reply.failed > 0 /\ reply.prints # None
    THEN Counts(reply.prints.passed, reply.prints.failed, 0)
    ELSE Counts(reply.passed, reply.failed, 0)

\* Mutant: what could not be run is a suite without failures.
PytestOfWhatRan(reply) ==
    IF reply.code = "runs" THEN Summary(reply) ELSE Counts(1, 0, 0)

\* _run_pytest, and grade for code that does not parse: a suite that hangs and one that
\* is not started have a total of 0, one that cannot be collected a total of 1.
Pytest(reply) ==
    IF reply.code = "runs" THEN Summary(reply)
    ELSE IF reply.code = "uncollected" THEN Counts(0, 0, 1)
    ELSE NoAnswer

GradeOf(reply) == IF reply.call = "ok" /\ reply.text THEN Pytest(reply) ELSE NoAnswer

-----------------------------------------------------------------------------
\* The runner

StartRunner ==
    /\ ~byHand /\ runner = Idle /\ invocations < InvocationsMax
    /\ invocations' = invocations + 1
    /\ runner' = [step |-> "call", attempt |-> 1, started |-> benchClock, at |-> benchClock, reply |-> None]
    /\ UNCHANGED <<byHand, benchClock, printed, graded, called>>

\* call_streaming: it returns an error, never raises one.
CallModel(reply) ==
    /\ runner.step = "call"
    /\ runner' = [runner EXCEPT !.step = "grade", !.reply = reply]
    /\ UNCHANGED <<byHand, benchClock, invocations, printed, graded, called>>

RunRow(at, reply) == [ts |-> at, ends |-> Max({at + 1, benchClock}), ok |-> reply.call = "ok", grade |-> GradeOf(reply)]

\* grade_task and record_run, and then the next attempt, or the window.
GradeAndRecord ==
    /\ runner.step = "grade"
    /\ graded' = Append(graded, RunRow(runner.at, runner.reply))
    /\ called' = Append(called, runner.reply)
    /\ IF runner.attempt < AttemptsAsked
       THEN /\ runner' = [runner EXCEPT !.step = "call", !.attempt = @ + 1, !.at = benchClock]
            /\ UNCHANGED printed
       ELSE /\ runner' = Idle
            /\ printed' = Append(printed, [from |-> runner.started, to |-> benchClock])
    /\ UNCHANGED <<byHand, benchClock, invocations>>

\* The tests are missing, the database is locked, the operator presses Ctrl-C: the
\* attempts so far keep their rows, this one has none, and no window is printed.
RunnerDies ==
    /\ runner # Idle /\ runner' = Idle
    /\ UNCHANGED <<byHand, benchClock, invocations, printed, graded, called>>

\* cursor_session: a recorded session with the times the operator noted.
IngestSession(reply, from, to) ==
    /\ byHand /\ invocations < InvocationsMax /\ reply.call = "ok"
    /\ invocations' = invocations + 1
    /\ graded' = Append(graded, [RunRow(from, reply) EXCEPT !.ends = Max({from + 1, to})])
    /\ called' = Append(called, reply)
    /\ printed' = Append(printed, [from |-> from, to |-> Max({from + 1, to})])
    /\ UNCHANGED <<byHand, benchClock, runner>>

ArmNext ==
    \/ ClockTicks \/ StartRunner \/ GradeAndRecord \/ RunnerDies
    \/ \E reply \in Replies :
          \/ CallModel(reply)
          \/ \E from \in 0..benchClock, to \in 0..benchClock : IngestSession(reply, from, to)

-----------------------------------------------------------------------------
\* The report (summarize_task)

GradedRuns == {i \in DOMAIN graded : graded[i].grade.total > 0}
FullPasses == {i \in GradedRuns : graded[i].grade.passed = graded[i].grade.total}

\* The window of every run, asked for only when there is one.
RunWindow ==
    IF graded = <<>> THEN [from |-> 0, to |-> 0]
    ELSE [from |-> Min({graded[i].ts : i \in DOMAIN graded}), to |-> Max({graded[i].ends : i \in DOMAIN graded})]

-----------------------------------------------------------------------------
\* Properties

(* An attempt counts as a full pass only when its code ran and no test failed, unless
   a failing test printed counts of its own: not when the call failed, the code did
   not parse, hung or was not collected (grader.py _run_pytest, report.py:46-58). *)
FullPassIsEarned ==
    \A i \in FullPasses : LET reply == called[i] IN
        reply.call = "ok" /\ reply.code = "runs" /\ (reply.failed = 0 \/ reply.prints # None)

(* What pull_spend is told to ask for overlaps what the report looks for, for every
   window printed and however many runs of the arm came since, so that no bill that
   was pulled is left out of the report (runner.py:46-72, report.py:69-75). *)
BillsAreFound ==
    \A i \in DOMAIN printed : printed[i].from <= RunWindow.to /\ RunWindow.from <= printed[i].to
=============================================================================
