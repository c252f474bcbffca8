------------------------------- MODULE BenchLoop -------------------------------
(***************************************************************************)
(* bench/runners/cursor_loop.py: run_loop(), an agent that is told what its*)
(* code failed and tries again, with the grading of bench/grader.py that   *)
(* it goes by (extract_files(), grade_feature_add()) and the call of       *)
(* bench/runners/litellm_arm.py.  What a file is to the grader is one of   *)
(* four things: it makes its tests pass; it does, and lacks the docstring, *)
(* the type hints or the plain imports that are scored beside them; it does*)
(* not; it does not parse.                                                 *)
(***************************************************************************)
EXTENDS Integers, Sequences, SequencesExt, FiniteSets

CONSTANTS
    Files,      \* the files the feature needs, by name
    Dirs,       \* how a path may begin: "" or a directory
    Answers,    \* what the model may answer: whether there is text, the fenced blocks in it
    TurnLimit   \* max_turns

VARIABLES
    stage,      \* where run_loop() is: "call", "grade", "persist", "done", "died"
    asked,      \* the messages of the call under way, or of the last one
    replies,    \* responses_so_far: whether there was text, the files extracted from it
    grades,     \* each turn's merged grade
    benchRows   \* bench_runs

benchVars == <<stage, asked, replies, grades, benchRows>>

\* A fenced block: the form its file name takes, its path, its body.
Block == [form : 1..3, dir : Dirs, name : Files, body : {"good", "bare", "bad", "broken"}]
Path(b) == <<b.dir, b.name>>

ASSUME BenchAssumption ==
    /\ TurnLimit \in Nat \ {0} /\ IsFiniteSet(Files) /\ Files # {}
    /\ Answers \subseteq [text : BOOLEAN, blocks : Seq(Block)]

\* A Python dict by what it is: its keys in the order they first came, with values.
\* Mutant: a key that is there keeps its value.
SetFirst(dict, key, value) ==
    IF \E i \in DOMAIN dict : dict[i].key = key THEN dict ELSE Append(dict, [key |-> key, value |-> value])

Set(dict, key, value) ==
    IF \E i \in DOMAIN dict : dict[i].key = key
    THEN [i \in DOMAIN dict |-> IF dict[i].key = key THEN [key |-> key, value |-> value] ELSE dict[i]]
    ELSE Append(dict, [key |-> key, value |-> value])

\* extract_files(): one pass over the text for each form.
Passing(dict, form, blocks) ==
    LET upto[n \in 0..Len(blocks)] ==
          IF n = 0 THEN dict
          ELSE IF blocks[n].form = form THEN Set(upto[n - 1], Path(blocks[n]), blocks[n].body) ELSE upto[n - 1]
    IN  upto

Pass(dict, form, blocks) == Passing(dict, form, blocks)[Len(blocks)]
ExtractFiles(blocks) == Pass(Pass(Pass(<<>>, 1, blocks), 2, blocks), 3, blocks)

\* dict.update(), turn by turn: _grade_layered().
Updating(dict, files) ==
    LET upto[n \in 0..Len(files)] == IF n = 0 THEN dict ELSE Set(upto[n - 1], files[n].key, files[n].value)
    IN  upto

Merging(rs) ==
    LET upto[n \in 0..Len(rs)] ==
          IF n = 0 THEN <<>> ELSE Updating(upto[n - 1], rs[n].files)[Len(rs[n].files)]
    IN  upto

Merged(rs) == Merging(rs)[Len(rs)]

\* grade_feature_add(): the files written over the codebase, by their bare names.
WriteFile(tree, entry) == [tree EXCEPT ![entry.key[2]] = entry.value]
Writing(dict) ==
    LET upto[n \in 0..Len(dict)] == IF n = 0 THEN [f \in Files |-> "base"] ELSE WriteFile(upto[n - 1], dict[n])
    IN  upto

Submission(dict) == Writing(dict)[Len(dict)]

Works(sub) == {f \in Files : sub[f] \in {"good", "bare"}}

\* There is a grade.json unless nothing was graded: no text in turn 1, no file so
\* far in a later one.  With a file that does not parse, pytest is not run.
Grade(rs) ==
    LET dict == Merged(rs)
        sub == Submission(dict)
    IN  [json |-> IF Len(rs) = 1 THEN rs[1].text ELSE dict # <<>>,
         passed |-> IF \E f \in Files : sub[f] = "broken" THEN 0 ELSE Cardinality(Works(sub)),
         files |-> sub]

AllPass == Cardinality(Files)

\* composite_score >= pass_threshold, which is 1: the weighted mean of the tests and of
\* the qualities of what was written is 1 only with all of them.
FullScore(grade) == grade.passed = AllPass /\ \A f \in Files : grade.files[f] # "bare"

User(content) == [role |-> "user", content |-> content]
Assistant(content) == [role |-> "assistant", content |-> content]

BenchInit ==
    /\ stage = "call"
    /\ asked = <<User("prompt")>>
    /\ replies = <<>> /\ grades = <<>> /\ benchRows = <<>>

\* call_streaming(): what the model wrote, or nothing when the call fails, whatever
\* had come of it by then; or turn 1 is seeded from an earlier run.
Call(answer) ==
    /\ stage = "call" /\ stage' = "grade"
    /\ replies' = Append(replies, [text |-> answer.text, files |-> ExtractFiles(answer.blocks)])
    /\ UNCHANGED <<asked, grades, benchRows>>

\* The grade that decides whether to stop and what the next message says: every
\* turn's edits stacked.
TurnGrade == Grade(replies)

NoCode == [json |-> FALSE, passed |-> 0, files |-> [f \in Files |-> "base"]]

\* _build_feedback_message(): what failed, or that there was nothing to run.  Of the
\* qualities nothing is said: with every test passed the agent is told just that.
Feedback(grade) == User(IF grade.json THEN grade ELSE NoCode)

GradeTurn ==
    /\ stage = "grade"
    /\ grades' = Append(grades, TurnGrade)
    /\ IF FullScore(TurnGrade) \/ Len(replies) = TurnLimit
       THEN stage' = "persist" /\ UNCHANGED asked
       ELSE /\ stage' = "call"
            /\ asked' = asked \o <<Assistant(replies[Len(replies)]), Feedback(TurnGrade)>>
    /\ UNCHANGED <<replies, benchRows>>

\* record_run(), a connection and a commit for each turn, after the last.
Persist ==
    /\ stage = "persist"
    /\ benchRows' = Append(benchRows, [attempt |-> Len(benchRows) + 1, passed |-> grades[Len(benchRows) + 1].passed])
    /\ stage' = IF Len(benchRows') = Len(grades) THEN "done" ELSE "persist"
    /\ UNCHANGED <<asked, replies, grades>>

\* Interrupted, or the database is locked.
DieInLoop == stage \in {"call", "persist"} /\ stage' = "died" /\ UNCHANGED <<asked, replies, grades, benchRows>>

BenchNext == (\E a \in Answers : Call(a)) \/ GradeTurn \/ Persist \/ DieInLoop

BenchSpec == BenchInit /\ [][BenchNext]_benchVars

----------------------------------------------------------------------------
(* Properties *)

\* No file goes by two paths.
PathsUsed == UNION {{replies[i].files[k].key : k \in DOMAIN replies[i].files} : i \in DOMAIN replies}
OneSpelling == \A p, q \in PathsUsed : p[2] = q[2] => p = q

\* _grade_layered()'s docstring: "we extract files from every response in chronological
\* order and concatenate them, with later turns winning on conflicts", so what is graded
\* has, of each file, the version of the last turn that wrote it, and the codebase's if
\* none did.  It does not: the dict goes by the path as it was written and keeps a key's
\* first place, the submission by the bare name, and a file that two paths name has the
\* version of the path that came second.
LaterTurnsWin ==
    grades # <<>> =>
        \A f \in Files :
            LET turns == {i \in DOMAIN grades : \E k \in DOMAIN replies[i].files : replies[i].files[k].key[2] = f}
                files == replies[Max(turns)].files
            IN  Last(grades).files[f] =
                  IF turns = {} THEN "base" ELSE files[Max({k \in DOMAIN files : files[k].key[2] = f})].value

\* They do as long as the model keeps to one path for each file.
OnePathWins == OneSpelling => LaterTurnsWin

\* The agent is asked again exactly as long as its work as a whole is short of the
\* full score, which all tests passed may be, and each time about the state its own
\* last turn left: the conversation alternates, and its n-th feedback names what the
\* n-th merged submission passes.
AskedAboutItsWork ==
    /\ \A i \in DOMAIN asked : asked[i].role = IF i % 2 = 1 THEN "user" ELSE "assistant"
    /\ \A n \in 1..((Len(asked) - 1) \div 2) : LET g == Grade(SubSeq(replies, 1, n)) IN
          /\ ~FullScore(g)
          /\ asked[2 * n] = Assistant(replies[n])
          /\ asked[2 * n + 1] = User(IF g.json THEN g ELSE NoCode)
    /\ stage \in {"persist", "done"} =>
          Len(replies) = TurnLimit \/ FullScore(Grade(replies))

\* The rows of a loop are its turns from the first on, all of them once it is done.
RowsAreTurns ==
    /\ \A i \in DOMAIN benchRows : benchRows[i].attempt = i /\ benchRows[i].passed = grades[i].passed
    /\ stage = "done" => Len(benchRows) = Len(replies)

\* The submission that is graded, the one the agent is told of, the one that stops the
\* loop and the one recorded are the same: everything written so far, and the latest of
\* it where a file goes by one path.
LoopHonest == OnePathWins /\ AskedAboutItsWork /\ RowsAreTurns
============================================================================
