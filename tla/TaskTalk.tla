------------------------------- MODULE TaskTalk -------------------------------
(***************************************************************************)
(* What the router reads in a Cline conversation at every turn: the task   *)
(* (_extract_user_task), the fingerprint under which the sticky table and  *)
(* the ledger know it, the model tag at its head, and whether the latest   *)
(* tool result looks like a failure.  Cline sends the whole conversation   *)
(* each turn; it renders the details of the environment and the layout of  *)
(* the task anew, and drops old turns when the conversation grows long.    *)
(***************************************************************************)
EXTENDS Common, SequencesExt

CONSTANTS
    TaskTexts,    \* [says, tag, marks]: what the user may ask for, a model's tag at its head,
                  \* and which of classify()'s patterns it matches
    Signals,      \* error signals of a tool result: [panic, py, js, err: Nat]
    TalkMax       \* bound: messages sent in a conversation

VARIABLES
    protocol,     \* "envelope" (<task>...</task>) or "plain"
    turns,        \* the messages of the conversation as sent this turn
    begun,        \* the task it began with
    quoted,       \* a tool result has shown the model an envelope
    talked        \* messages so far

TagNames == {"haiku", "sonnet", "opus", "fable"}    \* _MODEL_OVERRIDE
Marks == {"local", "claude", "architecture", "files", "reasoning"}

talkVars == <<protocol, turns, begun, quoted, talked>>

NoSignals == [panic |-> 0, py |-> 0, js |-> 0, err |-> 0]

\* A task as it is written in a message: its layout, and the details that follow it.
Written(t, layout, details) ==
    [says |-> t.says, tag |-> t.tag, marks |-> t.marks, layout |-> layout, details |-> details]

ASSUME TalkAssumption ==
    /\ \A t \in TaskTexts : t.tag \in TagNames \cup {None} /\ t.marks \subseteq Marks /\ Written(t, 0, 0) # None /\ Written(t, 1, 0) # None
    /\ Signals \subseteq [panic : Nat, py : Nat, js : Nat, err : Nat]
    /\ None \notin TagNames \cup Marks

Said(role, envelope, words, hits) == [role |-> role, envelope |-> envelope, words |-> words, hits |-> hits]

\* The first message at a turn; what follows the envelope is no part of it.
Opening(n) ==
    IF protocol = "envelope" THEN Said("user", Written(begun, n % 2, 0), None, NoSignals)
    ELSE Said("user", None, Written(begun, n % 2, n), NoSignals)

TalkInit ==
    /\ protocol \in {"envelope", "plain"} /\ begun \in TaskTexts
    /\ turns = <<Opening(1)>>
    /\ quoted = FALSE /\ talked = 1

-----------------------------------------------------------------------------
\* What the router reads

FromUser == {i \in DOMAIN turns : turns[i].role = "user"}
Envelopes == {i \in FromUser : turns[i].envelope # None}

\* Mutant: the last envelope wins.
ExtractLastEnvelope ==
    IF Envelopes # {} THEN turns[Max(Envelopes)].envelope ELSE [turns[Min(FromUser)].words EXCEPT !.details = 0]

\* The first envelope in a user's message, or else what the first of them says up to
\* the details of the environment.
ExtractUserTask ==
    IF Envelopes # {} THEN turns[Min(Envelopes)].envelope ELSE [turns[Min(FromUser)].words EXCEPT !.details = 0]

\* The hash of the words, with their white space collapsed.
TaskFingerprint == [ExtractUserTask EXCEPT !.layout = 0]

\* The tag counts only at the head of the task, and stays part of it.
ModelOverride == ExtractUserTask.tag

\* classify(): the first of its patterns that the task matches, wherever in it.
Patterns == <<"local", "claude", "architecture", "files", "reasoning">>
Classify(marks) ==
    LET hits == {i \in DOMAIN Patterns : Patterns[i] \in marks}
    IN  IF hits = {} THEN None ELSE Patterns[Min(hits)]

\* What a turn is by its task alone: [local] before a model's tag, that before the rest.
TaskKind ==
    LET why == Classify(ExtractUserTask.marks)
    IN  IF why = "local" THEN "local"
        ELSE IF ModelOverride # None THEN ModelOverride
        ELSE IF why # None THEN "complex" ELSE "plain"

LatestToolResult == IF Last(turns).role = "user" THEN Last(turns).hits ELSE NoSignals

Categories(h) == {c \in {"panic", "py", "js"} : h[c] > 0} \cup {c \in {"err"} : h[c] >= 3}

\* Twice the same signal (three frames of JavaScript), or two kinds of them.
LooksLikeFailure(h) == h.panic >= 2 \/ h.py >= 2 \/ h.js >= 3 \/ \E c, d \in Categories(h) : c # d

FailedTurn == LooksLikeFailure(LatestToolResult)

-----------------------------------------------------------------------------
\* The conversation

\* The first message is rendered again, and kept when what followed it is dropped.
Answered(result, keep) ==
    /\ talked + 2 <= TalkMax /\ talked' = talked + 2
    /\ LET old == IF keep THEN Tail(turns) ELSE <<>>
       IN  turns' = <<Opening(talked')>> \o old \o <<Said("assistant", None, None, NoSignals), result>>
    /\ UNCHANGED <<protocol, begun>>

ToolResult(h, keep) == Answered(Said("user", None, None, h), keep) /\ UNCHANGED quoted

\* The model read a file, or a transcript, that has an envelope in it.
ShowsEnvelope(t, keep) == Answered(Said("user", Written(t, 0, 0), None, NoSignals), keep) /\ quoted' = TRUE

TalkNext ==
    \E keep \in BOOLEAN :
        \/ \E h \in Signals : ToolResult(h, keep)
        \/ \E t \in TaskTexts : ShowsEnvelope(t, keep)

TalkSpec == TalkInit /\ [][TalkNext]_talkVars

-----------------------------------------------------------------------------
\* Properties

(* Every turn of a conversation is known by the words and the tag it began with,
   however it is rendered and whatever was dropped, so that it finds its sticky entry
   and its turns in the ledger; only in the plain protocol, and only when an envelope
   was shown to the model, does the task change (route_by_size.py:773-775 "so the task
   fingerprint stays stable across turns of the same task").  Nor does what kind of
   task it is, and a task that says [local] is never of a kind that leaves the machine
   (:1055 "`[local]` opt-out wins over EVERYTHING"). *)
TaskStable ==
    protocol = "envelope" \/ ~quoted =>
        /\ TaskFingerprint = Written(begun, 0, 0) /\ ModelOverride = begun.tag
        /\ TaskKind = "local" <=> "local" \in begun.marks
        /\ TaskKind = "plain" <=> begun.marks = {} /\ begun.tag = None

(* A turn escalates for a failure only on two signals of its own result, of which one
   is more than a line that says error, and would on any further signal: not for what
   an earlier result showed (_latest_tool_result_text, _looks_like_failure). *)
FailureIsCorroborated ==
    FailedTurn =>
        LET h == Last(turns).hits IN
        /\ h.panic + h.py + h.js + h.err >= 2 /\ h.panic + h.py + h.js >= 1
        /\ \A c \in DOMAIN h : LooksLikeFailure([h EXCEPT ![c] = @ + 1])

\* Cline's rendering and the results it carries mislead the router neither about which
\* task a turn belongs to nor about whether it failed.
TalkUnderstood == TaskStable /\ FailureIsCorroborated
=============================================================================
