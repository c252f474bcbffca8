------------------------------- MODULE ModelPull -------------------------------
(***************************************************************************)
(* The two loops that keep an `ollama pull` going over a bad network:      *)
(* scripts/resume-ollama.sh, which gives up when the partial files on disk *)
(* have not grown for STALL_WINDOW, and scripts/pull_with_heartbeat.py,    *)
(* which counts transient errors.  Ollama keeps what it has of each layer  *)
(* in a partial file, and renames the file when the layer is whole.        *)
(***************************************************************************)
EXTENDS Integers, Sequences, FiniteSets

CONSTANTS
    Layers,        \* the sizes of the model's layers, in the order they are pulled
    AttemptsMax,   \* MAX_ATTEMPTS, max_retries + 1
    StallWindow,   \* STALL_WINDOW
    Backoffs       \* sleep before the second attempt, the third, ...: the last is the cap

ASSUME PullAssumption ==
    /\ Layers \in Seq(Nat \ {0}) /\ Layers # <<>>
    /\ AttemptsMax \in Nat \ {0} /\ StallWindow \in Nat
    /\ Backoffs \in Seq(Nat \ {0}) /\ Backoffs # <<>>

VARIABLES
    script,     \* which of the two runs: "resume" or "heartbeat"
    pull,       \* the loop: "pull", "failed", "sleep", or how it ended
    attempt,    \* attempts begun
    layer,      \* the layer being pulled
    got,        \* bytes of it on disk
    lastSize,   \* last_size
    minutes,    \* time since last_change
    hung,       \* history: time since a byte came
    sizedIn     \* history: the layer that was coming when last_size was measured

pullVars == <<script, pull, attempt, layer, got, lastSize, minutes, hung, sizedIn>>
histories == <<hung, sizedIn>>

Ended == {"success", "hung", "exhausted", "fatal"}

\* total_allocated_bytes(): the partial files only.
Allocated == got

PullInit ==
    /\ script \in {"resume", "heartbeat"}
    /\ pull = "pull" /\ attempt = 1
    /\ layer = 1 /\ got \in 0..(Layers[1] - 1)   \* what an earlier loop left
    /\ lastSize = Allocated /\ minutes = 0 /\ hung = 0 /\ sizedIn = 1

\* A byte of the layer comes; with the last, its file is renamed.
Receive ==
    /\ pull = "pull" /\ layer <= Len(Layers)
    /\ IF got + 1 = Layers[layer] THEN layer' = layer + 1 /\ got' = 0 ELSE got' = got + 1 /\ UNCHANGED layer
    /\ hung' = 0
    /\ UNCHANGED <<script, pull, attempt, lastSize, minutes, sizedIn>>

Succeed ==
    /\ pull = "pull" /\ layer > Len(Layers) /\ pull' = "success"
    /\ UNCHANGED <<script, attempt, layer, got, lastSize, minutes, histories>>

\* Time passes, up to what matters.
Later(since, time) == IF since > StallWindow THEN since ELSE since + time

\* Nothing comes for a while: neither script looks at its clock before the attempt returns.
Silence ==
    /\ pull = "pull"
    /\ minutes' = Later(minutes, 1) /\ hung' = Later(hung, 1)
    /\ UNCHANGED <<script, pull, attempt, layer, got, lastSize, sizedIn>>

\* A reset, a timeout, a stream that ends without "success".
Break ==
    /\ pull = "pull" /\ pull' = "failed"
    /\ UNCHANGED <<script, attempt, layer, got, lastSize, minutes, histories>>

\* The heartbeat script does not try again what the server refuses.
ServerError ==
    /\ script = "heartbeat" /\ pull = "pull" /\ pull' = "fatal"
    /\ UNCHANGED <<script, attempt, layer, got, lastSize, minutes, histories>>

Grown == Allocated > lastSize

Since == IF Grown THEN 0 ELSE minutes

NextOrEnd(last) == IF last THEN "exhausted" ELSE "sleep"

\* resume-ollama.sh after a failed attempt.
CheckProgress ==
    /\ script = "resume" /\ pull = "failed"
    /\ lastSize' = IF Grown THEN Allocated ELSE lastSize
    /\ minutes' = Since
    /\ pull' = IF ~Grown /\ minutes > StallWindow THEN "hung" ELSE "sleep"
    /\ sizedIn' = IF Grown THEN layer ELSE sizedIn
    /\ UNCHANGED <<script, attempt, layer, got, hung>>

LastAttempt == attempt >= AttemptsMax

\* pull_with_heartbeat.py after a transient error.
CountRetry ==
    /\ script = "heartbeat" /\ pull = "failed"
    /\ pull' = NextOrEnd(LastAttempt)
    /\ UNCHANGED <<script, attempt, layer, got, lastSize, minutes, histories>>

\* The sleep before the next attempt; the resume script looks at MAX_ATTEMPTS after it.
SleepFor == Backoffs[IF attempt < Len(Backoffs) THEN attempt ELSE Len(Backoffs)]

Again == IF LastAttempt THEN pull' = "exhausted" /\ UNCHANGED attempt
                        ELSE pull' = "pull" /\ attempt' = attempt + 1

Sleep ==
    /\ pull = "sleep"
    /\ minutes' = Later(minutes, SleepFor) /\ hung' = Later(hung, SleepFor)
    /\ Again
    /\ UNCHANGED <<script, layer, got, lastSize, sizedIn>>

\* What the pull does, and what the loop around it does.
PullStep == Receive \/ Silence \/ Succeed \/ Break \/ ServerError
LoopStep == CheckProgress \/ CountRetry \/ Sleep

PullNext == PullStep \/ LoopStep

PullSpec == PullInit /\ [][PullNext]_pullVars

----------------------------------------------------------------------------
(* Properties *)

\* A loop that gives the pull up as hung has seen nothing come for longer than the window,
\* unless a layer was done since it last saw the sum grow: a partial file that is renamed
\* takes its bytes out of the sum, and what comes next is no growth until it exceeds them
\* (HungIsHung is the promise without the exception).
HungMeansHung == pull = "hung" /\ layer = sizedIn => hung > StallWindow

\* "Stop when it succeeds OR when the allocated bytes haven't grown for STALL_WINDOW
\* seconds (truly hung, not transiently failing)" (resume-ollama.sh:13-15). The code does
\* not keep it: after a layer is done a pull is called hung while its bytes come.
HungIsHung == pull = "hung" => hung > StallWindow

\* The loop's exit code tells what happened: everything is there after a success, every
\* attempt was made before the loop says so, and none is made beyond the last.
PullIsHonest ==
    /\ pull = "success" => layer > Len(Layers)
    /\ pull = "exhausted" => attempt = AttemptsMax
    /\ attempt <= AttemptsMax

\* Either script comes to an end, whatever the network does, unless one of its attempts
\* never returns: retries are counted, and a clock that is not set back runs out.
PullEnds == <>(pull \in Ended) \/ <>[](pull = "pull")

\* The same lines promise that resume-ollama.sh stops when nothing comes any more. The
\* code does not keep it: the window is looked at only after `ollama pull` has returned
\* (:67-91), which has no timeout, so that a connection that hangs holds the loop.
SilenceEndsPull == script = "resume" /\ <>[](hung > StallWindow) => <>(pull \in Ended)
=============================================================================
