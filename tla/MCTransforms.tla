----------------------------- MODULE MCTransforms -----------------------------
(***************************************************************************)
(* What a request and its answer go through on their way: the parameters   *)
(* and the tier the router gives it, the compression of its transcript,    *)
(* the splitting of a Qwen3 stream, and the translation of requests of     *)
(* Anthropic's clients; and the store that keeps a request until it is     *)
(* answered.  As in MCStores each behaviour moves one of them, and the     *)
(* others stay where they begin, in one fixed state.                       *)
(***************************************************************************)
EXTENDS OverGeneration, ThinkStream, RequestTranslation,
        Compression, SizeRouting, TaskTalk, PendingStore, TLC

VARIABLE part

\* ModelIds, conversations and parameters a request may come with.
UserSays(directive) == [Message("user", "text") EXCEPT !.directive = directive]
Talks == {<<UserSays(None)>>, <<UserSays("/no_think")>>,
          <<Message("system", "other"), UserSays(None)>>,
          <<Message("assistant", "code"), UserSays(None)>>,
          <<Message("user", "text"), Message("assistant", "code"), UserSays(None)>>,
          <<Message("system", "cline"), Message("assistant", "code"), UserSays(None)>>,
          <<Message("system", "cline-plan"), UserSays(None)>>, <<>>}
MCGiven == [model : {"local-long-qwen3", "local-long", "local-agent", "local-coder-14b",
                     "claude-code", "claude-opus-4-8", "claude-haiku-4-5"},
            messages : Talks, odd : BOOLEAN, max : {None, Malformed, 512, 4096, 20000},
            stop : {<<>>, <<"mine">>, <<"1", "2", "3", "4", "5">>, <<"py-fence">>},
            sampling : {TRUE}, thinkingMode : BOOLEAN, injection : BOOLEAN,
            tagLocal : BOOLEAN, guard : BOOLEAN,
            injected : {FALSE}, thinking : {FALSE}, running : {FALSE}]

\* Tags of three letters, and two windows that a request may miss.
MCOpen == <<"<", "t", ">">>
MCClose == <<"<", "/", ">">>
MCWindows == [m \in TurboModels |-> IF m = "local-turbo-256k" THEN 20 ELSE 41]

\* Results with every combination of a few signals, and tasks with and without tags and
\* the words that make them complex.
MCSignals ==
    [panic : 0..2, py : {0, 1}, js : {0, 2, 3}, err : {0, 2, 3}] \cup {[panic |-> 0, py |-> 2, js |-> 0, err |-> 0]}
MCTasks == {[says |-> "fix", tag |-> None, marks |-> {}],
            [says |-> "opus design", tag |-> "opus", marks |-> {"architecture"}],
            [says |-> "opus design local", tag |-> "opus", marks |-> {"local", "architecture"}],
            [says |-> "why", tag |-> None, marks |-> {"reasoning"}]}

OneRequest == CHOOSE g \in Given : TRUE
OneWork == CHOOSE r \in Requests : TRUE
OneTask == CHOOSE t \in TaskTexts : TRUE

\* Nobody is named in what the threads do, nor is any call of a tool.
Symmetric == Permutations(Workers) \cup Permutations(Threads) \cup Permutations(Calls)

AllVars == <<controlVars, streamVars, requestVars, compressionVars, sizeVars, talkVars, storeVars, part>>

\* The parts that stand still do so in one state (given before each Init, which then
\* does not enumerate the others).
Still(p) == part # p

TransformsInit ==
    /\ part \in {"controls", "think", "request", "compression", "size", "task", "pending"}
    /\ IF Still("controls") THEN given = OneRequest ELSE TRUE
    /\ IF Still("think") THEN text = <<>> ELSE TRUE
    /\ IF Still("request") THEN system = None ELSE TRUE
    /\ IF Still("compression") THEN transcript = <<>> ELSE TRUE
    /\ IF Still("size") THEN disabled = FALSE /\ turboOn = FALSE /\ work = [w \in Workers |-> OneWork] ELSE TRUE
    /\ IF Still("task") THEN protocol = "plain" /\ begun = OneTask ELSE TRUE
    /\ ControlInit /\ StreamInit /\ RequestInit /\ CompressionInit /\ SizeInit /\ TalkInit /\ StoreInit

TransformsNext ==
    \/ part = "controls" /\ ControlNext
          /\ UNCHANGED <<streamVars, requestVars, compressionVars, sizeVars, talkVars, storeVars, part>>
    \/ part = "think" /\ StreamNext
          /\ UNCHANGED <<controlVars, requestVars, compressionVars, sizeVars, talkVars, storeVars, part>>
    \/ part = "request" /\ RequestNext
          /\ UNCHANGED <<controlVars, streamVars, compressionVars, sizeVars, talkVars, storeVars, part>>
    \/ part = "compression" /\ CompressionNext
          /\ UNCHANGED <<controlVars, streamVars, requestVars, sizeVars, talkVars, storeVars, part>>
    \/ part = "size" /\ SizeNext
          /\ UNCHANGED <<controlVars, streamVars, requestVars, compressionVars, talkVars, storeVars, part>>
    \/ part = "task" /\ TalkNext
          /\ UNCHANGED <<controlVars, streamVars, requestVars, compressionVars, sizeVars, storeVars, part>>
    \/ part = "pending" /\ StoreNext
          /\ UNCHANGED <<controlVars, streamVars, requestVars, compressionVars, sizeVars, talkVars, part>>

TransformsSpec == TransformsInit /\ [][TransformsNext]_AllVars
=============================================================================
