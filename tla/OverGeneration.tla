----------------------------- MODULE OverGeneration -----------------------------
(***************************************************************************)
(* The last part of async_pre_call_hook (router/route_by_size.py), after   *)
(* the model is settled: thinking, the caps of                             *)
(* router/overgeneration_control.py, the floor that takes some of them     *)
(* back, and the registration of the call.  Each step reads what the steps *)
(* before it left in the request.                                          *)
(***************************************************************************)
EXTENDS Common, Sequences, SequencesExt

CONSTANTS
    Malformed,  \* a max_tokens that is no number
    Given       \* requests as they arrive here

VARIABLES
    at,      \* the step of the hook that comes next
    data,    \* the request
    given    \* history: the request as it arrived

controlVars == <<at, data, given>>

StaticCap == 6144
FixupCap == 3072
PlanCap == 1024
ClaudeFloor == 8192
ThinkFloor == 12288

FenceStops == <<"python-fence", "py-fence">>
ClineStops == <<"/attempt_completion", "/replace_in_file", "/write_to_file", "/execute_command">>

\* The models of the two tiers, as far as these steps tell them apart: local-long
\* on a Qwen3 tag or another, the other local tiers, and the Claude aliases.
IsLocal(m) == m \in {"local-long-qwen3", "local-long", "local-agent"}
IsLocalName(m) == IsLocal(m) \/ m = "local-coder-14b"
SupportsThink(m) == m = "local-long-qwen3"
\* claude-code is pinned to Haiku (config/litellm-config.yaml).
Upstream(m) == IF m = "claude-code" THEN "claude-haiku-4-5" ELSE m

\* A message: its role, what its text shows, the directive at the start of it,
\* and how many nudges of ours it holds.
MessageShape == [role : {"system", "user", "assistant"},
                 shows : {"text", "code", "cline", "cline-plan", "other", "nudge"},
                 directive : {None, "/think", "/no_think"}, nudges : Nat]
Message(role, shows) == [role |-> role, shows |-> shows, directive |-> None, nudges |-> 0]
Nudge == [Message("system", "nudge") EXCEPT !.nudges = 1]

IsCline(ms) == ms # <<>> /\ ms[1].role = "system" /\ ms[1].shows \in {"cline", "cline-plan"}
IsPlan(ms) == IsCline(ms) /\ ms[1].shows = "cline-plan"
IsFixup(ms) ==
    /\ Len(ms) >= 3
    /\ \E i \in DOMAIN ms : ms[i].role = "assistant" /\ ms[i].shows = "code"
    /\ Last(ms).role = "user"

\* A request: its parameters, the settings read for it (thinkingMode, injection, guard)
\* and what the steps note of it (injected, thinking, running).
ControlShape ==
    [model : LocalAliases \cup ClaudeAliases \cup {"local-long-qwen3"}, messages : Seq(MessageShape),
     odd : BOOLEAN, max : Nat \cup {None, Malformed}, stop : Seq(STRING), sampling : BOOLEAN,
     thinkingMode : BOOLEAN, injection : BOOLEAN, tagLocal : BOOLEAN, guard : BOOLEAN,
     injected : BOOLEAN, thinking : BOOLEAN, running : BOOLEAN]

\* What we add to a conversation is not sent back to us: no client sees it.
ASSUME ControlAssumption ==
    /\ Given \subseteq ControlShape /\ {None, Malformed} \cap Nat = {}
    /\ None # Malformed /\ None \notin {"/think", "/no_think"}
    /\ \A g \in Given :
         /\ ~g.injected /\ ~g.thinking /\ ~g.running
         /\ \A i \in DOMAIN g.messages : g.messages[i].nudges = 0 /\ g.messages[i].shows # "nudge"

ControlInit == given \in Given /\ data = given /\ at = "read"

Step(from, to) == at = from /\ at' = to /\ UNCHANGED given

\* The trace's snapshot of the request takes the role of the first message; what
\* it raises on a list of something else is swallowed at the end of the hook.
ReadRequest ==
    /\ Step("read", IF data.odd THEN "out" ELSE "think")
    /\ UNCHANGED data

LastUser(ms) == SelectLastInSeq(ms, LAMBDA m : m.role = "user")

\* inject_qwen3_think_directive(): the last user message, unless it decided.
Inject(ms) ==
    IF LastUser(ms) = 0 \/ ms[LastUser(ms)].directive # None THEN ms
    ELSE [ms EXCEPT ![LastUser(ms)].directive = "/think"]

\* ROUTER_THINKING, and where it does not apply ROUTER_THINK_INJECTION with an
\* explicit [local] tag; both are on by default.
ThinkStep ==
    /\ Step("think", "params")
    /\ data' = IF \/ data.thinkingMode /\ SupportsThink(data.model)
                  \/ data.injection /\ IsLocalName(data.model) /\ data.tagLocal
               THEN [data EXCEPT !.messages = Inject(@), !.injected = TRUE]
               ELSE data

Thinks(m) == m \in ClaudeAliases /\ Upstream(m) # "claude-haiku-4-5"

\* apply_claude_thinking_params(); a cap that is no number counts as none.
ParamsStep ==
    /\ Step("params", "static")
    /\ data' = IF data.thinkingMode /\ Thinks(data.model)
               THEN [data EXCEPT !.thinking = TRUE, !.sampling = FALSE,
                       !.max = IF @ \in {None, Malformed} \/ @ < ClaudeFloor THEN ClaudeFloor ELSE @]
               ELSE data

Clamp(max, cap) == IF max = None \/ max > cap THEN cap ELSE max

\* Mutant: the guardrail's own stops come first.
StopsOursFirst(own, ours) == SubSeq(ours \o own, 1, IF Len(ours \o own) < 4 THEN Len(ours \o own) ELSE 4)

\* The caller's stops, then those of ours that are not among them, in their order;
\* four at most.
Stops(own, ours) ==
    LET new == {i \in DOMAIN ours : ~Contains(own, ours[i])}
        Nth(n) == CHOOSE i \in new : Cardinality(new \cap 1..i) = n
        all == Len(own) + Cardinality(new)
    IN  [n \in 1..(IF all < 4 THEN all ELSE 4) |-> IF n <= Len(own) THEN own[n] ELSE ours[Nth(n - Len(own))]]

\* apply_static_guardrail(): int() of a malformed cap raises before anything is
\* changed, and the exception is swallowed.
Static(d) ==
    IF ~IsLocal(d.model) \/ d.max = Malformed THEN d
    ELSE LET ms == d.messages
         IN  [d EXCEPT !.max = Clamp(@, IF IsPlan(ms) THEN PlanCap ELSE StaticCap),
                       !.stop = Stops(@, IF IsCline(ms) THEN ClineStops ELSE FenceStops),
                       !.messages = IF IsCline(ms) \/ \E i \in DOMAIN ms : ms[i].role = "system"
                                    THEN ms ELSE <<Nudge>> \o ms]

StaticStep == Step("static", "tighten") /\ data' = IF data.guard THEN Static(data) ELSE data

\* apply_multi_turn_tighten()
Tighten(d) ==
    IF ~IsLocal(d.model) \/ IsCline(d.messages) \/ ~IsFixup(d.messages) \/ d.max = Malformed THEN d
    ELSE [d EXCEPT !.max = Clamp(@, FixupCap), !.messages[Len(d.messages)].nudges = @ + 1]

TightenStep == Step("tighten", "floor") /\ data' = IF data.guard THEN Tighten(data) ELSE data

\* Mutant: only a request without a cap gets room to think.
FloorIfNone(d) == IF d.injected /\ d.max = None THEN [d EXCEPT !.max = ThinkFloor] ELSE d

\* The trace and the answer share the budget, so the caps are taken back.
Floor(d) ==
    IF d.injected /\ (d.max \in {None, Malformed} \/ d.max < ThinkFloor)
    THEN [d EXCEPT !.max = ThinkFloor] ELSE d

FloorStep == Step("floor", "register") /\ data' = Floor(data)

RegisterStep == Step("register", "out") /\ data' = [data EXCEPT !.running = TRUE]

ControlNext == ReadRequest \/ ThinkStep \/ ParamsStep \/ StaticStep \/ TightenStep \/ FloorStep \/ RegisterStep

ControlSpec == ControlInit /\ [][ControlNext]_controlVars

----------------------------------------------------------------------------
(* Properties *)

Leaves == at = "out" /\ ~data.odd

\* "Re-assert a floor after the guardrails to stop the trace truncating the
\* response": a turn that thinks has room for it, whichever caps ran before and
\* whatever the caller asked for.
RoomToThink == Leaves /\ data.injected => data.max \notin {None, Malformed} /\ data.max >= ThinkFloor

\* Any other turn of a local model leaves under the caller's cap and under the
\* cap of its kind: a plan, a fix-up or neither.
Capped ==
    Leaves /\ IsLocal(data.model) /\ ~data.injected /\ data.guard /\ given.max # Malformed =>
        /\ given.max # None => data.max <= given.max
        /\ data.max <= StaticCap
        /\ IsPlan(given.messages) => data.max <= PlanCap
        /\ IsFixup(given.messages) /\ ~IsCline(given.messages) => data.max <= FixupCap
        /\ given.max # None /\ given.max <= PlanCap => data.max = given.max

\* Take out what the steps put in, and the caller's conversation is there: no
\* message lost or moved, no directive of the user overruled; and Cline, which
\* parses its own harness, is never nudged.
ConversationKept ==
    Leaves =>
        LET ms == IF data.messages # <<>> /\ Head(data.messages) = Nudge THEN Tail(data.messages)
                  ELSE data.messages
            Undo(i) == [ms[i] EXCEPT !.nudges = 0,
                          !.directive = IF data.injected /\ given.messages[i].directive = None THEN None ELSE @]
        IN  /\ [i \in DOMAIN ms |-> Undo(i)] = given.messages
            /\ IsCline(given.messages) => \A i \in DOMAIN data.messages : data.messages[i].nudges = 0

\* "Callers can add their own stop sequences", and a server takes four: the
\* caller's come first, Cline's in the order of what running past them costs.
StopsKept ==
    Leaves =>
        /\ IsPrefix(SubSeq(given.stop, 1, IF Len(given.stop) < 4 THEN Len(given.stop) ELSE 4), data.stop)
        /\ Len(given.stop) <= 4 => Len(data.stop) <= 4
        /\ data.stop # given.stop => IsLocal(data.model)

\* Haiku answers 400 to adaptive thinking, and every model that thinks does to
\* sampling parameters: whatever alias a turn has by now.
ThinkingIsAccepted ==
    data.thinking => Upstream(data.model) # "claude-haiku-4-5" /\ ~data.sampling

\* A request leaves the chain of controls as one that its model can serve well: room
\* for the trace where it thinks, the caller's and the guardrails' caps where it does
\* not, and no parameter that the upstream behind its alias refuses.
RequestServes == RoomToThink /\ Capped /\ ThinkingIsAccepted

\* Whatever controls ran, in part or in full, the caller finds its conversation, its
\* directives and its stops in what is sent.
CallerKept == ConversationKept /\ StopsKept
============================================================================
