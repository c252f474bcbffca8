---------------------------- MODULE MCPreCallHook ----------------------------
EXTENDS PreCallHook

CONSTANTS plain, tagged, local, r1, r2

OneRequest == {r1}
TwoRequests == {r1, r2}

OneTask == {tagged}
OneKind == [t \in OneTask |-> "claude-opus-4-8"]
TwoTasks == {plain, local}
TwoKinds == [t \in TwoTasks |-> IF t = plain THEN "plain" ELSE "local"]

Ask(alias, mirror, task, kind, oversized, choice, tools) ==
    [alias |-> alias, mirror |-> mirror, task |-> task, kind |-> kind,
     oversized |-> oversized, choice |-> choice, tools |-> tools]

Named(alias, choice, tools) == Ask(alias, FALSE, None, "plain", FALSE, choice, tools)
Mirror(alias, tools) == Ask(alias, TRUE, None, "plain", FALSE, "haiku", tools)
Cline(task, choice) == Ask("hybrid-auto", FALSE, task, "plain", FALSE, choice, TRUE)
Other(kind, oversized) == Ask("hybrid-auto", TRUE, None, kind, oversized, "haiku", FALSE)

\* Every kind of client, one request at a time.
EveryAsk ==
    {Cline(plain, "opus"), Cline(local, "opus"), Named("claude-code", "sonnet", FALSE),
     Named("claude-fable-5", "haiku", FALSE), Mirror("claude-opus-4-8", FALSE),
     Mirror("local-coder-32b", TRUE), Named("local-coder-14b", "opus", TRUE),
     Other("claude-haiku-4-5", FALSE), Other("local", TRUE), Other("plain", FALSE)}

\* One way to Claude per check it passes: by name, by mirror, by decide_tier().
ClaudeAsks ==
    {Named("claude-fable-5", "haiku", FALSE), Mirror("claude-opus-4-8", FALSE),
     Other("claude-haiku-4-5", FALSE)}

\* The turn that meets another of its kind at the await.
KeyAsks == {Named("claude-code", "sonnet", FALSE)}

\* A tagged Cline task alone.
TagAsks == {Cline(tagged, "haiku")}

\* One saturating Cline task alone.
PlainAsks == {Cline(plain, "haiku")}
=============================================================================
