-------------------------- MODULE RequestTranslation --------------------------
(***************************************************************************)
(* How claude_proxy sizes and translates the requests of one Claude Code   *)
(* conversation: every turn the client sends all of it again, longer, the  *)
(* proxy estimates its tokens (_estimate_tokens) and either sends it to    *)
(* the local model in OpenAI's form (_anthropic_to_openai) or passes it    *)
(* upstream as it is.  A block is a word that stands for what it says, and *)
(* its length.                                                             *)
(***************************************************************************)
EXTENDS Common, SequencesExt

CONSTANTS
    Lengths,         \* characters in a block
    ProxyLongMax,    \* ROUTE_LONG_MAX, in tokens
    BlocksMax        \* bound: blocks said

ASSUME RequestAssumption == Lengths \subseteq Nat /\ ProxyLongMax \in Nat \ {0} /\ BlocksMax \in Nat

VARIABLES
    system,          \* the system prompt: a block, or None
    said,            \* the client's messages: [role, blocks, plain]
    words,           \* how many words were used, for fresh ones
    went             \* where the last request went: "local", "upstream" or None

requestVars == <<system, said, words, went>>

Kinds == {"text", "tool_use", "tool_result", "result parts", "image"}
Block(kind, length) == [kind |-> kind, word |-> words + 1, length |-> length]

-----------------------------------------------------------------------------
\* Translation

RoleOf(role) == IF role = "human" THEN "user" ELSE role

\* Mutant: a result made of parts has no text of its own.
HasOwnText(b) == b.kind \notin {"image", "result parts"}

\* What a block becomes in a plain string: its text, the call as JSON, the result's
\* text or that of its parts; an image has neither text nor content.
HasText(b) == b.kind # "image"

\* What of a message's first n blocks is in the string.
Flattening(blocks) ==
    LET upto[n \in 0..Len(blocks)] ==
          IF n = 0 THEN <<>>
          ELSE IF HasText(blocks[n]) THEN Append(upto[n - 1], blocks[n]) ELSE upto[n - 1]
    IN  upto

Flattened(blocks) == Flattening(blocks)[Len(blocks)]

\* The system prompt comes first; the tools the client offers are left out, and the
\* parameters that go along (max_tokens, stop, ...) are not looked at here.
ToOpenAI(messages) ==
    (IF system = None THEN <<>> ELSE <<[role |-> "system", content |-> Flattened(<<system>>)]>>)
    \o [i \in DOMAIN messages |-> [role |-> RoleOf(messages[i].role), content |-> Flattened(messages[i].blocks)]]

-----------------------------------------------------------------------------
\* Size

Adding(lengths) ==
    LET upto[n \in 0..Len(lengths)] == IF n = 0 THEN 0 ELSE upto[n - 1] + lengths[n]
    IN  upto

Total(lengths) == Adding(lengths)[Len(lengths)]

\* A call's input is an object, whose len() is its number of keys (one here); a
\* result's content is not looked at, nor the system prompt.
Counted(b) == IF b.kind = "text" THEN b.length ELSE IF b.kind = "tool_use" THEN 1 ELSE 0

EstimatedTokens(messages) ==
    LET counted(blocks) == Total([j \in DOMAIN blocks |-> Counted(blocks[j])])
        chars == Total([i \in DOMAIN messages |-> counted(messages[i].blocks)])
    IN  IF messages = <<>> THEN 0 ELSE IF chars * 10 < 36 THEN 1 ELSE (chars * 10) \div 36

-----------------------------------------------------------------------------
\* The conversation

RequestInit ==
    /\ system \in {None} \cup {[kind |-> "text", word |-> 0, length |-> n] : n \in Lengths}
    /\ said = <<>> /\ words = 0 /\ went = None

\* The client appends a message, or a block to its last one, and sends everything.
Sends(messages) ==
    /\ words < BlocksMax /\ words' = words + 1
    /\ said' = messages
    /\ went' = IF EstimatedTokens(messages) <= ProxyLongMax THEN "local" ELSE "upstream"
    /\ UNCHANGED system

SayPlain(role, n) == Sends(Append(said, [role |-> role, blocks |-> <<Block("text", n)>>, plain |-> TRUE]))
SayBlock(role, kind, n) == Sends(Append(said, [role |-> role, blocks |-> <<Block(kind, n)>>, plain |-> FALSE]))
AddBlock(kind, n) ==
    /\ said # <<>> /\ ~said[Len(said)].plain
    /\ Sends([said EXCEPT ![Len(said)].blocks = Append(@, Block(kind, n))])

RequestNext ==
    \E n \in Lengths :
        \/ \E role \in {"user", "human", "assistant"} : SayPlain(role, n)
        \/ \E kind \in Kinds : \/ AddBlock(kind, n)
                               \/ SayBlock(IF kind = "tool_use" THEN "assistant" ELSE "user", kind, n)

RequestSpec == RequestInit /\ [][RequestNext]_requestVars

-----------------------------------------------------------------------------
\* Properties

\* All the blocks of a conversation, in one sequence.
Joining(messages) ==
    LET upto[n \in 0..Len(messages)] == IF n = 0 THEN <<>> ELSE upto[n - 1] \o messages[n].blocks
    IN  upto

Blocks(messages) == Joining(messages)[Len(messages)]
Says(b) == b.kind # "image"

(* The local model is told what the client's model would be told, all of it, in the
   order it was said and by whom: the system prompt first, text, tool calls and both
   forms of results in their messages; only pictures are lost
   (server.py _content_to_str, _anthropic_to_openai). *)
WordsKept ==
    LET out == ToOpenAI(said)
        body == IF system = None THEN out ELSE Tail(out)
    IN  /\ system # None => Head(out) = [role |-> "system", content |-> <<system>>]
        /\ Len(body) = Len(said)
        /\ \A i \in DOMAIN said :
             LET told == body[i].content
             IN  /\ ToSet(told) = {b \in ToSet(said[i].blocks) : Says(b)}
                 /\ \A j, k \in DOMAIN told : j < k => told[j].word < told[k].word
                 /\ body[i].role = IF said[i].role = "assistant" THEN "assistant" ELSE "user"

(* A conversation without tools stays local only while what was said fits: a request
   that goes local has no more text than the threshold allows, and one that goes
   upstream has more (server.py:575 with the estimate of :191). *)
TalkFits ==
    went # None /\ (\A i \in DOMAIN Blocks(said) : Blocks(said)[i].kind \in {"text", "image"}) =>
        LET all == Blocks(said)
            text == Total([i \in DOMAIN all |-> IF all[i].kind = "text" THEN all[i].length ELSE 0])
        IN  (went = "local") <=> (text * 10 < 36 * (ProxyLongMax + 1))

(* What goes to the local model fits, tools or not: server.py:209 says of the estimate
   that "tool_use / tool_result blocks also carry text". The code counts the keys of a
   call's input and nothing of a result, so that a long agent's talk stays local. *)
AgentTalkFits ==
    went = "local" =>
        LET all == Blocks(said)
        IN  Total([i \in DOMAIN all |-> IF Says(all[i]) THEN all[i].length ELSE 0]) * 10 < 36 * (ProxyLongMax + 1)

\* A conversation in Anthropic's form reaches the local model whole, and goes to it
\* only where it fits (server.py _anthropic_to_openai, messages_create).
RequestFaithful == WordsKept /\ TalkFits
=============================================================================
