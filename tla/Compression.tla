------------------------------ MODULE Compression ------------------------------
(***************************************************************************)
(* router/context_compression.py: what ContextCompressor.maybe_compress()  *)
(* makes of a transcript that grows turn by turn, as an agent's does: the  *)
(* client sends the whole of it every time, and it is compressed afresh.   *)
(* A text is a head of max_chars characters and what follows it; truncated,*)
(* it is the head and the note that says so.                               *)
(***************************************************************************)
EXTENDS Common, Integers, SequencesExt

CONSTANTS
    Heads,        \* the first max_chars characters of texts
    Calls,        \* the tools an assistant calls, with their arguments
    KeepRecent,   \* keep_recent_msgs
    MinTokens,    \* min_tokens_to_trigger, in units of a short text
    TurnsMax      \* bound: messages of a transcript

ASSUME CompressionAssumption == {KeepRecent, MinTokens, TurnsMax} \subseteq Nat

VARIABLES
    transcript,   \* what the client sends
    enabled,      \* CONTEXT_COMPRESSION_ENABLED, read for every request
    forwarded     \* what maybe_compress() made of it

compressionVars == <<transcript, enabled, forwarded>>

\* What may follow the head: nothing, something, or something with an error
\* keyword in it; "note" only after a truncation.
Rests == {"none", "plain", "error"}

\* An assistant message that calls a tool has no text: content is None.
Turn == [role : {"user", "tool"}, head : Heads, rest : Rests, calls : {None}]
        \cup [role : {"assistant"}, head : {"empty"}, rest : {"none"}, calls : Calls]

SystemPrompt == [role |-> "system", head |-> "system", rest |-> "plain", calls |-> None]

IsLong(m) == m.rest # "none"
ContainsError(m) == m.head = "error" \/ m.rest = "error"
\* Mutant: the hash leaves the role out.
HashOfText(m) == <<m.head, m.rest>>
\* Of a message the role and the text; which tools it calls is not in the text.
ContentHash(m) == <<m.role, m.head, m.rest>>

\* estimate_tokens(), a long text counting twice.
EstimateTokens(msgs) ==
    FoldSeq(LAMBDA m, n : n + IF m.head = "empty" THEN 0 ELSE IF IsLong(m) THEN 2 ELSE 1, 0, msgs)

Truncate(m) == IF IsLong(m) THEN [m EXCEPT !.rest = "note"] ELSE m

\* The messages at some places of a sequence, in their order.
Picking(msgs, here) ==
    LET upto[n \in 0..Len(msgs)] ==
            IF n = 0 THEN <<>> ELSE IF n \in here THEN Append(upto[n - 1], msgs[n]) ELSE upto[n - 1]
    IN  upto

Pick(msgs, here) == Picking(msgs, here)[Len(msgs)]

System(msgs) == Pick(msgs, {i \in DOMAIN msgs : msgs[i].role = "system"})
NonSystem(msgs) == Pick(msgs, {i \in DOMAIN msgs : msgs[i].role # "system"})

\* Of those that are not the system's, the protected tail and the body before it.
TailSize(others) == IF KeepRecent < Len(others) THEN KeepRecent ELSE Len(others)
Recent(others) == SubSeq(others, Len(others) - TailSize(others) + 1, Len(others))
Body(others) == SubSeq(others, 1, Len(others) - TailSize(others))

\* The places where something comes for the first time.
Firsts(seq) == {i \in DOMAIN seq : \A j \in 1..i - 1 : seq[j] # seq[i]}

\* Of the body a message goes that was seen before, unless it has an error.
Kept(body) ==
    Pick(body, {i \in DOMAIN body : ContainsError(body[i])}
               \cup Firsts([i \in DOMAIN body |-> ContentHash(body[i])]))

Tidy(msgs) == [i \in DOMAIN msgs |-> Truncate(msgs[i])]

\* RuleBasedEngine.compress(): the system messages, the body without its
\* duplicates, the tail; every text but the system's cut to its head.
Compress(msgs) ==
    LET others == NonSystem(msgs)
    IN  System(msgs) \o Tidy(Kept(Body(others))) \o Tidy(Recent(others))

MaybeCompress(msgs, on) == IF on /\ EstimateTokens(msgs) >= MinTokens THEN Compress(msgs) ELSE msgs

CompressionInit ==
    /\ transcript \in {<<>>, <<SystemPrompt>>}
    /\ enabled = TRUE
    /\ forwarded = transcript

\* The client's next request: everything so far and one message more.
NextTurn(m) ==
    /\ Len(transcript) < TurnsMax
    /\ transcript' = Append(transcript, m)
    /\ forwarded' = MaybeCompress(transcript', enabled)
    /\ UNCHANGED enabled

SetEnabled == enabled' = ~enabled /\ UNCHANGED <<transcript, forwarded>>

CompressionNext == SetEnabled \/ \E m \in Turn : NextTurn(m)

CompressionSpec == CompressionInit /\ [][CompressionNext]_compressionVars

----------------------------------------------------------------------------
(* Properties *)

\* Of a text, its first max_chars characters and whether there are more.
Beginning(m) == <<m.role, m.head, IsLong(m)>>
Beginnings(msgs) == [i \in DOMAIN msgs |-> Beginning(msgs[i])]

\* Of the texts: whatever anybody said is still there, whole if it was short and marked
\* as cut if not, by the same speaker and in the order it was first said; and the recent
\* messages are there one by one.  (Not which tools were called: see CallsKept.)
SaidFirst(msgs) == LET all == Beginnings(NonSystem(msgs)) IN Pick(all, Firsts(all))
NothingSaidIsLost ==
    /\ SaidFirst(forwarded) = SaidFirst(transcript)
    /\ Beginnings(Recent(NonSystem(forwarded))) = Beginnings(Recent(NonSystem(transcript)))

\* Messages with an error keyword are not counted as duplicates: there are as many with
\* each beginning as there were.  (Not that the keyword is still in them: see Preserved.)
Errors(msgs, b) == {i \in DOMAIN msgs : ContainsError(msgs[i]) /\ Beginning(msgs[i]) = b}
Begun(msgs, b) == {i \in DOMAIN msgs : Beginning(msgs[i]) = b}
ErrorsPreserved ==
    \A b \in ToSet(Beginnings(transcript)) :
        Cardinality(Errors(transcript, b)) <= Cardinality(Begun(forwarded, b))

\* A message that has left the tail is settled: later turns forward the same body
\* before it, so that the backend's prefix cache stays good from turn to turn.
SettledPart(msgs) == SubSeq(msgs, 1, Len(msgs) - TailSize(NonSystem(msgs)))
Compressed == enabled /\ EstimateTokens(transcript) >= MinTokens
BodySettles ==
    [][Compressed /\ Compressed' /\ forwarded = Compress(transcript) /\ NonSystem(transcript) # <<>>
       => IsPrefix(SettledPart(forwarded), SettledPart(forwarded'))]_compressionVars

\* However a transcript grows and is compressed again: no text is lost up to the length
\* texts are cut to, no message with an error goes as a duplicate, and what was once
\* compressed is not compressed differently later.
CompressionSafe == [](NothingSaidIsLost /\ ErrorsPreserved) /\ BodySettles

\* context_compression.py:10: "Deduplicates consecutive identical tool results (same
\* role+content hash)": of what an assistant did nothing is dropped.
CallsOf(msgs) == {msgs[i].calls : i \in DOMAIN msgs}
CallsKept == CallsOf(forwarded) = CallsOf(transcript)

\* context_compression.py:13-15: "Preserves the system message and the most-recent
\* KEEP_RECENT_MSGS (default 4) messages unconditionally, plus any message that contains
\* an error keyword".
Preserved ==
    /\ Recent(NonSystem(forwarded)) = Recent(NonSystem(transcript))
    /\ \A m \in ToSet(transcript) : ContainsError(m) => m \in ToSet(forwarded)
============================================================================
