------------------------------ MODULE ThinkStream ------------------------------
(***************************************************************************)
(* router/route_by_size.py: async_post_call_streaming_iterator_hook and    *)
(* _split_think_stream(), which move a Qwen3 trace from the text of a      *)
(* stream to its reasoning channel, chunk by chunk.  A chunk may end in    *)
(* the middle of a tag.  The reference, Sorted, sees the whole text.       *)
(***************************************************************************)
EXTENDS Integers, Sequences, SequencesExt

CONSTANTS
    Letters,   \* what a text is made of
    Open,      \* <think>
    Close,     \* </think>
    TextMax,   \* bound: length of a text
    ChunkMax   \* bound: length of a chunk

ASSUME StreamAssumption ==
    /\ Open \in Seq(Letters) /\ Close \in Seq(Letters) /\ Len(Open) > 1 /\ Len(Close) > 1
    /\ TextMax \in Nat /\ ChunkMax \in Nat \ {0}

VARIABLES
    coming,    \* what the model has not sent yet
    buffer,    \* held back by the hook
    inThink,
    sent,      \* what the client got on each channel
    ended,     \* the chunk with the finish reason is through
    text       \* history: the whole text

streamVars == <<coming, buffer, inThink, sent, ended, text>>

Channels == {"reasoning", "content"}
Silence == [c \in Channels |-> <<>>]
ChannelOf(think) == IF think THEN "reasoning" ELSE "content"
TagOf(think) == IF think THEN Close ELSE Open   \* the tag that ends the mode

\* What came on each channel, and s on the one for it.
On(out, think, s) == [out EXCEPT ![ChannelOf(think)] = @ \o s]
From(s, i) == SubSeq(s, i, Len(s))
Upto(s, i) == SubSeq(s, 1, i)

\* str.find(): where tag begins in s, or 0.
Find(s, tag) ==
    LET hits == {i \in 1..(Len(s) - Len(tag) + 1) : SubSeq(s, i, i + Len(tag) - 1) = tag}
    IN  IF hits = {} THEN 0 ELSE CHOOSE i \in hits : \A j \in hits : i <= j

\* Mutant: no tag is ever split.
HeldNever(s, tag) == 0

\* _partial_tag_suffix_len(): the longest end of s that a tag may begin with.
Held(s, tag) ==
    LET ks == {k \in 0..(Len(tag) - 1) : k <= Len(s) /\ From(s, Len(s) - k + 1) = Upto(tag, k)}
    IN  CHOOSE k \in ks : \A j \in ks : j <= k

\* One round of _split_think_stream()'s loop: what comes out, what is left, and
\* whether a tag was found; the loop is the rounds until none is.
Round(r) ==
    LET tag == TagOf(r.inThink)
        i == Find(r.buffer, tag)
        hold == Held(r.buffer, tag)
    IN  IF i # 0
        THEN [buffer |-> From(r.buffer, i + Len(tag)), inThink |-> ~r.inThink,
              out |-> On(r.out, r.inThink, Upto(r.buffer, i - 1)), more |-> TRUE]
        ELSE [buffer |-> From(r.buffer, Len(r.buffer) - hold + 1), inThink |-> r.inThink,
              out |-> On(r.out, r.inThink, Upto(r.buffer, Len(r.buffer) - hold)), more |-> FALSE]

Split(s, think) ==
    LET rounds[n \in 0..Len(s) + 1] ==
          IF n = 0 THEN [buffer |-> s, inThink |-> think, out |-> Silence, more |-> TRUE]
          ELSE IF rounds[n - 1].more THEN Round(rounds[n - 1]) ELSE rounds[n - 1]
    IN  rounds[Len(s) + 1]

\* A delta carries both channels.
Delta(out) == [c \in Channels |-> sent[c] \o out[c]]

WholeTexts == UNION {[1..n -> Letters] : n \in 0..TextMax}

StreamInit ==
    /\ text \in WholeTexts
    /\ coming = text
    /\ buffer = <<>> /\ inThink = FALSE /\ sent = Silence /\ ended = FALSE

\* A chunk of text.
Chunk(n) ==
    /\ ~ended /\ n <= Len(coming)
    /\ LET r == Split(buffer \o Upto(coming, n), inThink)
       IN  /\ buffer' = r.buffer /\ inThink' = r.inThink
           /\ sent' = Delta(r.out)
    /\ coming' = From(coming, n + 1)
    /\ UNCHANGED <<ended, text>>

\* The chunk that has a finish reason and no text passes through.
Finish == ~ended /\ coming = <<>> /\ ended' = TRUE /\ UNCHANGED <<coming, buffer, inThink, sent, text>>

\* After the stream, what was held back goes out in a chunk of its own.
Flush ==
    /\ ended /\ buffer # <<>>
    /\ sent' = On(sent, inThink, buffer)
    /\ buffer' = <<>>
    /\ UNCHANGED <<coming, inThink, ended, text>>

StreamNext == (\E n \in 1..ChunkMax : Chunk(n)) \/ Finish \/ Flush

StreamSpec == StreamInit /\ [][StreamNext]_streamVars

----------------------------------------------------------------------------
(* Properties *)

\* The reference, letter by letter: a whole tag is skipped, any other letter goes to
\* its channel.
Sort(s, i, was) ==
    LET tag == TagOf(was.think)
    IN  IF was.skip > 0 THEN [was EXCEPT !.skip = was.skip - 1]
        ELSE IF i + Len(tag) - 1 <= Len(s) /\ SubSeq(s, i, i + Len(tag) - 1) = tag
        THEN [was EXCEPT !.think = ~was.think, !.skip = Len(tag) - 1]
        ELSE [was EXCEPT !.out = On(was.out, was.think, <<s[i]>>)]

Sorting(s) ==
    LET after[i \in 0..Len(s)] ==
          IF i = 0 THEN [think |-> FALSE, skip |-> 0, out |-> Silence]
          ELSE Sort(s, i, after[i - 1])
    IN  after

Sorted(s) == Sorting(s)[Len(s)].out

\* However the text is cut into chunks, in the middle of a tag or across several
\* of them, each channel ends up with what the reference has for it, in order.
EveryLetterSorted == ended /\ buffer = <<>> => sent = Sorted(text)

\* Nothing is shown on a channel that has to be taken back, and nothing is held
\* back but what may be the beginning of a tag.
OnlyTagsAreHeld ==
    /\ \A c \in Channels : IsPrefix(sent[c], Sorted(text)[c])
    /\ ~ended => buffer = Upto(TagOf(inThink), Len(buffer))

\* The splitter is the text's own split, cut for cut: what is sent at any moment is
\* the beginning of what the whole text would have sent, held back by at most a tag.
SplitExact == EveryLetterSorted /\ OnlyTagsAreHeld
============================================================================
