------------------------------- MODULE JsonFinder -------------------------------
(***************************************************************************)
(* bench/grader.py: extract_json(), which finds the JSON value in what a   *)
(* model answered to a bug hunt: a fenced block whose body parses, or else *)
(* the first object, or else the first array, that a scan for its brackets *)
(* finds and that parses.  A text is a sequence of tokens: brackets, a     *)
(* quotation mark, a key with its colon, a number (a word, outside of      *)
(* JSON) and a fence on a line of its own.  Commas, escapes and a fence's  *)
(* language (json fences are tried before others) are left out.            *)
(***************************************************************************)
EXTENDS Integers, SequencesExt, FiniteSetsExt

CONSTANTS AnswerMax      \* bound: tokens of an answer

ASSUME FinderAssumption == AnswerMax \in Nat

VARIABLES answer, found

finderVars == <<answer, found>>

Nothing == <<>>
Tokens == {"{", "}", "[", "]", "quote", "key", "num", "fence"}

-----------------------------------------------------------------------------
\* What json.loads accepts

Strings == {<<"quote">> \o s \o <<"quote">> : s \in UNION {[1..n -> Tokens \ {"quote", "key", "fence"}] : n \in 0..AnswerMax - 4}}
Scalars == {<<"num">>}

\* Values of depth n, and of at most AnswerMax tokens.
Values[n \in Nat] ==
    IF n = 0 THEN Scalars \cup Strings
    ELSE LET inner == {v \in Values[n - 1] : Len(v) <= AnswerMax - 2}
         IN  Values[n - 1] \cup {<<"{", "}">>, <<"[", "]">>}
             \cup {<<"[">> \o v \o <<"]">> : v \in inner}
             \cup {<<"{", "key">> \o v \o <<"}">> : v \in {w \in inner : Len(w) <= AnswerMax - 3}}
Parsing == Values[AnswerMax \div 2]
Parses(s) == s \in Parsing

-----------------------------------------------------------------------------
\* extract_json

Part(s, i, j) == SubSeq(s, i, j)

\* Bodies between one fence and the next, by pairs.
FencesOf(s) == {i \in DOMAIN s : s[i] = "fence"}
Before(s, i) == Cardinality({j \in FencesOf(s) : j < i})
Bodies(s) ==
    {p \in FencesOf(s) \X FencesOf(s) : Before(s, p[1]) % 2 = 0 /\ Before(s, p[2]) = Before(s, p[1]) + 1}
Fenced(s) == {p \in Bodies(s) : Parses(Part(s, p[1] + 1, p[2] - 1))}

\* Brackets open at i, counted from the start and outside of strings; a string begins
\* or ends at every quotation mark since the start.
Depth(s, start, i, opener, closer) ==
    LET outside == {k \in start..i : Cardinality({q \in start..k : s[q] = "quote"}) % 2 = 0}
    IN  Cardinality({k \in outside : s[k] = opener}) - Cardinality({k \in outside : s[k] = closer})

\* Where the bracket opened at `start` closes, or 0.
ClosesAt(s, start, opener, closer) ==
    LET ends == {i \in start..Len(s) : s[i] = closer /\ Depth(s, start, i, opener, closer) = 0}
    IN  IF ends = {} THEN 0 ELSE Min(ends)

\* The first start whose brackets close on something that parses.
Scan(s, opener, closer) ==
    LET good == {i \in DOMAIN s : s[i] = opener /\ LET e == ClosesAt(s, i, opener, closer)
                                                   IN  e # 0 /\ Parses(Part(s, i, e))}
    IN  IF good = {} THEN Nothing ELSE Part(s, Min(good), ClosesAt(s, Min(good), opener, closer))

ExtractJson(s) ==
    IF Fenced(s) # {}
    THEN LET p == CHOOSE b \in Fenced(s) : \A c \in Fenced(s) : b[1] <= c[1] IN Part(s, p[1] + 1, p[2] - 1)
    ELSE IF Scan(s, "{", "}") # Nothing THEN Scan(s, "{", "}") ELSE Scan(s, "[", "]")

\* The answers, token by token.
FinderInit == answer = <<>> /\ found = Nothing
FinderNext ==
    /\ Len(answer) < AnswerMax
    /\ \E t \in Tokens : answer' = Append(answer, t)
    /\ found' = ExtractJson(answer')

FinderSpec == FinderInit /\ [][FinderNext]_finderVars

-----------------------------------------------------------------------------
\* Properties

Spans == {p \in (DOMAIN answer) \X (DOMAIN answer) : p[1] < p[2]}
JsonSpans(openers) == {p \in Spans : answer[p[1]] \in openers /\ Parses(Part(answer, p[1], p[2]))}

(* Nothing is found only where there is nothing to find: whatever prose, stray
   brackets or quotation marks surround it, an object or an array that parses is not
   missed (grader.py:72-99). *)
FoundIfThere == found = Nothing <=> JsonSpans({"{", "["}) = {} /\ Fenced(answer) = {}

(* Without fences, what is found is no part of a larger object, and is an array only
   where there is no object at all, be it one of the array's own: the reports of an
   answer that is an object are not graded from its inside (grader.py:469-476). *)
FoundIsOutermost ==
    FencesOf(answer) = {} /\ found # Nothing =>
        LET kind == IF JsonSpans({"{"}) # {} THEN {"{"} ELSE {"["}
        IN  \E p \in JsonSpans(kind) : /\ found = Part(answer, p[1], p[2])
                                       /\ \A q \in JsonSpans(kind) \ {p} : ~(q[1] <= p[1] /\ p[2] <= q[2])

(* extract_json()'s docstring: "The largest balanced {...} or [...] substring that
   parses".  It is the first object that parses: of "a bare list of such objects", which
   a bug hunt may answer with (grader.py:453), the list is not found. *)
LargestIsFound ==
    FencesOf(answer) = {} => \A p \in JsonSpans({"{", "["}) : Len(found) >= p[2] - p[1] + 1
=============================================================================
