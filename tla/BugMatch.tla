-------------------------------- MODULE BugMatch --------------------------------
(***************************************************************************)
(* bench/grader.py: grade_bug_hunt(), which matches the bugs a model says  *)
(* it found with the ones that are there, report by report, in the order   *)
(* they come.  How well a report fits a bug (_match_bug(): the file and    *)
(* the function, the file and two keywords, or neither) is its input.      *)
(***************************************************************************)
EXTENDS Common, Sequences, FiniteSets, FiniteSetsExt

CONSTANTS
    Truth,       \* how many bugs there are; they are numbered as the file has them
    ReportsMax   \* bound: reports of an answer

ASSUME MatchAssumption == Truth \in Nat /\ ReportsMax \in Nat /\ None \notin 1..Truth

VARIABLES
    fits,     \* of each report and bug: "none", "medium" or "strong"
    matched   \* matched_id of the reports graded so far

matchVars == <<fits, matched>>

Bugs == 1..Truth

MatchInit ==
    /\ fits \in UNION {[1..n -> [Bugs -> {"none", "medium", "strong"}]] : n \in 0..ReportsMax}
    /\ matched = <<>>

MatchedIds == {matched[r] : r \in DOMAIN matched} \ {None}

\* The bugs nobody has found yet that the report fits.
Open(r, kind) == {b \in Bugs \ MatchedIds : fits[r][b] = kind}

\* Mutant: without a strong match the report is a false positive.
BestStrong(r) == IF Open(r, "strong") # {} THEN Min(Open(r, "strong")) ELSE None

\* The first strong match or, without one, the first medium one.
Best(r) ==
    IF Open(r, "strong") # {} THEN Min(Open(r, "strong"))
    ELSE IF Open(r, "medium") # {} THEN Min(Open(r, "medium")) ELSE None

GradeReport ==
    /\ Len(matched) < Len(fits)
    /\ matched' = Append(matched, Best(Len(matched) + 1))
    /\ UNCHANGED fits

MatchNext == GradeReport

MatchSpec == MatchInit /\ [][MatchNext]_matchVars

----------------------------------------------------------------------------
(* Properties *)

MatchedReports == {r \in DOMAIN matched : matched[r] # None}
Graded == Len(matched) = Len(fits)
Pairings == {p \in [DOMAIN fits -> Bugs \cup {None}] :
                /\ \A r \in DOMAIN p : p[r] # None => fits[r][p[r]] # "none"
                /\ \A r, s \in DOMAIN p : p[r] = p[s] /\ p[r] # None => r = s}

\* Precision and recall count the same pairs, so neither exceeds one: no bug earns
\* two reports a match, however often it is reported.
OneReportOneBug == Cardinality(MatchedReports) = Cardinality(MatchedIds)

\* The order of the reports costs an answer something, but not everything: no
\* report is left that fits a bug nobody found, and at least half of the pairs of
\* the best assignment are made.
MatchingIsMaximal ==
    Graded =>
        /\ \A r \in DOMAIN fits \ MatchedReports : \A b \in Bugs \ MatchedIds : fits[r][b] = "none"
        /\ \A p \in Pairings : Cardinality({r \in DOMAIN p : p[r] # None}) <= 2 * Cardinality(MatchedReports)
============================================================================
