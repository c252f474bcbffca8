---------------------------- MODULE MCMaintenance ----------------------------
(***************************************************************************)
(* What runs beside the proxy: the ledger's migration, the price table and *)
(* its check for drift, the benchmark's runs, grading and bills, and the   *)
(* scripts that install a key, pull or download a model and keep the       *)
(* editor's workspace.  As in MCStores each behaviour moves one of them.   *)
(***************************************************************************)
EXTENDS SchemaMigration, Pricing, BenchLoop, BugMatch, JsonFinder, ArmRuns, Spend,
        ModelPull, HfDownload, KeyInstall, WorkspaceSync, TLC

VARIABLE part

MCAdded == <<"task_id", "task_text">>

\* Every name in the table, one that it may get, and one that is no Claude model's.
MCModelIds ==
    LET names == Prices \cup DOMAIN AliasTable
                 \cup {<<"claude", "next", "1">>, <<"claude", "opus", "4", "9">>, <<"gpt">>}
    IN  [provider : {None}, parts : names]
        \cup [provider : {"anthropic"}, parts : {Append(name, "20260416") : name \in names}]

\* Answers of no block, of one, and of two.
Fence(form, name, body) == [form |-> form, dir |-> "", name |-> name, body |-> body]
MCBlocks ==
    {<<>>} \cup {<<b>> : b \in Block}
    \cup {<<Fence(f, n, x), Fence(g, m, y)>> :
             f \in 1..2, g \in 1..2, n \in Files, m \in Files, x \in {"good", "bad"}, y \in {"good", "bad"}}
MCAnswers == [text : {TRUE}, blocks : MCBlocks] \cup {[text |-> FALSE, blocks |-> <<>>]}

\* Two layers, and a back-off that grows to its cap.
MCLayers == <<3, 2>>
MCBackoffs == <<1, 2, 3>>

\* Answers that fail in every way, pass, or print what looks like pytest's summary.
Reply(code, p, f, prints) ==
    [call |-> "ok", text |-> TRUE, code |-> code, passed |-> p, failed |-> f, prints |-> prints]
MCReplies ==
    {Reply(code, 0, 0, None) : code \in {"broken", "hangs", "uncollected"}}
    \cup {Reply("runs", 2, 0, None), Reply("runs", 1, 1, None), Reply("runs", 1, 1, [passed |-> 2, failed |-> 0]),
          [Reply("runs", 2, 0, None) EXCEPT !.call = "error", !.text = FALSE],
          [Reply("runs", 2, 0, None) EXCEPT !.text = FALSE]}

\* Pulls of one provider and of both, before, within and around the runs.
MCRan == [from |-> 2, to |-> 3]
Asked(a, from, to, who) == [arm |-> a, span |-> [from |-> from, to |-> to], providers |-> who, csv |-> FALSE, dry |-> FALSE]
Mixed == Asked("cursor-hybrid", 1, 3, {"anthropic", "cursor"})
MCAsks ==
    {Asked("claude-only", 0, 9, {"anthropic"}), Mixed, [Mixed EXCEPT !.csv = TRUE], [Mixed EXCEPT !.dry = TRUE],
     Asked("cursor-hybrid", 4, 5, {"anthropic", "cursor"}), Asked("cursor-hybrid", 3, 4, {"cursor"})}
Event(m, amount) == [model |-> m, amount |-> amount]
MCBills == {[anthropic |-> 0, cursor |-> <<Event("x", 20), Event("y", 10), Event("x", 10)>>],
            [anthropic |-> 50, cursor |-> <<Event("x", 16)>>], [anthropic |-> 10, cursor |-> <<>>]}
OneBill == CHOOSE b \in Bills : TRUE

\* One repository with files that one pattern and two match, another repository for the
\* same tag, and a pattern that matches nothing.
MCHfAsk(repo, files, tag) == [repo |-> repo, files |-> files, tag |-> tag]
MCHfAsks ==
    {MCHfAsk("bartowski", {"q3.gguf"}, "q3"), MCHfAsk("bartowski", {"q3.gguf", "q4.gguf"}, "q4"),
     MCHfAsk("unsloth", {"q4-imat.gguf"}, "q4"), MCHfAsk("unsloth", {}, "q3")}

AllVars == <<migrationVars, pricingVars, benchVars, matchVars, pullVars,
             finderVars, armVars, spendVars, hfVars, keyVars, workspaceVars, part>>

MaintenanceInit ==
    /\ part \in {"migration", "rating", "check", "bench", "match", "json", "arms", "spend",
                "pull", "hf", "key", "workspace"}
    /\ MigrationInit /\ (part # "migration" => ~table.exists)
    /\ PricingInit /\ (part # "check" => online)
    /\ BenchInit
    /\ MatchInit /\ (part # "match" => fits = <<>>)
    /\ FinderInit
    /\ ArmInit /\ (part # "arms" => ~byHand)
    /\ SpendInit /\ (part # "spend" => bill = OneBill)
    /\ PullInit /\ (part # "pull" => script = "resume" /\ got = 0)
    /\ HfInit
    /\ KeyInit /\ (part # "key" => service = "absent")
    /\ WorkspaceInit

\* The benchmark's modules stand still, and so do the others.
BenchRests == UNCHANGED <<benchVars, matchVars, finderVars, armVars, spendVars>>
ScriptsRest == UNCHANGED <<pullVars, hfVars, keyVars, workspaceVars>>
LedgerRests == UNCHANGED <<migrationVars, pricingVars>>

MigrationStep == part = "migration" /\ MigrationNext
                 /\ UNCHANGED <<pricingVars, part>> /\ BenchRests /\ ScriptsRest
ConnectStep(c) == part = "migration" /\ Connect(c)
                  /\ UNCHANGED <<pricingVars, part>> /\ BenchRests /\ ScriptsRest
PullHere(A) == part = "pull" /\ A
                /\ UNCHANGED <<hfVars, keyVars, workspaceVars, part>> /\ LedgerRests /\ BenchRests
HfStep(A) == part = "hf" /\ A /\ UNCHANGED <<pullVars, keyVars, workspaceVars, part>> /\ LedgerRests /\ BenchRests

MaintenanceNext ==
    \/ MigrationStep
    \/ part = "rating" /\ RatingNext
          /\ UNCHANGED <<migrationVars, part>> /\ BenchRests /\ ScriptsRest
    \/ part = "check" /\ CheckNext
          /\ UNCHANGED <<migrationVars, part>> /\ BenchRests /\ ScriptsRest
    \/ part = "bench" /\ BenchNext
          /\ UNCHANGED <<matchVars, finderVars, armVars, spendVars, part>> /\ LedgerRests /\ ScriptsRest
    \/ part = "match" /\ MatchNext
          /\ UNCHANGED <<benchVars, finderVars, armVars, spendVars, part>> /\ LedgerRests /\ ScriptsRest
    \/ part = "json" /\ FinderNext
          /\ UNCHANGED <<benchVars, matchVars, armVars, spendVars, part>> /\ LedgerRests /\ ScriptsRest
    \/ part = "arms" /\ ArmNext
          /\ UNCHANGED <<benchVars, matchVars, finderVars, spendVars, part>> /\ LedgerRests /\ ScriptsRest
    \/ part = "spend" /\ SpendNext
          /\ UNCHANGED <<benchVars, matchVars, finderVars, armVars, part>> /\ LedgerRests /\ ScriptsRest
    \/ PullHere(PullStep) \/ PullHere(LoopStep)
    \/ HfStep(HfNext)
    \/ part = "key" /\ KeyNext
          /\ UNCHANGED <<pullVars, hfVars, workspaceVars, part>> /\ LedgerRests /\ BenchRests
    \/ part = "workspace" /\ WorkspaceNext
          /\ UNCHANGED <<pullVars, hfVars, keyVars, part>> /\ LedgerRests /\ BenchRests

\* A process that opens the ledger gets its turn, and so do the loop around a pull that has
\* returned, the download's watchdog and an interpreter that has finished; that a pull ever
\* returns (`ollama pull` has no timeout) and that a download grows is not assumed.
MaintenanceSpec ==
    /\ MaintenanceInit /\ [][MaintenanceNext]_AllVars
    /\ \A c \in Conns : WF_AllVars(ConnectStep(c))
    /\ WF_AllVars(PullHere(LoopStep))
    /\ WF_AllVars(HfStep(WatchdogRound)) /\ WF_AllVars(HfStep(PythonEnds))

\* A bug hunt is graded by what the answer holds: an object in it is found whatever prose
\* and brackets surround it, as the outermost one, and so is an array that holds none (a
\* list of objects is not: LargestIsFound); no report is worth two bugs, and the order
\* they come in costs no match that was left to make (grader.py extract_json,
\* grade_bug_hunt).
BugHuntFair == FoundIfThere /\ FoundIsOutermost /\ OneReportOneBug /\ MatchingIsMaximal

\* The report of an arm says what was earned and what was charged: a full pass is one
\* of code that ran, every bill pulled for the arm is found for it, and the amount is
\* between what a provider charged and what the pulls together added (report.py).
ReportHonest == FullPassIsEarned /\ BillsAreFound /\ HeadlineCovers /\ HeadlineWithinPulls

\* Whatever is started ends: a process that opens the ledger among others that migrate
\* it and die, a pull that retries unless an attempt never returns, a download whose
\* connection hangs.
EverythingEnds ==
    /\ part = "migration" => EveryoneConnects
    /\ part = "pull" => PullEnds
    /\ part = "hf" => DownloadEnds
=============================================================================
