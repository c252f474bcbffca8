# A TLA+ model of MacM4LocalAgent

MacM4LocalAgent puts a LiteLLM proxy (port 4000) in front of a local Ollama
model and of Claude, and decides for every request where it runs. The decision
is made in one callback, `SizeBasedRouter.async_pre_call_hook()` of
`src/router/route_by_size.py`, and depends on state that outlives a request:
which tasks were escalated, whether Claude is reachable, whether there is an API
key. A second proxy holds the credentials and translates between protocols, a
ledger records what every request cost, a dashboard reads it, a benchmark
measures the whole, and scripts install it. These modules model that decision,
the state behind it and what surrounds it; TLC checks them on small instances
and TLAPS proves the results of section 4 for every instance.

Line numbers are those of the modelled commit. `PROJECT.json` maps every
definition to the lines it stands for, lists the hazards at their lines with the
properties that cover them, and gives for each property a plausible mistake in
the code that violates it.

- [1. The system](#1-the-system)
- [2. The modules](#2-the-modules)
- [3. What the runs show](#3-what-the-runs-show)
- [4. What is proved](#4-what-is-proved)
- [5. Where the code and its documentation disagree](#5-where-the-code-and-its-documentation-disagree)
- [6. What is not modelled](#6-what-is-not-modelled)
- [7. Plan](#7-plan)

## 1. The system

Two Python processes serve requests: LiteLLM with the router as its callback,
and `claude_proxy` (port 4002), which holds the credentials. A third, the
dashboard, only reads files and the ledger. They share `config/detected.env`,
`cost/cost.db` and `.logs/active.json`.

    client --> LiteLLM :4000 --> pre-call hook --> Ollama, turbo backends
                                     |        \--> claude_proxy :4002 --> Anthropic
                                     |-- sticky table        (per process)
                                     |-- reachability cache  (per process, threads)
                                     |-- API-key health cache --GET /health--> claude_proxy's key cache
                                     `-- in-flight dict --flush--> active.json --> dashboard
               LiteLLM (fallbacks) --> success / failure hooks --> cost.db <--> dashboard, A/B
    Claude Code --> claude_proxy :4002 /v1/messages --> local (small) or Anthropic (large)

| Component | State | Operations | What makes it correct |
|---|---|---|---|
| **Cline routing** `decide_tier_cline`, `_check_sticky`, `_mark_sticky*`, `_extract_user_task` | `_sticky_escalations`: fingerprint -> (time, reason, turns left) | seven ways to decide a turn; eviction and countdown on every look; reading the task anew every turn | `[local]` never reaches Claude; a failure buys a bounded window; a conversation keeps its task |
| **Offline mode** `is_online`, `maybe_downgrade` | `_cache` under `_state_lock`; `OFFLINE`, `OFFLINE_STRICT` read from disk | cached check, probe outside the lock, downgrade or 503 | no answer older than its lifetime plus the calls in the way; nothing leaves for Claude on an older one |
| **Pre-call hook** | the request's `data` and metadata; `_apikey_health_cache` | strip, route, escalate (one `await`), chokepoint, redirect, thinking, over-generation controls, register | each step reads what the one before it wrote; the turn always comes out |
| **Size routing, registry** | the tokenizer, loaded once | estimate, exact count near the boundary, turbo backend | a request is on the side of the boundary its length puts it on |
| **Ledger** `_record`, `cost/ingest.py`, **dashboard pages** | `requests` table, a shared connection, its write lock | success and failure hooks, migration, pages, the A/B comparison | every success billed once; pages that agree with themselves |
| **In-flight registry** | `_active` under `_active_lock`, `active.json`, `active.json.tmp` | register, drop, flush | readers never see a torn file, and see the dict |
| **claude_proxy** | token cache, API-key cache | /health, /subscription, /apikey, /v1/messages, 429 retries, translation | bounded retries, the last 429 handed back, recent credentials, a translation that keeps what was said |
| **Pending request store** | files under `pending/`, `failed/` | persist, load, complete, fail, sweep | a crash loses no request |
| **Backend lifecycle, status API** | state, active and target backend, lock; a second manager in the API | switch_to with timeout; the helpers its users call; begin, complete, fail, reset | what is shown of a switch belongs together |
| **Context compression, over-generation, think splitter** | none, or one stream's buffer | transformations | equal to a reference that sees everything at once |
| **Pricing** | the warned ids, the file of the last check | charge, daily check | an id of the table, dated or not, is charged as the model it names |
| **Gortex monitor** | a cached answer of the daemon | polls by several threads, without a lock | what is shown as confirmed was so lately |
| **Benchmarks** | `bench_runs`, `provider_spend` | run, grade, parse, match, pull spend, report | the report says what the runs earned and what they were billed |
| **Scripts** | launchd, `detected.env`, models on disk, the workspace file | install a key, download a model, sync | what is configured exists; nothing waits for ever |

What is hard here:

- *One loop, one await.* The hook is a coroutine. It runs alone except at
  `await _api_key_available()` (line 1439), where any number of other requests
  run through the hook before it goes on with what it read earlier.
- *Verdicts that age.* Caches of facts about the world (reachability, the key,
  `/health` of a cached key, the gortex daemon, the daily price check), some of
  them in a row, each with a lifetime of its own.
- *Precedence over time.* The sticky table is consulted before the tags whose
  priority is documented as absolute, so the priority depends on what every
  branch did on earlier turns.
- *Lazy eviction.* Entries outlive their lifetime until some request looks.
- *Rewriting.* The hook's stages rewrite the model, `max_tokens`, stops and
  messages one after the other; their order is the meaning.
- *Shared files.* Several processes on one SQLite file, one mirror, one plist,
  one workspace file; a crash between any two operations.
- *Streams cut anywhere*, retries of what was partly done, watchdogs beside the
  process they watch.

`PROJECT.json` lists each hazard at its line, with the properties that cover it.

## 2. The modules

    Common                      names of models and tiers, clock bound
      |-- OfflineVerdict        verdict, lifetimes, freshness, reachability
      |     `-- OfflineMode     is_online() in several threads                -- OfflineMode_proofs
      `-- StickyEscalation      decide_tier_cline() and its table             -- StickyEscalation_proofs
            |     `-- implements EscalationLease (INSTANCE ... WITH)
            `-- PreCallHook     EXTENDS StickyEscalation, OfflineVerdict      -- PreCallHook_proofs
    ClaudeProxy                 credentials, the 429 loop, streams            -- ClaudeProxy_proofs
    MCStores        EXTENDS     Ledger                                        -- Ledger_proofs
                                ActiveRegistry, BackendSwitch, GortexMonitor  -- Services_proofs
    MCTransforms    EXTENDS     OverGeneration                                -- PreCallHook_proofs
                                PendingStore (implements RequestQueue)        -- Transforms_proofs
                                ThinkStream                                   -- Transforms_proofs
                                SizeRouting, TaskTalk                         -- Transforms_proofs
                                RequestTranslation                            -- Transforms_proofs
                                Compression                                   -- Transforms_proofs
    MCMaintenance   EXTENDS     SchemaMigration, KeyInstall, WorkspaceSync,
                                ModelPull, HfDownload                         -- Maintenance_proofs
                                Pricing, BugMatch, JsonFinder, BenchLoop      -- Maintenance_proofs
                                ArmRuns, Spend

On the right, the module with the theorems about the modules of the line.

MCStores, MCTransforms and MCMaintenance check modules that do not act on each
other, each behaviour moving the one named by `part` while the others stand
still in one state; their state spaces add up instead of multiplying. The
modules that do interact are composed for real: routing, offline mode, the key
caches of both processes and the served model in PreCallHook; hooks, pages and
the comparison in Ledger; credentials, retries and connections in ClaudeProxy.

**Common, OfflineVerdict.** The model names of `litellm-config.yaml` that
routing tells apart, `_model_to_tier()`, and the data of the reachability cache.
A cached verdict is a record `[online, ts]`; `IsFresh` is the strict comparison
of `is_online()`.

**OfflineMode.** `is_online()` as its atomic steps, for a set of threads: read
the clock (`ReadClock`, before the lock), look up under the lock (`CacheHit`,
`CacheMiss`), resolve `OFFLINE` (`ForcedVerdict`) or probe (`StartProbe`,
`Probe`) outside it, and `Store` with a new clock reading. Time, the network and
`make offline` are actions of the world. `sampledAt` and `setAt` are history
variables the program does not have. A call that began at `c` is over by
`c + CallMax`: the 1.5 s socket timeout and a bound on scheduling, which `Tick`
enforces.

**StickyEscalation.** One action per way `decide_tier_cline()` can return, in
the order of the code, each with the whole of `_check_sticky()` in it: the
eviction of *every* expired entry (`Swept`), the lookup, the countdown
(`Spend`). What the text analysis says (complex, saturated, failed, turbo
available) is the task's kind when it depends on the task alone, and a free
choice of the action otherwise. A Cline request in which no task is found falls
through to `decide_tier()`; in PreCallHook it is a request without a task. `ridden`
(turns a failure entry has paid for) is history.

**EscalationLease.** The abstract promise: a task holds at most one lease on
Claude, it ends at its time or with its last turn, and no turn goes to Claude
but on a lease or by granting one. Leases end *by themselves* and count *up*;
the code evicts when it looks and counts *down*. The mapping `LeaseOf` hides
entries that have expired but have not been swept.

**TaskTalk.** What that routing reads of a Cline conversation at each turn, in
both protocols: the task, its fingerprint, its tag, and whether the latest
result looks like a failure (counts of four kinds of signal), and the kind that
`classify()` gives the task, as its patterns in their order. The conversation
(external) grows, is rendered anew, is truncated, and may show the model a file
with a `<task>` envelope in it.

**PreCallHook.** The hook of one request as the steps between which something
else can happen: `Route` (strip the `gpt-` prefix; `decide_tier_cline`, by the
actions of StickyEscalation; or `decide_tier`), the escalation header with its
three outcomes (`NoEscalation`, `KeyCacheHit`, or `AskHealth` / `HealthAnswers` /
`Resume`), the four outcomes of `maybe_downgrade()`, and `Finish` (tool redirect,
thinking parameters, return). `loop` is the request that holds the event loop;
`AskHealth` lets go of it and `Resume` needs it back. `Serve` is LiteLLM with
its fallbacks (external) and the mark `_record()` puts on the row. The world
moves between any two steps. `lastUp` and `lastKey` are history.
`ProxyLooksUp` is claude_proxy's `_get_api_key()`, whose cached hits *and*
misses answer `/health`; `ProxyServesOthers` is the same call made for other
clients. `is_offline()` is one step here, because one thread runs the
hook and the probe blocks it; the time a probe may take is what `OfflineMode`
adds. A request's tools, header, alias, mirror prefix and task are its `ask`.

**OverGeneration.** The hook's last stage, control by control in its order, on
every combination of switches: thinking, `/think` injection, the guardrail with
its cap and stops, Cline's plan cap and stops, the fix-up tightening, the floor
for turns that think. A malformed `max_tokens` raises inside a control and skips
what is left of it, a malformed first message ends the stage (line 1608). A
message is its role, what it shows, its directive and the nudges appended to it. OVERGEN_STATIC and OVERGEN_MULTI_TURN guard two controls of the same
shape and are one switch, `guard`.

**SizeRouting.** `_estimate_tokens()` with its boundary band and the lazily
loaded tokenizer that two threads race for, the size rules of both deciders, and
`pick_turbo_backend()`. What the heuristic says of a request and what it is are any
two lengths; the tokenizer may fail to load, which lasts, or on one text, which
does not. `gaveUp` (an estimate that should have been exact and is not) is history.

**ThinkStream.** `_split_think_stream()` over chunks of a text that grows letter
by letter; `Sorted`, the reference, sees the whole text.

**ClaudeProxy.** One asyncio process. A handler owns the loop between awaits,
and a keychain read blocks it (`loop`). `/health`, `/apikey`, `/subscription`
and `/v1/messages` with the choice by size (`RouteLocal`, `RouteUpstream`); both
caches; the 429 loop with its `Retry-After`; what comes back (`LocalAnswer`,
`UpstreamAnswer`, `ForwardAnswer`); the connection of a stream. `tokenHeld` and `keyHeld` (when a
credential was last in the keychain) are history.

**RequestTranslation.** `_estimate_tokens()` and `_anthropic_to_openai()` over a
Claude Code conversation sent again at every turn. The translation of streams is
left out, section 6.

**Compression.** `maybe_compress()` of a transcript that grows turn by turn: the
threshold, the protected tail, deduplication, the errors kept, truncation. A
text is its first `max_chars` characters and what follows them; an assistant's message
that calls a tool has no text, and the call beside it.

**ActiveRegistry.** `_register_active()`, `_drop_active()` and `_flush_active()`
down to inodes: `name` says which inode each path is, `disk` what an inode
holds, so `Truncate`, `Write` and `Replace` (an atomic rename, error swallowed)
can interleave for several writers. `Restart` kills the process in any state;
`Abandon` is a call LiteLLM ends without a hook.

**PendingStore, RequestQueue.** The store's operations file by file, with a
crash between any two; the abstract queue moves a request in one step, and
the one thing a crash may do to it is to bring back a request whose failure is
already on record. While the pending file of a failed request is about to be
removed the request does not wait any more: that is the mapping.

**Ledger, SchemaMigration.** The success and failure hooks with the drop from
the in-flight dict, the insert that another process's lock may keep out, the commit that
may fail and leave its row to the next turn's; the pages of the dashboard (`/stats`, `/tasks`, a
task's page and its polls, `/monitor`) query by query;
the comparison that writes the same file. `connect()` column by column in
several processes that die in it.

**GortexMonitor.** The polls of several tabs: read the pidfile, find the cached
answer old, ask, set the time, and rebind the cache: to the answer, or, after a failure,
to a copy of what the cache was when it was copied. No lock is held, so that another
poll may come between any two of these.

**BackendSwitch.** `switch_to()` with its lazily made lock, `wait_for()` and
what the timeout handler writes; beside it users who call the helpers themselves, as
the docstring tells them to (`begin_switch()`, `complete_switch()`,
`set_active_backend()`, `set_state()`, `reset_failure()`), with the lock or without it,
`direct` being the history of that; the other manager, behind `/backend/*`, with
threads that begin, complete and fail switches while the endpoint resets.
Nothing in the repository but its tests calls these methods, nor those of the
pending store and of the compression: the callers are external, and call them in
any order.

**Pricing.** `_normalize()` on every id with and without date and prefix, against
the price table and its aliases, ids that the table lacks and that extend one it has
among them, the one-time warning, and the daily check that
each starting proxy decides on from a file.

**BenchLoop, ArmRuns, JsonFinder, BugMatch, Spend.** The feedback loop with its
accumulated files, three ways of naming them and a score that all passed tests do not
fill; the runs of an arm, their
grading by pytest's output and the window of the report; the search for JSON in
a model's answer, token by token, against every span that parses; the matching
of reports to bugs; the pulls of what providers charged, page by page and row by
row, in whole cents, and the amount the report makes of them.

**ModelPull, HfDownload, KeyInstall, WorkspaceSync.** The two loops around
`ollama pull`, which may be silent for as long as it likes; the download with its
watchdog thread and what the script does after it, run after run, with the directory and
the Modelfile that all runs for a repository share; what both promise of how they ended (`DownloadsHonest`); the way of a
key from a plist over launchd into LiteLLM's environment, with the service launchd keeps alive, a process started by hand, reboots and
interrupted runs; the workspace file that several terminals and Cursor write, with
comments or without.

Operators whose comment begins "Mutant:" are not part of the model. Each is a
plausible mistake in the code, kept to show that the property named for it in
`PROJECT.json` fails when the mistake is made. Statements that quote a text of the
repository are what section 5 is about: TLC finds them violated.

## 3. What the runs show

`tlc -config X.cfg M` for each row; sizes are distinct states.

| Run | Instance | States | Shows |
|---|---|---|---|
| `offline_threads` | 2 threads, lifetimes 2 and 1, calls of 1, clock to 4 | 352 902 | `BoundedStaleness`: an answer was true less than its TTL + 2 calls ago |
| `table_reach` | a task of each kind, lifetime 2, 3 rescue turns; and three ways to Claude, clock to 5 | 63 513 | `TypeOK`, `LocalTagStaysLocal`, `RescueWindow`; the table implements `EscalationLease` (`ImplementsLease`); `ClaudeOnlyIfRecentlyUp` |
| `hook_turns` | ten kinds of request, one at a time, everything moving | 1 880 556 | `ClaudeIsAskedFor`, `StrictRefusesByName`, `ToolsReachNativeTier`, `FallbackVisible` |
| `hook_await` | two requests that meet at the await, both key caches at lifetime 2, clock to 3, with fairness | 397 487 | `EscalatesOnRecentKey`, `EveryTurnDecided` |
| `proxy` | two requests, each of every kind, 2 retries, token lifetime 2, a slow keychain that changes once | 1 816 120 | `RetryDiscipline`, `CredentialRecent` |
| `stores` | three calls and two restarts; three turns, one page; two polls; two callers, a user of the helpers and two endpoints | 1 032 987 | `StoresTypeOK`, `MirrorFaithful`, `BilledOnce`, `PagesAgree`, `ConfirmedIsRecent`, `BackendTold` |
| `transforms` | requests of every combination of controls; texts of six letters; conversations of three blocks; transcripts of four turns; two threads; tasks of five messages; two pending requests, two threads and a crash anywhere | 1 207 003 | `RequestServes`, `CallerKept`, `SplitExact`, `RequestFaithful`, `CompressionSafe`, `SizedRight`, `TalkUnderstood`, `StoreKept`, `ImplementsQueue` |
| `maintenance` | three connections; two proxies; three turns of a loop; two bugs, three reports; two invocations of an arm; two pulls; two layers, five attempts; two runs of the download, for four askings; two installations; two syncs | 700 407 | `OpenSeesSchema`, `PricedRight`, `LoopHonest`, `BugHuntFair`, `ReportHonest`, `DownloadsHonest`, `StaleMeansStuck`, `WorkspaceKept`, `EverythingEnds` |

Four more runs, `hook_marker`, `gortex_clobber`, `proxy_stream` and `spend_billed`, end with a
violation; section 5 says of what.

Where one run asks several questions of one part, the question of the run is a
conjunction and its parts are definitions of their own, each with its statement:
`PagesAgree`, for one, is `NeverTwice`, `NestedWindows` and `TurnNumbersStable`.
A conjunction names one promise of one component; a counterexample shows which part
fails.

What the less obvious of them say:

- `ClaudeIsAskedFor`: a turn goes to the Claude model its client named or routing chose; the
  escalation header changes `claude-code` only. What routing chose is kept apart
  from what the header makes of it.
- `StrictRefusesByName`: under `OFFLINE_STRICT` who named a Claude model, by mirror too, is
  refused and not moved, and a turn whose prompt asks for none is never refused, saturated or failed
  as it may be. Turns whose *tag* names one are promised nothing; the docs promise it, section 5.
- `MirrorFaithful`: `active.json` is never half written, also after a crash, and
  holds exactly the dict whenever no flush is under way. This is about the one writer
  there is in the proxy; concurrent flushes are not.
- `ImplementsQueue`: whatever crashes between two file operations, a request is
  waiting, done, failed or swept, in one of them at a time; `StoreKept`
  adds that no request that was persisted disappears before it is completed,
  failed or old.
- `BilledOnce`: whatever meets a lock, is left pending for the next turn's commit or
  is rolled back by a crash, a success whose hook is over has one row or is reported as
  lost, and a failure has none.
- `PagesAgree`: a page reads in several statements, and yet shows no turn as running
  and as finished (except `/monitor`, by what its order of reading allows), nests
  its windows, counts the tiers of every turn a task's row sums up, and keeps a
  task's turns and their numbers from one poll to the next.
- `ConfirmedIsRecent`: sessions shown as confirmed were counted less than a TTL and two
  polls ago, whichever polls overlapped and overwrote each other, but for the moment in which
  a poll has set the time and not yet the cache.
- `BackendTold`: no interleaving of switches, timeouts, direct calls, failures and resets shows
  a target without a start, says that a switch took longer than it did, or clears one failure
  twice; and who leaves the tier to `switch_to()` is shown the active one and no target.
- `SplitExact`: every cut of every text into chunks gives the split of the whole.
- `SizedRight`: a request is on the wrong side of `ROUTE_LONG_MAX` only if the heuristic errs
  by more than the band, or the tokenizer was not to be had; and it is loaded once.
- `CompressionSafe`: after any number of turns each text that was said is there, up to
  the length texts are cut to, none with an error went as a duplicate, and settled
  messages stay as they are. Of tool calls, and of what is cut off, it says nothing (section 5).
- `PricedRight`: an id of the table is charged at its row, with or without a date; one that
  resembles none of the table is warned of, once; a skipped check had a reason. Of an id that extends one
  of the table it says nothing (section 5).
- `LoopHonest`: the agent is asked again as long as it is short of the full score, about the
  state of all its turns, which is what is graded; that later turns win needs one
  spelling of each path (section 5).
- `BugHuntFair`: an object in the answer is found, the outermost one, and a list if there is no
  object in it or beside it (section 5: a list of objects is not); one report is worth one bug, and
  no order of the reports leaves a match to make.
- `ReportHonest`: a full pass ran and, unless the tested code prints what reads like pytest's
  summary, failed nothing; each bill that was pulled is found, and the amount is between what a pull could learn of one
  provider's charge, in whole cents, and that times the pulls that asked for it.
- `DownloadsHonest`: "hung" is said only after a silence of the window, unless a layer was done
  since the sum last grew (section 5); and `detected.env` names a tag whose model was made
  from a whole file that was asked for under that tag, although the runs for a repository share its
  directory and Modelfile.
- `StaleMeansStuck`: a key other than the one just pasted is served after a good end only by a
  process that the script did not get to end, or because launchd had not run
  the agent's job yet. Line 119 promises more, section 5.
- `WorkspaceKept`: settings survive, unless a sync was cut or met another writer, or read a file with
  comments (section 5); and an undisturbed sync leaves git's list, whatever came before.
- `EverythingEnds`: every process that opens the ledger does, among others that
  migrate and die; both pull loops end unless an `ollama pull` never returns; a download's
  watchdog outlives a connection that hangs.

*Bounds.* The clocks are bounded by `MaxTime` and, in MCStores, by
`LedgerTime` and `SwitchTime`, in MCTableReach by `TableTime`. Where a property is about
age they are long enough for its bound to be exceeded: an entry is made, outlives
its lifetime and is found expired. `hook_turns` has a clock of one tick,
enough for a verdict of lifetime 1 to expire between routing and chokepoint; its
properties are about the path. The lifetimes keep the order that matters (online
longer than offline, `/health` shorter than the key cache), not their sizes in
seconds. Two threads, polls, callers or proxies are enough for a race on one cached
value; three connections, because one may die while two collide on a column; two
requests for an await, since a third could only repeat what the second does to the
shared caches. Texts of six letters over the letters of a three-letter tag hold two
tags, a tag in every cut and prefixes that turn out to be none; `TurnsMax` lets a message leave the
protected tail and one more turn follow. `AttemptsMax` is past the point at which the
back-off of a pull has reached its cap. Two runs of the download are one that uses what another left;
its askings are of one repository with a pattern that matches one file and one that matches two,
of another repository for the same tag, and of none of its files. The lengths of `Sizes` are at both
edges of the band, inside and outside it, and on both sides of the turbo windows, before and after the shrinking. `Moving` names the parts of the world
that change in a run. `transforms` counts states up to a permutation of the two workers, of the two threads
and of the two calls, `proxy` up to one of requests and of tokens, `stores` up to one of the
two named turns of a task: nothing distinguishes them. The theorems of section 4 have no such bounds beyond
`MaxTime`, which is any natural number.

*Deadlock* is checked in `offline_threads`, `hook_turns`, `hook_await` and `table_reach`. The other
runs give their processes a finite set of work, after which they really have nothing
to do, and say `CHECK_DEADLOCK FALSE`.

*Fairness.* In `hook_await`, `WF(HookStep(r))`: the code between two awaits runs to
the next one, and `/health` answers or is timed out by httpx after 2 s; and
`SF(Resume(r))`: a coroutine whose answer is there competes for the loop with every
new request, and asyncio's ready queue is first in, first out, so it gets its turn
although the loop is not continuously free. In `maintenance`, `WF` of each process
that opens the ledger (the property is asked of those that are not killed), of the loop
around a pull once the pull has returned, of the watchdog thread's round, and of an interpreter
that has finished. That bytes come, or that an `ollama pull` ever returns, is not assumed: it has
no timeout. Nothing is assumed of the operator, the clients or LiteLLM.

## 4. What is proved

TLAPS checks the theorems below for every value of the constants: any sets of
requests, threads, tasks, turns, calls, keys and tags, any lifetimes and clock
bounds. Each was first asked of TLC, and so was each inductive invariant.

| Module | Theorem | States |
|---|---|---|
| `OfflineMode_proofs` | `TypeCorrect`, `StalenessBounded` | `TypeOK`, `BoundedStaleness` |
| `StickyEscalation_proofs` | `TypeCorrect`, `LocalTagRespected`, `RescueWindowBounded` | `TypeOK`, `LocalTagStaysLocal`, `RescueWindow` |
| | `TableImplementsLease` | `ImplementsLease` |
| `PreCallHook_proofs` | `HookTypeCorrect` | `HookTypeOK` |
| | `ClaudeOnlyWhenAsked`, `StrictIsForNames`, `ToolsAreNative`, `FallbacksAreVisible` | `ClaudeIsAskedFor`, `StrictRefusesByName`, `ToolsReachNativeTier`, `FallbackVisible` |
| | `ClaudeRecentlyUp`, `EscalationRecent` | `ClaudeOnlyIfRecentlyUp`, `EscalatesOnRecentKey` |
| | `RequestsServe`, `CallersAreKept` | `RequestServes`, `CallerKept` of OverGeneration |
| `ClaudeProxy_proofs` | `TypeCorrect`, `RetriesDisciplined`, `CredentialsAreRecent` | `TypeOK`, `RetryDiscipline`, `CredentialRecent` |
| `Transforms_proofs` | `RequestsAreKept`, `StoreImplementsQueue` | `StoreKept`, `ImplementsQueue` |
| | `LengthsAreHonest`, `TurnsAreUnderstood` | `SizedRight`, `TalkUnderstood` |
| | `ChannelsAreExact` | `SplitExact` |
| | `RequestsAreFaithful`, `TranscriptsAreSafe` | `RequestFaithful`, `CompressionSafe` |
| `Ledger_proofs` | `LedgerTypeCorrect`, `SuccessesAreBilledOnce`, `PagesAgreeAlways` | `LedgerTypeOK`, `BilledOnce`, `PagesAgree` |
| `Services_proofs` | `MirrorIsFaithful`, `CallersAreTold`, `MonitorIsHonest` | `MirrorFaithful`, `BackendTold`, `ConfirmedIsRecent` |
| | `StoresAreWellFormed` | `StoresTypeOK` |
| `Maintenance_proofs` | `OpenConnectionsSeeSchema`, `StaleKeyMeansStuck`, `DownloadsEndHonestly`, `WorkspaceSurvives` | `OpenSeesSchema`, `StaleMeansStuck`, `DownloadsHonest`, `WorkspaceKept` |
| | `PricesAreRight`, `BugHuntsAreFair`, `LoopsAreHonest` | `PricedRight`, `BugHuntFair`, `LoopHonest` |
| | `ReportsAreHonest` | `ReportHonest` |

*Assumptions.* The named `ASSUME`s of the modules, each of which TLC evaluates in
the runs: lifetimes and bounds are naturals; `None` and `Malformed` are none of
the values they stand beside; and these, which say something of the program.
`HookAssumption`: a mirror is asked for only by an alias that `litellm-config.yaml`
gives one, and `/health` (2 s) is timed out sooner than an answer expires from the
key cache. `LedgerAssumption`: two of the windows of `/stats`, which differ by days,
differ by no less than the page takes to read them. `SwitchAssumption`: callers name existing backends.
`ControlAssumption`: what a client sends has none of our nudges in it, which no
client is shown. `SizeAssumption`: every turbo tier of the registry has a window.
`HfAssumption`: a run asks for one of the repositories, files and tags there are, and no file is called
as the template of a Modelfile is here. `CompressionAssumption`: its limits are naturals. `TalkAssumption`:
a task has one of the tags and marks that `classify()` knows. `PricingAssumption`: a model id
is not empty. `RequestAssumption`: `ROUTE_LONG_MAX` is at least one token, the least that the
estimate of a request can be. `ArmAssumption`: pytest counts tests in naturals. `SpendAssumption`:
a window ends no sooner than it begins, as the runner prints them and `pull_spend.py` is given them; what is billed
is not negative; a page holds an event at least, and a page at least is read. `MirrorIsFaithful` is a theorem about one writer, the event loop, and says so;
section 5 says what happens with two.

*Arguments.* No property of the table is inductive as it stands. What each needs:

- **OfflineMode.** `BoundedStaleness` relates three clocks: *calls are short* (a
  thread inside a call read the clock at most `CallMax` ago), *sampled during the
  call* (a verdict about to be stored was true no earlier than that), *stored soon
  after sampling* (the cached timestamp is at most `CallMax` after the cached
  verdict was true). The type invariant does not tie `cache.ts` to `sampledAt`.
- **StickyEscalation.** The properties are inductive together, with the type: a
  turn budget is never zero, and each step splits by the branch of
  `decide_tier_cline()`. The refinement needs the rescue window, which ties the
  countdown to the count up, and the fact that a sweep changes no lease.
- **PreCallHook.** `HookIInv` is the table's invariant, the types, and three
  kinds of knowledge. `Decided`: a request goes to Claude because it named Claude or was
  routed there before the escalation, what the header may make of `claude-code`, and what
  the last steps of the hook make of it. `Timed`: what the
  request learned at the await, and when. `Recent`: no cache says yes for longer
  after it was last so than its lifetime and that of the caches before it. The
  two action properties are about the step that uses such an answer: the bound of
  `EscalatesOnRecentKey` is the sum of both lifetimes, and the steps of other
  requests during the await cannot stretch it, because the answer is counted from
  the question.
- **OverGeneration.** `ControlIInv` says what of the caller's request is left
  after each control. `MessagesFollow`: its conversation, message by message, after at most
  one message of ours, with at most a directive added. `CapsSoFar`: its budget, which a
  cap may lower and only the floor of a thinking turn may raise. `StopsSoFar`: its
  stops, with one of our two lists after them.
- **ClaudeProxy.** `RetryPhase`: an attempt has as many answers as its number, all
  of them 429 but the last; it sleeps only while another attempt is allowed.
  `CredPhase` and `CachesRecent`: a cache expires within a lifetime of when the
  keychain held what it has, and a handler holds what was there less than a
  lifetime before it began, also when the read blocked the loop.
- **PendingStore.** A call that is in the lock is the only one; what each operation
  has done by its step (a temporary file is whole when it is renamed, the record
  of a failure is there before the pending file goes, a sweep has only old files
  left); and a request that is owed has its file. The refinement is proved on top
  of it, step by step: of the steps of an operation one is the queue's, the others stutter,
  a crash is a stutter or the queue's `Reappear`.
- **Ledger.** `LedgerIInv` is about the committed rows and the open transaction as
  one sequence: a turn has one row at most, one exactly if its row was taken, and
  one hook is under way at a time. `BilledOnce` counts rows, so it also needs facts
  about cardinalities. `PagesIInv` adds, for each page and each of its queries,
  what was read before: a window's rows were in it when the page began, and a later
  window is longer by more than the page has lasted; a task asked for is covered; a
  number shown is that of its row; and the mirror holds no turn that is over.
- **ActiveRegistry.** `FlushUnderWay`: the writer holds what the dict is, its
  descriptor is the temporary file's and not the mirror's, and between flushes the
  mirror is the dict. A restart in any state keeps that.
- **BackendSwitch.** Unless a helper was called since the last switch or reset, the
  lifecycle's manager advertises its tier whatever waits in line for the lock; in any case its
  target and start come and go together. The status manager's target and start go together, each
  caller's own start is before the one that is shown, and a reset that found a
  failure found an earlier count than the next failure's.
- **GortexMonitor.** The time is set before the cache is replaced: the cache's clock is ahead
  of a confirmed answer by no more than the calls of two polls, *except* while a poll
  is between the two; a copy that a failed poll made is not confirmed, whatever
  has been stored since; and a poll that is storing an answer got it during its own call.
- **SchemaMigration.** A connection that migrates has seen to the columns before
  the one it is at; that another died or added the same one changes nothing of it.
- **KeyInstall.** The script knows at each step which of plist, agent and
  environment have its key, and who can be bound to the port.
- **HfDownload, ModelPull.** `DogKnows`: the watchdog knows of every growth older than its last
  sample. A model is made from what the repository's Modelfile was rendered for, which is what
  this run found and no longer what another one did. `SilenceIsSeen`: while the layer is the
  one that `last_size` was measured of, the script's clock is no further than the true silence
  (after it the sum drops, section 5).
- **WorkspaceSync.** Unless a sync was cut, overlapped another or met a file with comments, one process at
  most is under way and it read what the user saved last.

- **Pricing.** What was warned of once is in the set the next warning looks into; a proxy
  that skipped the check knows when the last one ended. `NormalizeFinds` says what the
  search for the longest known prefix gives: the id itself if the table has it, and nothing if the table has
  no beginning of it.
- **SizeRouting.** The thread that loads the tokenizer holds the lock and nobody has loaded
  it before; an estimate is what the heuristic or the tokenizer says of the request, and one that
  is not the tokenizer's is outside the band or `gaveUp`. No error of the heuristic is assumed.
- **TaskTalk.** The first message is the task as it was rendered at some turn, and in the plain
  protocol no other one has an envelope until one was shown: so what the search over all
  messages finds is the first. Signals are counted with non-negative weights.
- **ThinkStream.** `StreamIInv`: the reference, run over the letters sorted so far, is in no tag,
  on the channel the splitter is on, and gave each channel what the client has; the buffer
  is the letters read after those, and the beginning of a tag but not a whole one. A step of
  the splitter is then a number of steps of the reference: up to the first tag in the buffer, over
  it, or up to what is held back.
- **RequestTranslation.** `RequestIInv`: the blocks of each message were said in the order of
  their words, and the last request went where the estimate of what it has says. What is
  flattened out of a message is then its blocks without the pictures, in order; and the sum
  over the messages of the sums over their blocks, which is the estimate, is the sum over
  all the blocks of the conversation, which is what the property speaks of.
- **Compression.** `CompressionIInv`: the system spoke first if it did, and what was forwarded is
  the transcript or what compressing makes of it. What is picked out of a sequence is a function of
  the place it was read up to (`Picking`). Every message of a body has a place among those kept (`Threading`): its own, or that of
  the first one equal to it. The places of messages with an error rise, so that there are as many as there were
  errors; the first of each saying comes before what was said after it; and what is kept of a
  longer body begins with what was kept of the shorter one (`KeptContinues`).
- **BugMatch, JsonFinder.** A report fits no bug that was free when it was passed over, and bugs
  only become taken; a matching in which every edge of another touches one of its own has at
  least half its size. The finder's scan is a recursive function of the position, and what it
  returns at a position is a span that parses or nothing if there is none from there on.
- **BenchLoop.** `BenchIInv`: each turn has the grade of all that was written up to it, the
  conversation has two more messages for each turn that was asked about, and a turn that
  was asked about was short of the full score. `Shows` relates a dict to a tree of files: where no file goes by two paths, setting
  a key is writing its file; `WrittenOver` and `After` name the entry, and the turn, that a file is from.
- **ArmRuns.** `ArmIInv`: each row has the grade of the call it is from, in the order of the
  calls, and a window that was printed holds the time of a row, so that what is billed for the runs is found.
- **Spend.** `SpendIInv` has three parts. `SpendShape`: the events read so far are the beginning of
  the bill, as many as the pages read, and the rows to write are those of the provider being asked.
  `SpendCovers`: what the table holds of a provider, with the rows still to write, comes to its charge
  at least, for each provider the pull is past without a failure. `SpendWithin`: what the table holds, the rows to
  write and what the providers left may still add is no more than the charge times the pulls that asked. The steps
  of a pull are six kinds of change to these sums, and the report's maximum is taken over them.
  A model's bucket loses no cent: the sum over the buckets is that over the events, each cut to
  whole cents.

*Recursion.* Several of these compare a loop of the code with a reference over data of any
length. tlapm cannot instantiate the library's induction theorems, whose parameter is an
operator, so the proofs use what they rest on: a set of naturals that is not empty has a
least member (`LeastNumber`, from the finiteness of what is below a number), so a set of
counterexamples is empty (`UpTo`); and a function that is given by its own values below exists
(`RecursionExists`, `RecursionUpTo`), so a recursive definition has the values it says.
The models define such functions by name and without RECURSIVE operators.

*Model-checked only.* Liveness (`EveryTurnDecided`, `EverythingEnds`) is out of
the prover's reach: it rests on fairness and on which actions are enabled. TLC checks it
on the instances of section 3. The other properties of the passing runs are theorems.

## 5. Where the code and its documentation disagree

Four runs are about a sentence of the repository and end with a counterexample:

| Run | Statement | The code | The text |
|---|---|---|---|
| `hook_marker` | `MarkerMeansFallback` | a saturated turn decided for Claude offline and downgraded by the chokepoint is recorded as ROUTER-FALLBACK | "a router fallback fired" (`route_by_size.py:1271`) |
| `gortex_clobber` | `LastGoodKept` | a poll that fails copies the cache, another stores its answer, and the copy goes over it: back to no sessions | "it must not clobber the last known-good uptime/state/session counts" (`monitor.py:209`) |
| `proxy_stream` | `StreamsAreProxied` | the connection of a streamed answer is closed when the handler returns, before the body is read | "Streaming (text/event-stream) is transparently proxied on all paths" (`claude_proxy/server.py:39`) |
| `spend_billed` | `BilledIsCharged` | a pull of Cursor commits its usage row, fails at the roll-up and is repeated until it exits 0: Cursor is billed twice. With two providers the one that succeeded the first time is, alike | "what the provider actually charged for the run window" (`bench/report.py:188`) |

More such statements are defined beside the modules' properties. They are not runs of their own; each
fails when it takes the place of the properties in the configuration named (the two of
PreCallHook in `MCHookTurns.cfg` with `Tasks <- OneTask`, `KindOf <- OneKind`, `Asks <- TagAsks`, `MaxTime = 2`).
What a passing property leaves out, such a statement puts in.

| Statement | Configuration | The code | The text |
|---|---|---|---|
| `StrictCoversTags` | `MCHookTurns` | under `OFFLINE_STRICT` a turn whose *tag* names Claude is served locally: the chokepoint looks at the requested name | "or a leading `[claude]`/`[opus]`/... tag" is refused (`docs/offline-mode.md:181-184`, `offline_mode.py:312-315`) |
| `TagWaitsForNetwork` | `MCHookTurns` | a tagged turn that the chokepoint downgrades leaves its mark, and the task rides it without the tag ever being served | "we want the [opus] tag to take effect properly" (`route_by_size.py:1078`) |
| `TurboHolds` | `MCTransforms` | a turbo backend is picked for the length compression would leave; nothing compresses the request | "first compressed ... and, if the compressed token count fits a local turbo backend ..., routed there" (`route_by_size.py:239-242`) |
| `CallsKept` | `MCTransforms` | assistant messages without text are duplicates of each other whatever they call, next to each other or not | "Deduplicates consecutive identical tool results" (`context_compression.py:10`) |
| `Preserved` | `MCTransforms` | a message with an error keyword is cut like any other | "plus any message that contains an error keyword" (`context_compression.py:13-15`) |
| `AgentTalkFits` | `MCTransforms` | of a tool call the number of its keys is counted, of a result nothing | "tool_use / tool_result blocks also carry text" (`claude_proxy/server.py:209`) |
| `UnknownIsReported` | `MCMaintenance` | `claude-opus-4-9` is charged as `claude-opus-4`, silently | "prints a one-time stderr warning" for unknown models (`pricing.py:243-249`) |
| `LaterTurnsWin` | `MCMaintenance` | a file written under two spellings of its path is graded as the earlier turn wrote it | "with later turns winning on conflicts" (`cursor_loop.py:426-427`) |
| `LargestIsFound` | `MCMaintenance` | of a bare list of objects the first object is found | "largest balanced {...} or [...] substring" (`grader.py:56`), "a bare list of such objects" (`:453`) |
| `DashboardMatched` | `MCMaintenance` | the fraction of a cent of each event is cut off before the sum | "the field to sum to match dashboard totals" (`cursor_admin.py:96`, `docs/benchmarks.md:208`) |
| `HungIsHung` | `MCMaintenance` | the bytes of a layer that is done leave the sum, and a pull whose bytes come is given up as hung | "truly hung, not transiently failing" (`resume-ollama.sh:13-15`) |
| `SilenceEndsPull` | `MCMaintenance` | an `ollama pull` that hangs holds the loop: the window is looked at only after it has returned | "when the allocated bytes haven't grown for STALL_WINDOW seconds" (`resume-ollama.sh:13-15`) |
| `SettingsKept` | `MCMaintenance` | settings in a file that has a comment are dropped by a sync that nothing disturbs | "so user customisations stored in the workspace file are not lost" (`workspace-sync.py:72-73`) |
| `NewKeyServes` | `MCMaintenance` | the script ends well while :4000 has an earlier key: of a process that would not go, or of an environment that the job had not reached yet | "In every case we want to end with a single litellm process ..." (`setup-anthropic-key.sh:119`) |

Also met while modelling, and modelled as the code does it:

*Routing.* A later turn of an `[opus]` task runs on `claude-code`, against "stay on
the same model" (`route_by_size.py:1070`; `tests/test_router.py:1345` accepts it). A
failure entry pays, and is evicted, for turns served locally while offline, against
"Don't evict the entry" (`:1039`). A cached "online" answers until it is 30 s old after
`make offline`, against "immediately" (`offline_mode.py:97`). In the plain protocol a tool
result that shows a file with a `<task>` envelope changes the task. The sweep of leaked in-flight
entries is in a function that only tests call, against "swept on the next snapshot"
(`:1207`). The caps do not reach the mirror aliases
of local models (`overgeneration_control.py:193-211`); a malformed `max_tokens` skips the
stops after it; a malformed first message ends the last stage (`:1507`). The tail that
the splitter held back is flushed after the chunk with the finish. The registry reads
`TURBO_ENABLED` from the environment only, not from `detected.env`.

*In-flight registry.* The registry's part of `stores` has one writer, because in the
proxy as configured only the event loop runs the hooks that flush. The lock in
`_register_active()` and the synchronous hooks provide for more: with a second
element in `Writers`, TLC finds `ReaderSeesWhole` violated, since all flushes share
one temporary name outside the lock.

*Stores.* A failed commit leaves SQLite's write lock held until the connection's next
success. `/monitor` can show a turn twice, and its ledger summary is never filled; the
page of a task answers 404 between the drop and the insert, and its wall time is always 0
(`app.py:376` takes the newest row's time from the oldest's, and cuts at 0). A second `fail()`
overwrites the record of the first with a stub, and `.tmp` files of a crash are never
swept. `switch_to()` of the active tier leaves FALLING_BACK or FAILED as it is.
`set_state()` and the other helpers take no lock, and let a status name a tier that is not
active. Overlapping switches on the status manager report too short a duration and hide a
target; a reset leaves the clock of the failed switch running. The status
endpoint's manager is not the lifecycle's. Between the time and the answer of a gortex poll
an old answer looks young.

*claude_proxy.* The local route hands lines of text, of a response that is closed, to a translator
that calls `raw.decode` on each: it raises at the first. The route drops `tools`, and leaves the system
prompt out of the estimate. `content_filter` is translated on the plain path only.

*Cost and benchmark.* A failed fetch of the price page counts as the day's check. `pricing.py:217`
gives `claude-3-5-sonnet-... -> claude-sonnet-3-5` as an example of what `_normalize()` does, which
reorders nothing. `claude-code` is priced as
one model and configured as another. The benchmark's `connect()` runs the schema
without the migration. The rows of a loop are written at its end only, so that an
interrupted one leaves none; an agent whose code passes every test without docstrings or hints is asked again
and told that everything passed. A summary line that tested code prints is
read as pytest's (`:241`), and runs without counts are left out of the pass rate (`report.py:46`).
A pull stops at `max_pages` and drops the rest.

*Scripts.* `rc=$?` after `fi` in `resume-ollama.sh` is always 0. The watchdog of the Hugging Face
download can exit 2 or 3 between the end of the download and `done.set()`; two tags of one
repository share its directory and Modelfile, and `find | head -1` takes whichever file the pattern
matches first. `95-watchdog.sh` looks for a table
`spendlogs` that nothing creates, and flushes also with `--status`. `workspace-sync.py`
loses the user's settings also when two syncs overlap or one is interrupted.

## 6. What is not modelled

- *Words.* What `classify()`'s regular expressions match (their order is in
  TaskTalk), the wording of nudges and summaries,
  diagnostics. A task's kind, a result's signals, a message's marks are members of
  small sets. Two texts with one fingerprint are one task here, as in the code.
- *Amounts.* Dollars, tokens of a row and the aggregates of `savings.py`: sums of
  what the ledger holds. Which price, which rows and which window is modelled.
- *The rest of the hook*: dumps and traces, and exceptions before the chokepoint, which
  line 1608 swallows: they need a message list no client sends, or a setting that
  no first request survives.
- *LiteLLM, Ollama, Anthropic, launchd, SQLite, the keychain, the file system*:
  external, modelled by what this code can see of them. LiteLLM's own retries,
  cooldowns and timeouts are not.
- *The translation of streams*, `_stream_openai_to_anthropic()`: its only caller
  gives it lines that are text already, of a response that is closed, so that it raises before
  its first event (section 5). What it would make of bytes no run of the program shows.
- *Concurrent runs of the download script*, or of either pull loop: one at a time.
- *Rendering*: the HTML of the dashboard, editor and agent configuration.
- *Installers*: `install.sh` and the numbered steps run once, in order, idempotently,
  and keep no state but the files they write. `95-watchdog.sh` never gets to its
  restart (section 5).
- *The benchmark's fixtures*: tasks, seeded bugs, reference solutions and rubrics are data. The A/B
  comparison's two calls and its judge are a sequential script; what it does to the
  ledger's lock is in Ledger.

## 7. Plan

Done: the modules of section 2, and the proofs of section 4.

Models after that: the savings aggregates against the rows they sum, and the exceptions
before the chokepoint.
