------------------------------ MODULE HfDownload ------------------------------
(***************************************************************************)
(* scripts/download-ollama-from-hf.sh: GGUF files are downloaded from a    *)
(* Hugging Face repository into its directory, one of them is registered   *)
(* with Ollama through the directory's Modelfile and made the tag that     *)
(* config/detected.env names.  The download's main thread runs beside a    *)
(* watchdog that ends the process when the directory stops growing or the  *)
(* deadline passes, the script ends at the first command that fails, and   *)
(* it may be interrupted at any step and run again, for the same tag or    *)
(* another, from the same repository or another.  It stands beside the     *)
(* pulls of ModelPull, with which it shares nothing but what their exit is *)
(* taken to mean.                                                          *)
(***************************************************************************)
EXTENDS Common, ModelPull

CONSTANTS
    GgufFiles,        \* the files of all repositories
    HfAsks,           \* the script's arguments: [repo, files that the pattern matches, tag]
    Size,             \* chunks of a file
    HfStallWindow,    \* STALL_WINDOW: ticks without growth
    DownloadTimeout,  \* DOWNLOAD_TIMEOUT, in ticks
    HfRunsMax         \* bound: runs of the script

Repos == {a.repo : a \in HfAsks}
Tags == {a.tag : a \in HfAsks}

ASSUME HfAssumption ==
    /\ HfAsks \subseteq [repo : Repos, files : SUBSET GgufFiles, tag : Tags]
    /\ GgufFiles \cap {None, "template"} = {}
    /\ HfStallWindow \in Nat /\ DownloadTimeout \in Nat

VARIABLES
    want,       \* the arguments of this run, None when none runs
    at,         \* the step: "download", "ok", "find", "modelfile", "render", "create", "env", "done", ...
    chunks,     \* chunks on disk, by file
    bytes,      \* chunks in the directory, by repository: all that is there, whoever asked for it
    placed,     \* files that were renamed into place
    gguf,      \* GGUF_PATH
    modelfile,  \* by repository: None, "template" or the file it was rendered for
    known,      \* by tag: what the model was made from, None for a tag Ollama does not have
    envTag,     \* OLLAMA_TAG in detected.env
    dog,        \* the watchdog's last_size and last_change: [seen, changed]
    clock,      \* ticks of this run
    grew,       \* when the directory last grew, for the properties
    runs        \* runs begun

hfVars == <<want, at, chunks, bytes, placed, gguf, modelfile, known, envTag, dog, clock, grew, runs>>
filesVars == <<chunks, bytes, placed>>
modelVars == <<modelfile, known, envTag>>
watchVars == <<dog, clock, grew>>

HfInit ==
    /\ want = None /\ at = "done" /\ gguf = None /\ clock = 0 /\ grew = 0 /\ runs = 0
    /\ chunks = [f \in GgufFiles |-> 0] /\ bytes = [r \in Repos |-> 0] /\ placed = {}
    /\ modelfile = [r \in Repos |-> None] /\ known = [t \in Tags |-> None] /\ envTag = None
    /\ dog = [seen |-> -1, changed |-> 0]

Over == {"done", "failed", "stalled", "timeout", "interrupted"}
Steps(from, to) == at = from /\ at' = to

-----------------------------------------------------------------------------

\* The CLI, the daemon or the virtual environment may be missing.
BeginDownload(ask) ==
    /\ at \in Over /\ runs < HfRunsMax
    /\ want' = ask /\ runs' = runs + 1
    /\ at' \in {"download", "failed"}
    /\ gguf' = None /\ clock' = 0 /\ grew' = 0 /\ dog' = [seen |-> -1, changed |-> 0]
    /\ UNCHANGED <<filesVars, modelVars>>

\* snapshot_download: the files of the pattern come side by side, each grows in an
\* .incomplete file of the directory, which the watchdog counts too, and is renamed when
\* it is whole; a file in place is not asked for again.
Grow(f) ==
    /\ at = "download" /\ f \in want.files \ placed /\ chunks[f] < Size
    /\ chunks' = [chunks EXCEPT ![f] = @ + 1] /\ bytes' = [bytes EXCEPT ![want.repo] = @ + 1]
    /\ grew' = clock
    /\ UNCHANGED <<want, at, placed, gguf, modelVars, dog, clock, runs>>

Place(f) ==
    /\ at = "download" /\ f \in want.files \ placed /\ chunks[f] = Size
    /\ placed' = placed \cup {f}
    /\ UNCHANGED <<want, at, chunks, bytes, gguf, modelVars, watchVars, runs>>

DownloadReturns ==
    /\ Steps("download", "ok") /\ want.files \subseteq placed
    /\ UNCHANGED <<want, gguf, filesVars, modelVars, watchVars, runs>>

DownloadRaises == Steps("download", "failed") /\ UNCHANGED <<want, gguf, filesVars, modelVars, watchVars, runs>>

\* done.set() and the interpreter's end: no watchdog from here.
PythonEnds == Steps("ok", "find") /\ UNCHANGED <<want, gguf, filesVars, modelVars, watchVars, runs>>

\* Mutant: last_change is the run's beginning throughout.
AfterSampleOfStart(size) == [seen |-> size, changed |-> 0]

AfterSample(size) ==
    IF size = dog.seen THEN dog ELSE [seen |-> size, changed |-> clock + 1]

\* Mutant: nothing is judged before the first byte.
RoundAfterFirstByte ==
    /\ at \in {"download", "ok"} /\ clock <= DownloadTimeout
    /\ clock' = clock + 1
    /\ dog' = AfterSample(bytes[want.repo])
    /\ at' = IF bytes[want.repo] > 0 /\ clock' - dog'.changed > HfStallWindow THEN "stalled" ELSE at
    /\ UNCHANGED <<want, gguf, filesVars, modelVars, grew, runs>>

\* A round of the watchdog: sleep, sample, judge. It still runs between the download's
\* end and done.set().
WatchdogRound ==
    /\ at \in {"download", "ok"} /\ clock <= DownloadTimeout
    /\ clock' = clock + 1
    /\ dog' = AfterSample(bytes[want.repo])
    /\ at' = IF clock' - dog'.changed > HfStallWindow THEN "stalled"
             ELSE IF clock' > DownloadTimeout THEN "timeout" ELSE at
    /\ UNCHANGED <<want, gguf, filesVars, modelVars, grew, runs>>

\* find | head -1: any file in place that the pattern matches, if there is one.
FindFile ==
    /\ at = "find"
    /\ \/ want.files \cap placed = {} /\ at' = "failed" /\ UNCHANGED gguf
       \/ gguf' \in want.files \cap placed /\ at' = "modelfile"
    /\ UNCHANGED <<want, filesVars, modelVars, watchVars, runs>>

\* cat writes the template, and sed puts the path and the context in.
WriteTemplate ==
    /\ Steps("modelfile", "render") /\ modelfile' = [modelfile EXCEPT ![want.repo] = "template"]
    /\ UNCHANGED <<want, gguf, filesVars, known, envTag, watchVars, runs>>

Render ==
    /\ Steps("render", "create") /\ modelfile' = [modelfile EXCEPT ![want.repo] = gguf]
    /\ UNCHANGED <<want, gguf, filesVars, known, envTag, watchVars, runs>>

\* ollama create succeeds or the script ends; what it makes replaces the tag's model.
Create ==
    /\ at = "create"
    /\ \/ at' = "env" /\ known' = [known EXCEPT ![want.tag] = modelfile[want.repo]]
       \/ at' = "failed" /\ UNCHANGED known
    /\ UNCHANGED <<want, gguf, filesVars, modelfile, envTag, watchVars, runs>>

\* sed -i writes a new file and renames it.
WriteEnv ==
    /\ Steps("env", "done") /\ envTag' = want.tag
    /\ UNCHANGED <<want, gguf, filesVars, modelfile, known, watchVars, runs>>

InterruptHf ==
    /\ at \notin Over /\ at' = "interrupted"
    /\ UNCHANGED <<want, gguf, filesVars, modelVars, watchVars, runs>>

MainStep == DownloadReturns \/ PythonEnds \/ FindFile \/ WriteTemplate \/ Render \/ Create \/ WriteEnv
FileStep == \E f \in GgufFiles : Grow(f) \/ Place(f)
HfNext ==
    \/ \E ask \in HfAsks : BeginDownload(ask)
    \/ FileStep \/ MainStep \/ DownloadRaises \/ WatchdogRound \/ InterruptHf

HfSpec == HfInit /\ [][HfNext]_hfVars
DownloadsSpec == PullSpec /\ HfSpec

-----------------------------------------------------------------------------
\* Properties

(* Whatever runs failed or were interrupted, for whatever tags and repositories, and
   although the runs of a repository share its directory and its Modelfile, detected.env
   names a tag whose model Ollama made from a whole file, one that the pattern given for
   that tag matches: the tag is persisted last (download-ollama-from-hf.sh:210-221,
   set -euo pipefail at :26). *)
EnvNamesModel ==
    envTag # None =>
        \E ask \in HfAsks : ask.tag = envTag /\ known[envTag] \in ask.files \cap placed

(* The watchdog says STALL only when nothing was written for longer than the window,
   counted from the last growth and not from the sample that saw it (:112-126). *)
StallMeansStalled == at = "stalled" => clock - grew > HfStallWindow

(* A download ends, well or not: the watchdog outlives a connection that hangs and a
   main thread that waits for it (:107-129). *)
DownloadEnds == at = "download" ~> at \notin {"download", "ok"}

\* What a download's exit says has happened: hung when nothing came for a window (or a
\* layer's end hid what came), a success when all is there, and a tag in detected.env
\* only for a model that Ollama made from that tag's file (resume-ollama.sh,
\* pull_with_heartbeat.py, download-ollama-from-hf.sh).
DownloadsHonest == HungMeansHung /\ PullIsHonest /\ EnvNamesModel /\ StallMeansStalled
=============================================================================
