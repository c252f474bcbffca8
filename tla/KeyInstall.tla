------------------------------ MODULE KeyInstall ------------------------------
(***************************************************************************)
(* scripts/setup-anthropic-key.sh: how a new API key reaches the LiteLLM   *)
(* process that must use it.  The key goes into a LaunchAgent's plist, the *)
(* agent's one-shot job puts it into launchd's environment, and LiteLLM is *)
(* restarted so that it inherits it, either by launchd or, when launchd's  *)
(* service flaps with EX_CONFIG or is not there, by hand.  launchd runs    *)
(* the job and keeps its service alive on its own time, a process that was *)
(* told to stop takes its time too, and the script may be interrupted and  *)
(* run again with another key, or the machine rebooted.                    *)
(***************************************************************************)
EXTENDS Common

CONSTANTS Keys, RunsMax      \* the keys one may paste; bound: runs of the script

VARIABLES
    plist,      \* the agent's file: None, "torn" or a key
    agent,      \* the agent as loaded: None or a key
    job,        \* the agent's job is still to run
    env,        \* ANTHROPIC_API_KEY in launchd's environment
    service,    \* com.local.litellm: "absent", "healthy" or "flap"
    port,       \* LiteLLM's process bound to :4000, [by, key, since: the run], or None
    setup       \* the script: [step, key, run, early: it did not await the job]

keyVars == <<plist, agent, job, env, service, port, setup>>
launchdVars == <<agent, job, env, service>>

KeyInit ==
    /\ plist = None /\ agent = None /\ job = FALSE /\ env = None
    /\ service \in {"absent", "healthy", "flap"}
    /\ port = None
    /\ setup = [step |-> "ended", key |-> None, run |-> 0, early |-> FALSE]

SetupGoes(from, to) == setup.step = from /\ setup' = [setup EXCEPT !.step = to]
SetupOver == {"ended", "failed"}

-----------------------------------------------------------------------------
\* LiteLLM's process

\* A process keeps the port when it is free or `given` up to it, and else ends.
Starts(by, key, given) ==
    port' = IF port = None \/ given THEN [by |-> by, key |-> key, since |-> setup.run] ELSE port

\* launchd starts its service's process at login and whenever it has none (KeepAlive).
LaunchService ==
    /\ service = "healthy" /\ port = None
    /\ Starts("launchd", env, FALSE)
    /\ UNCHANGED <<plist, launchdVars, setup>>

\* Somebody worked around the flap earlier, from a shell that knows some key.
StartedByHand(k) ==
    /\ setup.run = 0 /\ port = None
    /\ Starts("hand", k, FALSE)
    /\ UNCHANGED <<plist, launchdVars, setup>>

\* A process that was sent SIGTERM finishes what it is serving, then lets go.
LetGo == setup.step = "waiting" /\ port' = None /\ UNCHANGED <<plist, launchdVars, setup>>

-----------------------------------------------------------------------------
\* The agent

AgentJob == job /\ env' = agent /\ job' = FALSE /\ UNCHANGED <<plist, agent, service, port, setup>>

Paste(k) ==
    /\ setup.step \in SetupOver /\ setup.run < RunsMax
    /\ setup' = [step |-> "write", key |-> k, run |-> setup.run + 1, early |-> FALSE]
    /\ UNCHANGED <<plist, launchdVars, port>>

\* cat > plist empties the file and then fills it.
Truncate == SetupGoes("write", "fill") /\ plist' = "torn" /\ UNCHANGED <<launchdVars, port>>
Fill == SetupGoes("fill", "bootout") /\ plist' = setup.key /\ UNCHANGED <<launchdVars, port>>

\* Mutant: an agent that is loaded already is left alone.
BootOutNothing ==
    /\ SetupGoes("bootout", IF agent = None THEN "bootstrap" ELSE "verify")
    /\ UNCHANGED <<plist, launchdVars, port>>

BootOut ==
    /\ SetupGoes("bootout", "bootstrap") /\ agent' = None /\ job' = FALSE
    /\ UNCHANGED <<plist, env, service, port>>

\* bootstrap and kickstart each run the job; launchd takes its time.
Bootstrap ==
    /\ SetupGoes("bootstrap", "verify") /\ agent' = plist /\ job' = TRUE
    /\ UNCHANGED <<plist, env, service, port>>

\* Asked a second later; only an empty value is an error.
Verify ==
    /\ setup.step = "verify"
    /\ setup' = [setup EXCEPT !.step = IF env = None THEN "failed" ELSE "restart", !.early = job]
    /\ UNCHANGED <<plist, launchdVars, port>>

-----------------------------------------------------------------------------
\* The restart

Kickstart ==
    /\ service = "healthy" /\ SetupGoes("restart", "ended")
    /\ Starts("launchd", env, port # None /\ port.by = "launchd")
    /\ UNCHANGED <<plist, launchdVars>>

\* Otherwise a flapping service is booted out and whoever listens is told to stop.
StopOthers ==
    /\ service # "healthy" /\ SetupGoes("restart", IF port = None THEN "start" ELSE "waiting")
    /\ service' = "absent"
    /\ UNCHANGED <<plist, agent, job, env, port>>

\* Ten seconds are enough, or they are not: the script goes on either way.
Waited == SetupGoes("waiting", "start") /\ UNCHANGED <<plist, launchdVars, port>>

\* start_litellm_manually: whoever is bound to :4000 ends the wait.
StartManually ==
    /\ SetupGoes("start", "ended") /\ Starts("hand", env, FALSE)
    /\ UNCHANGED <<plist, launchdVars>>

\* The repository is not found, or nothing listens within thirty seconds.
StartFails == SetupGoes("start", "failed") /\ UNCHANGED <<plist, launchdVars, port>>

-----------------------------------------------------------------------------

Interrupt ==
    /\ setup.step \notin SetupOver /\ setup' = [setup EXCEPT !.step = "failed"]
    /\ UNCHANGED <<plist, launchdVars, port>>

\* launchd's environment is empty again; the agent is loaded from its file, and a
\* service that was booted out from its own.
Reboot ==
    /\ agent' = (IF plist = "torn" THEN None ELSE plist) /\ job' = (agent' # None) /\ env' = None
    /\ port' = None
    /\ setup' = [setup EXCEPT !.step = "failed"]
    /\ service' \in {service} \cup (IF service = "absent" THEN {"flap"} ELSE {})
    /\ UNCHANGED plist

KeyNext ==
    \/ LaunchService \/ LetGo \/ AgentJob
    \/ \E k \in Keys : StartedByHand(k) \/ Paste(k)
    \/ Truncate \/ Fill \/ BootOut \/ Bootstrap \/ Verify
    \/ Kickstart \/ StopOthers \/ Waited \/ StartManually \/ StartFails
    \/ Interrupt \/ Reboot

KeySpec == KeyInit /\ [][KeyNext]_keyVars

-----------------------------------------------------------------------------
\* Properties

(* When the script ends well, LiteLLM has a key other than the one pasted in two cases
   only: the process on :4000 was there before this run and never let go of it, or
   launchd had not run the agent's job a second after it was loaded, so that the script
   restarted LiteLLM with what launchd's environment held before.  Nothing else the
   script starts takes a stale key, whatever runs were interrupted before
   (setup-anthropic-key.sh; NewKeyServes is the promise without the two cases). *)
StaleMeansStuck ==
    setup.step = "ended" /\ setup.run > 0 /\ ~setup.early /\ port # None =>
        port.key = setup.key \/ port.since < setup.run

(* "In every case we want to end with a single litellm process bound to :4000 whose
   ANTHROPIC_API_KEY came from the new launchctl setenv" (setup-anthropic-key.sh:119).
   The code does not keep it, in the two cases above: only an empty value is an error,
   and whoever is bound to the port ends the wait. *)
NewKeyServes ==
    setup.step = "ended" /\ setup.run > 0 /\ port # None => port.key = setup.key
=============================================================================
