----------------------------- MODULE BackendSwitch -----------------------------
(***************************************************************************)
(* router/backend_lifecycle.py: switch_to() and the state it keeps, and    *)
(* router/status_api.py: the manager behind the status endpoint, which is  *)
(* another object.  Both are libraries: nothing in the repository but its  *)
(* tests calls a state-changing method, so the callers are external.       *)
(***************************************************************************)
EXTENDS Common, Sequences, SequencesExt

CONSTANTS
    Callers,        \* coroutines that call switch_to()
    Endpoints,      \* threads serving POST /backend/reset-failure
    Targets,        \* the backends that are asked for
    SwitchWait,     \* MAX_SWITCH_WAIT_SECONDS
    FailuresMax     \* bound: switches that fail

\* The backends of backend-registry.yaml, and the one before them.
Backends == {"local-long-128k", "local-turbo-256k", "local-turbo-512k", "local-fast"}

ASSUME SwitchAssumption ==
    /\ SwitchWait \in Nat \ {0} /\ FailuresMax \in Nat
    /\ Targets \subseteq Backends
    /\ None \notin Callers \cup Backends \cup Nat

VARIABLES
    tock,      \* the loop's clock
    manager,   \* BackendLifecycleManager: state, active and target backend, when the
               \* switch started
    direct,    \* (history) whether a user has set the tier itself, past switch_to()
    busy,      \* whether the caller of the manager holds its lock for a start or a stop
    line,      \* coroutines waiting for the lock, first come first served
    caller,    \* what each coroutine is doing, and its answer
    api,       \* LifecycleManager: state, active and target backend, when the switch
               \* started as shown and as timed, how long the last one took, and
               \* (history) how often it failed
    drive,     \* threads that switch through it: None or [target, since]
    reset      \* the endpoint's calls: step, the failure that reset_failure() found
               \* or 0, the reply

switchVars == <<tock, manager, direct, busy, line, caller, api, drive, reset>>
statusVars == <<api, drive, reset>>

ActiveState(b) == CASE b = "local-turbo-256k" -> "ACTIVE_TURBO_256K"
                    [] b = "local-turbo-512k" -> "ACTIVE_TURBO_512K"
                    [] b = "local-fast"       -> "ACTIVE_FAST"
                    [] b = "local-long-128k"  -> "ACTIVE_LONG_128K"

States == {"IDLE", "SWITCHING_TO_TURBO_256K", "SWITCHING_TO_TURBO_512K", "FALLING_BACK_EXTERNAL", "FAILED"}
          \cup {ActiveState(b) : b \in Backends}

NoCall == [at |-> "idle", target |-> None, since |-> 0, answer |-> None]
NoReset == [at |-> "idle", found |-> 0, ok |-> FALSE, current |-> None]

SwitchInit ==
    /\ tock = 0
    /\ manager = [state |-> "IDLE", active |-> "local-long-128k", target |-> None, started |-> None]
    /\ direct = FALSE
    /\ busy = FALSE /\ line = <<>>
    /\ caller = [c \in Callers |-> NoCall]
    /\ api = [state |-> "IDLE", active |-> "local-long-128k", target |-> None,
              started |-> None, timed |-> None, took |-> None, failures |-> 0]
    /\ drive = [c \in Callers |-> None]
    /\ reset = [e \in Endpoints |-> NoReset]

----------------------------------------------------------------------------
(* switch_to() *)

\* wait_for() starts _do_switch(), which joins the queue for the lock.
SwitchTo(c, b) ==
    /\ caller[c].at = "idle"
    /\ caller' = [caller EXCEPT ![c] = [NoCall EXCEPT !.at = "wait", !.target = b, !.since = tock]]
    /\ line' = Append(line, c)
    /\ UNCHANGED <<tock, manager, direct, busy, statusVars>>

\* The lock is there, and there is no await under it: the transition state, the
\* target and the start are set and replaced before anybody can see them.  (The
\* states are the ones inferred from the target's name.)
Switch(c) ==
    /\ line # <<>> /\ Head(line) = c /\ ~busy
    /\ line' = Tail(line)
    /\ LET b == caller[c].target
       IN  IF manager.active = b
           THEN /\ caller' = [caller EXCEPT ![c].at = "idle", ![c].answer = FALSE]
                /\ UNCHANGED <<manager, direct>>
           ELSE /\ caller' = [caller EXCEPT ![c].at = "idle", ![c].answer = TRUE]
                /\ manager' = [state |-> ActiveState(b), active |-> b, target |-> None, started |-> None]
                /\ direct' = FALSE
    /\ UNCHANGED <<tock, busy, statusVars>>

\* wait_for() cancels the wait after 420 s ...
Expire(c) ==
    /\ caller[c].at = "wait" /\ tock - caller[c].since >= SwitchWait
    /\ \E i \in DOMAIN line : line[i] = c /\ line' = RemoveAt(line, i)
    /\ caller' = [caller EXCEPT ![c].at = "expired"]
    /\ UNCHANGED <<tock, manager, direct, busy, statusVars>>

\* ... and the handler, when the loop gets back to it, says so over whatever
\* state there is by then.
FallBack(c) ==
    /\ caller[c].at = "expired"
    /\ caller' = [caller EXCEPT ![c].at = "idle", ![c].answer = FALSE]
    /\ manager' = [manager EXCEPT !.state = "FALLING_BACK_EXTERNAL"]
    /\ UNCHANGED <<tock, direct, busy, line, statusVars>>

\* The manager's user holds the lock while it works on processes, and calls "the
\* state-transition helpers (begin_switch, complete_switch, etc.)" itself, under the
\* lock or not: none of them takes it.
Hold == ~busy /\ line = <<>> /\ busy' = TRUE /\ UNCHANGED <<tock, manager, direct, line, caller, statusVars>>
Release == busy /\ busy' = FALSE /\ UNCHANGED <<tock, manager, direct, line, caller, statusVars>>

SetState(s) ==
    /\ manager' = [manager EXCEPT !.state = s]
    /\ direct' = (direct \/ s \in {ActiveState(b) : b \in Backends})
    /\ UNCHANGED <<tock, busy, line, caller, statusVars>>

SetActiveBackend(b) ==
    /\ manager' = [manager EXCEPT !.active = b]
    /\ direct' = TRUE
    /\ UNCHANGED <<tock, busy, line, caller, statusVars>>

BeginSwitch(b) ==
    /\ manager' = [manager EXCEPT !.target = b, !.started = tock]
    /\ direct' = TRUE
    /\ UNCHANGED <<tock, busy, line, caller, statusVars>>

CompleteSwitch(b) ==
    /\ manager' = [manager EXCEPT !.active = b, !.target = None, !.started = None]
    /\ direct' = TRUE
    /\ UNCHANGED <<tock, busy, line, caller, statusVars>>

ResetFailure ==
    /\ manager.state = "FAILED"
    /\ manager' = [manager EXCEPT !.state = "IDLE", !.target = None, !.started = None] /\ direct' = FALSE
    /\ UNCHANGED <<tock, busy, line, caller, statusVars>>

----------------------------------------------------------------------------
(* The other manager: threads record the switches they make, and POST        *)
(* /backend/reset-failure is two calls, each under its lock                  *)

managerVars == <<manager, direct, busy, line, caller>>

ApiBegin(c, b) ==
    /\ drive[c] = None
    /\ drive' = [drive EXCEPT ![c] = [target |-> b, since |-> tock]]
    /\ api' = [api EXCEPT !.target = b, !.started = tock, !.timed = tock]
    /\ UNCHANGED <<tock, managerVars, reset>>

ApiComplete(c) ==
    /\ drive[c] # None /\ drive' = [drive EXCEPT ![c] = None]
    /\ api' = [api EXCEPT !.active = drive[c].target, !.target = None, !.started = None, !.timed = None,
                          !.took = IF api.timed = None THEN @ ELSE tock - api.timed]
    /\ UNCHANGED <<tock, managerVars, reset>>

\* A switch fails: the state says so, and the rest stays until it is reset.
ApiFails(c) ==
    /\ api.failures < FailuresMax
    /\ drive[c] # None /\ drive' = [drive EXCEPT ![c] = None]
    /\ api' = [api EXCEPT !.state = "FAILED", !.failures = @ + 1]
    /\ UNCHANGED <<tock, managerVars, reset>>

Found == IF api.state = "FAILED" THEN api.failures ELSE 0

\* Mutant: only the state is cleared.
ApiResetState(e) ==
    /\ reset[e].at = "idle"
    /\ reset' = [reset EXCEPT ![e] = [NoReset EXCEPT !.at = "status", !.found = Found]]
    /\ api' = IF api.state = "FAILED" THEN [api EXCEPT !.state = "IDLE", !.target = None] ELSE api
    /\ UNCHANGED <<tock, managerVars, drive>>

ApiReset(e) ==
    /\ reset[e].at = "idle"
    /\ reset' = [reset EXCEPT ![e] = [NoReset EXCEPT !.at = "status", !.found = Found]]
    /\ api' = IF api.state = "FAILED" THEN [api EXCEPT !.state = "IDLE", !.target = None, !.started = None] ELSE api
    /\ UNCHANGED <<tock, managerVars, drive>>

ApiReply(e) ==
    /\ reset[e].at = "status"
    /\ reset' = [reset EXCEPT ![e].at = "idle", ![e].ok = reset[e].found # 0, ![e].current = api.state]
    /\ UNCHANGED <<tock, managerVars, api, drive>>

SwitchTick == /\ tock < MaxTime /\ tock' = tock + 1
              /\ UNCHANGED <<managerVars, statusVars>>

ManagerNext ==
    \/ \E c \in Callers : (\E b \in Targets : SwitchTo(c, b)) \/ Switch(c) \/ Expire(c) \/ FallBack(c)
    \/ Hold \/ Release \/ ResetFailure \/ \E s \in States : SetState(s)
    \/ \E b \in Targets : SetActiveBackend(b) \/ BeginSwitch(b) \/ CompleteSwitch(b)

ApiNext ==
    \/ \E c \in Callers : (\E b \in Targets : ApiBegin(c, b)) \/ ApiComplete(c) \/ ApiFails(c)
    \/ \E e \in Endpoints : ApiReset(e) \/ ApiReply(e)

SwitchNext == ManagerNext \/ ApiNext \/ SwitchTick

SwitchSpec == SwitchInit /\ [][SwitchNext]_switchVars

----------------------------------------------------------------------------
(* Properties *)

\* Who leaves the tier to switch_to() never sees a switch half done, whatever times
\* out around it: get_status() does not name one tier as active and another as its
\* backend, and shows no target.  A call of one of the helpers ends that, and the next
\* switch, or the next failure that is cleared, brings it back.
AdvertisedTier ==
    direct \/ /\ manager.target = None
              /\ \A b \in Backends : manager.state = ActiveState(b) => manager.active = b

\* Concurrent switches to one backend coalesce: True means that this call
\* changed the backend, so it is answered once, and False otherwise.
SwitchesCoalesce ==
    [][\A c \in Callers :
         caller[c].at = "wait" /\ caller'[c].at = "idle"
           => caller'[c].answer = (manager'.active # manager.active)]_<<caller, manager>>

\* One failure is reported cleared by at most one of the resets that race for it,
\* and a reset that reports one may still show FAILED: the next failure.
OneResetReports ==
    \A e, f \in Endpoints :
        /\ e # f /\ reset[e].found # 0 => reset[e].found # reset[f].found
        /\ reset[e].ok /\ reset[e].current = "FAILED" => api.failures > reset[e].found

\* What a status shows of a switch belongs together, however switches of several
\* threads, helpers called directly, failures and resets mix: both managers show a
\* target exactly while they show when the switch started.
StatusAgrees ==
    /\ api.target = None <=> api.started = None
    /\ manager.target = None <=> manager.started = None

\* last_switch_duration_ms never says more than the switch that has just ended took,
\* though a reset leaves the clock of a failed one running.
TookAtMost ==
    [][\A c \in Callers : drive[c] # None /\ drive'[c] = None /\ api'.took # api.took
          => api'.took <= tock - drive[c].since]_<<api, drive>>

\* Whoever switches, times out, fails or resets learns what really happened: the tier
\* shown is the active one unless it was set past switch_to(), a switch's target, start
\* and duration belong together, racing switches change the backend once, and one
\* failure is cleared once.
BackendTold == [](AdvertisedTier /\ StatusAgrees /\ OneResetReports) /\ SwitchesCoalesce /\ TookAtMost
============================================================================
