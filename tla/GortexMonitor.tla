----------------------------- MODULE GortexMonitor -----------------------------
(***************************************************************************)
(* dashboard/monitor.py: what /monitor says of the gortex daemon.  Whether *)
(* it runs is read from its pidfile at every poll; the rest is a cached    *)
(* answer of `gortex daemon status`, asked by the poll that finds it old.  *)
(* FastAPI runs the polls of several tabs in threads, and no lock is held. *)
(***************************************************************************)
EXTENDS Common

CONSTANTS
    Polls,      \* threads serving /monitor
    Sessions,   \* session counts the daemon may report
    DetailTTL,  \* GORTEX_DETAIL_TTL_SEC
    AskMax      \* GORTEX_DETAIL_TIMEOUT_SEC, the most a poll takes

ASSUME GortexAssumption == DetailTTL \in Nat \ {0} /\ AskMax \in Nat /\ None \notin Sessions

VARIABLES
    time,
    daemon,    \* the sessions of the daemon, or None when it does not run
    detail,    \* _gortex_detail_cache: sessions or None, detail_ok, and
               \* (history) when the sessions were counted
    cachedAt,  \* _gortex_detail_cached_at
    poll       \* the polls: step, clock read, answer got

gortexVars == <<time, daemon, detail, cachedAt, poll>>

NoDetail == [sessions |-> None, ok |-> FALSE, asOf |-> 0]
Quiet == [at |-> "idle", clock |-> 0, got |-> NoDetail]

\* The cache is as good as expired when the process starts: time.time() is far from 0.
GortexInit ==
    /\ time = 0
    /\ daemon \in Sessions \cup {None}
    /\ detail = NoDetail
    /\ cachedAt = -DetailTTL
    /\ poll = [t \in Polls |-> Quiet]

\* gortex_liveness(): a dead daemon's page shows the defaults, and leaves the cache.
Liveness(t) ==
    /\ poll[t].at = "idle"
    /\ poll' = [poll EXCEPT ![t] = IF daemon = None THEN Quiet
                ELSE [Quiet EXCEPT !.at = "refresh", !.clock = time]]
    /\ UNCHANGED <<time, daemon, detail, cachedAt>>

\* _refresh_gortex_detail_cache(): young enough, or asked for anew.
Young(t) == poll[t].clock - cachedAt < DetailTTL

Reuse(t) ==
    /\ poll[t].at = "refresh" /\ Young(t)
    /\ poll' = [poll EXCEPT ![t].at = "show"]
    /\ UNCHANGED <<time, daemon, detail, cachedAt>>

StartAsking(t) ==
    /\ poll[t].at = "refresh" /\ ~Young(t)
    /\ poll' = [poll EXCEPT ![t].at = "ask"]
    /\ UNCHANGED <<time, daemon, detail, cachedAt>>

\* `gortex daemon status`: an answer, or an error or a timeout.
Ask(t) ==
    /\ poll[t].at = "ask"
    /\ \E answers \in {FALSE, daemon # None} :
         poll' = [poll EXCEPT ![t].at = "stamp",
                    ![t].got = IF answers THEN [sessions |-> daemon, ok |-> TRUE, asOf |-> time]
                                        ELSE NoDetail]
    /\ UNCHANGED <<time, daemon, detail, cachedAt>>

Stamp(t) ==
    /\ poll[t].at = "stamp"
    /\ cachedAt' = poll[t].clock
    /\ poll' = [poll EXCEPT ![t].at = IF poll[t].got.ok THEN "store" ELSE "copy"]
    /\ UNCHANGED <<time, daemon, detail>>

\* Mutant: the copy keeps detail_ok as it was.
CopyKeepsOk(t) ==
    /\ poll[t].at = "copy"
    /\ poll' = [poll EXCEPT ![t].at = "store", ![t].got = detail]
    /\ UNCHANGED <<time, daemon, detail, cachedAt>>

\* A refresh that failed copies the cache and marks the copy as not confirmed ...
Copy(t) ==
    /\ poll[t].at = "copy"
    /\ poll' = [poll EXCEPT ![t].at = "store", ![t].got = [detail EXCEPT !.ok = FALSE]]
    /\ UNCHANGED <<time, daemon, detail, cachedAt>>

\* ... and the copy, or the answer, takes the cache's place, whatever another
\* poll has put there meanwhile.
StoreDetail(t) ==
    /\ poll[t].at = "store"
    /\ detail' = poll[t].got
    /\ poll' = [poll EXCEPT ![t].at = "show"]
    /\ UNCHANGED <<time, daemon, cachedAt>>

\* The page gets what the cache is by then.
ShowDetail(t) ==
    /\ poll[t].at = "show"
    /\ poll' = [poll EXCEPT ![t] = Quiet]
    /\ UNCHANGED <<time, daemon, detail, cachedAt>>

\* The daemon starts, stops, or its sessions change.
DaemonChanges ==
    /\ daemon' \in (Sessions \cup {None}) \ {daemon}
    /\ UNCHANGED <<time, detail, cachedAt, poll>>

\* Bound: a poll is over AskMax after it read the clock.
GortexTick ==
    /\ time < MaxTime
    /\ \A t \in Polls : poll[t].at # "idle" => time - poll[t].clock < AskMax
    /\ time' = time + 1
    /\ UNCHANGED <<daemon, detail, cachedAt, poll>>

GortexNext ==
    \/ \E t \in Polls : \/ Liveness(t) \/ Reuse(t) \/ StartAsking(t)
                       \/ Ask(t) \/ Stamp(t) \/ Copy(t) \/ StoreDetail(t) \/ ShowDetail(t)
    \/ DaemonChanges \/ GortexTick

GortexSpec == GortexInit /\ [][GortexNext]_gortexVars

----------------------------------------------------------------------------
(* Properties *)

\* "It must not clobber the last known-good ... session counts, otherwise one slow
\* poll flashes 0 sessions" (monitor.py:209): once a poll has had an answer, the page
\* of a running daemon is never back to no sessions.  The code does not keep this: a
\* poll that fails may have copied the cache before another one stored its answer.
LastGoodKept ==
    [][detail.sessions # None => detail'.sessions # None]_detail

\* Polls that have set cached_at and not yet the cache.
Storing == {t \in Polls : poll[t].at \in {"copy", "store"}}

\* "detail_ok ... True iff ... a confirmed answer ..., not a stale" one: sessions
\* shown as confirmed were counted less than a TTL and two polls ago, whichever
\* polls overlapped, failed and overwrote each other -- but for the moment in which
\* another poll has set cached_at and not yet the cache, when an answer of any age
\* looks young.
ConfirmedIsRecent ==
    [][\A t \in Polls : poll[t].at = "show" /\ poll'[t].at = "idle" /\ detail.ok /\ Storing = {}
         => time - detail.asOf < DetailTTL + 2 * AskMax]_poll
============================================================================
