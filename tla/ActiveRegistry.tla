---------------------------- MODULE ActiveRegistry ----------------------------
(***************************************************************************)
(* router/route_by_size.py: the in-flight registry of SizeBasedRouter and  *)
(* its mirror .logs/active.json, which the dashboard (another process)     *)
(* reads.                                                                  *)
(*                                                                         *)
(* The dict changes under _active_lock; _flush_active() takes its payload  *)
(* under the lock and does the rest outside it: open active.json.tmp,      *)
(* write, os.replace().  Every flush uses the same temporary name, so the  *)
(* files are modelled down to their inodes: a name may come to mean        *)
(* another file while a writer still holds it open.                        *)
(***************************************************************************)
EXTENDS Common, FiniteSets

CONSTANTS
    Calls,      \* litellm_call_ids
    Writers,    \* threads that run hooks; only the event loop, in the proxy
    Restarts    \* bound: how often the proxy dies and is started again

ASSUME RegistryAssumption ==
    /\ IsFiniteSet(Writers) /\ Writers # {}
    /\ Restarts \in Nat /\ None \notin Nat

VARIABLES
    state,     \* where each call is in LiteLLM
    active,    \* _active
    pc,        \* where each thread is in _flush_active()
    payload,   \* ... the snapshot it took
    fd,        \* ... the file it has open
    name,      \* the two directory entries: inode, or None
    disk,      \* the text of each inode
    restarts

vars == <<state, active, pc, payload, fd, name, disk, restarts>>
files == <<name, disk>>

\* Enough for both names and every open file.
Inodes == 1..(Cardinality(Writers) + 2)

\* A file's text: nothing, the JSON of some rows, or a mixture of two writes.
Texts == [form : {"empty", "whole", "mixed"}, rows : SUBSET Calls]
Empty == [form |-> "empty", rows |-> {}]
Json(rows) == [form |-> "whole", rows |-> rows]

TypeOK ==
    /\ state \in [Calls -> {"new", "running", "over"}]
    /\ active \subseteq Calls
    /\ pc \in [Writers -> {"idle", "snapshot", "open", "write", "replace"}]
    /\ payload \in [Writers -> SUBSET Calls]
    /\ fd \in [Writers -> Inodes \cup {None}]
    /\ name \in [{"target", "tmp"} -> Inodes \cup {None}]
    /\ disk \in [Inodes -> Texts]
    /\ \A w \in Writers : pc[w] = "write" <=> fd[w] # None
    /\ restarts \in 0..Restarts

\* __init__() flushes before anything else runs, whatever the last process
\* left in the directory; here, nothing.
Booting(w) == pc = [v \in Writers |-> IF v = w THEN "snapshot" ELSE "idle"]

Init ==
    /\ state = [c \in Calls |-> "new"]
    /\ active = {}
    /\ \E w \in Writers : Booting(w)
    /\ payload = [w \in Writers |-> {}]
    /\ fd = [w \in Writers |-> None]
    /\ name = [n \in {"target", "tmp"} |-> None]
    /\ disk = [i \in Inodes |-> Empty]
    /\ restarts = 0

-----------------------------------------------------------------------------
(* The hooks: a change of the dict under the lock, then a flush *)

Booted == name["target"] # None

GoTo(w, step) == pc' = [pc EXCEPT ![w] = step]

\* _register_active(), at the end of the pre-call hook.
Register(w, c) ==
    /\ Booted /\ pc[w] = "idle"
    /\ state[c] = "new"
    /\ state' = [state EXCEPT ![c] = "running"]
    /\ active' = active \cup {c}
    /\ GoTo(w, "snapshot")
    /\ UNCHANGED <<payload, fd, files, restarts>>

\* _drop_active(), from a success or failure hook.
Drop(w, c) ==
    /\ pc[w] = "idle"
    /\ state[c] = "running"
    /\ state' = [state EXCEPT ![c] = "over"]
    /\ active' = active \ {c}
    /\ GoTo(w, "snapshot")
    /\ UNCHANGED <<payload, fd, files, restarts>>

\* LiteLLM drops a call without firing either hook.
Abandon(c) ==
    /\ state[c] = "running"
    /\ state' = [state EXCEPT ![c] = "over"]
    /\ UNCHANGED <<active, pc, payload, fd, files, restarts>>

-----------------------------------------------------------------------------
(* _flush_active() *)

Snapshot(w) ==
    /\ pc[w] = "snapshot"
    /\ payload' = [payload EXCEPT ![w] = active]
    /\ GoTo(w, "open")
    /\ UNCHANGED <<state, active, fd, files, restarts>>

InUse == {name[n] : n \in DOMAIN name} \cup {fd[w] : w \in Writers}

\* open(n, "w"): the file of that name is truncated, or a new one is made.
Truncate(w, n) ==
    /\ pc[w] = "open"
    /\ LET file == IF name[n] # None THEN name[n]
                   ELSE CHOOSE i \in Inodes : i \notin InUse
       IN /\ name' = [name EXCEPT ![n] = file]
          /\ disk' = [disk EXCEPT ![file] = Empty]
          /\ fd' = [fd EXCEPT ![w] = file]
    /\ GoTo(w, "write")
    /\ UNCHANGED <<state, active, payload, restarts>>

\* Mutant: no temporary file.
OpenTarget(w) == Truncate(w, "target")

OpenTmp(w) == Truncate(w, "tmp")

\* The text goes to the file that was opened, whatever it is called by now, and
\* from its beginning, whatever was written to it since.
Write(w) ==
    /\ pc[w] = "write"
    /\ disk' = [disk EXCEPT ![fd[w]] =
                  IF @ = Empty \/ @ = Json(payload[w]) THEN Json(payload[w])
                  ELSE [@ EXCEPT !.form = "mixed"]]
    /\ fd' = [fd EXCEPT ![w] = None]
    /\ GoTo(w, "replace")
    /\ UNCHANGED <<state, active, payload, name, restarts>>

\* os.replace(tmp, ACTIVE_PATH).  It raises when another thread has renamed the
\* file already, and the exception is printed and dropped.
Replace(w) ==
    /\ pc[w] = "replace"
    /\ name' = IF name["tmp"] = None THEN name
               ELSE [target |-> name["tmp"], tmp |-> None]
    /\ GoTo(w, "idle")
    /\ UNCHANGED <<state, active, payload, fd, disk, restarts>>

-----------------------------------------------------------------------------

\* The process dies anywhere and is started again: its calls are over, the
\* files stay as they are, and __init__() flushes the empty dict.
Restart ==
    /\ restarts < Restarts
    /\ restarts' = restarts + 1
    /\ state' = [c \in Calls |-> IF state[c] = "running" THEN "over" ELSE state[c]]
    /\ active' = {}
    /\ \E w \in Writers : pc' = [v \in Writers |-> IF v = w THEN "snapshot" ELSE "idle"]
    /\ payload' = [w \in Writers |-> {}]
    /\ fd' = [w \in Writers |-> None]
    /\ UNCHANGED files

Flush(w) == Snapshot(w) \/ OpenTmp(w) \/ Write(w) \/ Replace(w)

Next ==
    \/ \E w \in Writers :
          \/ Flush(w)
          \/ \E c \in Calls : Register(w, c) \/ Drop(w, c)
    \/ \E c \in Calls : Abandon(c)
    \/ Restart

Spec == Init /\ [][Next]_vars

-----------------------------------------------------------------------------
(* Properties *)

\* _flush_active()'s docstring: "a concurrent reader never sees a half-written
\* file", also after the process died in the middle of a write.
ReaderSeesWhole ==
    name["target"] # None => disk[name["target"]].form = "whole"

\* The dict is mirrored "after every mutation": while no flush is under way the
\* file holds its rows, those of calls abandoned included and those of a dead
\* process excluded.
MirrorCurrent ==
    (\A w \in Writers : pc[w] = "idle") =>
        name["target"] # None /\ disk[name["target"]] = Json(active)

\* What another process makes of the mirror file is what the router has in flight: it
\* never reads a half-written or missing list, and between flushes the list is the
\* dict's, through abandoned calls, crashes in a flush and restarts.
MirrorFaithful == ReaderSeesWhole /\ MirrorCurrent
=============================================================================
