----------------------------- MODULE RequestQueue -----------------------------
(***************************************************************************)
(* What the store of pending requests promises: a request waits, or its    *)
(* failure is on record, and each operation moves it in one step.  The one *)
(* thing a crash may do is to bring a request back whose failure is        *)
(* already on record.                                                      *)
(***************************************************************************)
CONSTANTS Ids, Bodies, Absent, Stub

VARIABLES waiting,  \* the payload that waits under each id, or Absent
          failed    \* the payload on record with an error, Stub, or Absent

vars == <<waiting, failed>>

Init == waiting = [i \in Ids |-> Absent] /\ failed = [i \in Ids |-> Absent]

Add(i, body) == waiting' = [waiting EXCEPT ![i] = body] /\ UNCHANGED failed

\* Completed, or given up on for its age.
Remove(i) == waiting' = [waiting EXCEPT ![i] = Absent] /\ UNCHANGED failed

Fail(i) ==
    /\ failed' = [failed EXCEPT ![i] = IF waiting[i] = Absent THEN Stub ELSE waiting[i]]
    /\ waiting' = [waiting EXCEPT ![i] = Absent]

Reappear(i) ==
    /\ waiting[i] = Absent /\ failed[i] \in Bodies
    /\ waiting' = [waiting EXCEPT ![i] = failed[i]]
    /\ UNCHANGED failed

Next == \E i \in Ids : \/ \E body \in Bodies : Add(i, body)
                       \/ Remove(i) \/ Fail(i) \/ Reappear(i)

Spec == Init /\ [][Next]_vars
============================================================================
