---------------------------- MODULE EscalationLease ----------------------------
(***************************************************************************)
(* What the sticky-escalation table promises, without the table: a task    *)
(* holds at most one lease on the Claude tier, a lease ends TTL ticks      *)
(* after it was granted or with the last of the turns it was granted for,  *)
(* and no turn goes to Claude except on a lease or by granting one.        *)
(* Leases end here the moment they expire; the code evicts when it looks.  *)
(***************************************************************************)
EXTENDS Integers

CONSTANTS Tasks, TTL, Rescue, None

Unlimited == -1

VARIABLES clock, lease, served

Leases == [since : Nat, limit : {Unlimited, Rescue}, used : Nat]
Served == [task : Tasks, tier : {"claude", "local-long"}]

LeaseTypeOK ==
    /\ clock \in Nat
    /\ lease \in [Tasks -> Leases \cup {None}]
    /\ served \in Served \cup {None}

Init ==
    /\ clock = 0
    /\ lease = [t \in Tasks |-> None]
    /\ served = None

Pass ==
    /\ clock' = clock + 1
    /\ lease' = [t \in Tasks |->
         IF lease[t] # None /\ clock' - lease[t].since > TTL
         THEN None ELSE lease[t]]
    /\ UNCHANGED served

Serve(t, tier) == served' = [task |-> t, tier |-> tier]

\* A turn on a limited lease uses one of its turns; the last one ends it.
AfterRide(l) ==
    IF l.limit = Unlimited THEN l
    ELSE IF l.used + 1 = l.limit THEN None
    ELSE [l EXCEPT !.used = @ + 1]

Ride(t, tier) ==
    /\ lease[t] # None
    /\ lease' = [lease EXCEPT ![t] = AfterRide(@)]
    /\ Serve(t, tier)
    /\ UNCHANGED clock

Grant(t, tier, limit) ==
    /\ lease[t] = None
    /\ lease' = [lease EXCEPT ![t] = [since |-> clock, limit |-> limit, used |-> 0]]
    /\ Serve(t, tier)
    /\ UNCHANGED clock

StayLocal(t) ==
    /\ lease[t] = None
    /\ Serve(t, "local-long")
    /\ UNCHANGED <<clock, lease>>

Next ==
    \/ Pass
    \/ \E t \in Tasks :
          \/ \E tier \in {"claude", "local-long"} :
                \/ Ride(t, tier)
                \/ \E limit \in {Unlimited, Rescue} : Grant(t, tier, limit)
          \/ StayLocal(t)

Spec == Init /\ [][Next]_<<clock, lease, served>>
=============================================================================
