--------------------------- MODULE StickyEscalation ---------------------------
(***************************************************************************)
(* router/route_by_size.py: decide_tier_cline() and the sticky-escalation  *)
(* table behind it.                                                        *)
(*                                                                         *)
(* One action per way a Cline turn can be decided, in the code's order: a  *)
(* live sticky entry, the [local] tag, a model tag, complexity, context    *)
(* saturation, a failed tool result, the default.  Each begins with        *)
(* _check_sticky(), which evicts every expired entry before anything else. *)
(* A task's kind is a function of its text, and so of its fingerprint.     *)
(***************************************************************************)
EXTENDS Common

CONSTANTS
    Tasks,         \* task fingerprints
    KindOf,        \* what classify() and _extract_model_override() make of each
    StickyTTL,     \* _STICKY_TTL_SECONDS
    RescueTurns,   \* _TOOL_RESULT_STICKY_TURNS
    TurboEnabled   \* TURBO_ENABLED

\* "plain" is neither tagged nor complex; [claude] and the keywords are "complex".
Kinds == {"local", "complex", "plain"} \cup OverrideAliases

\* Why an entry was made, and the sentinel for "no turn budget".
Causes == {"override", "complex", "saturation", "failure"}
Unbounded == -1

Entries == [ts : 0..MaxTime, why : Causes, left : {Unbounded} \cup 1..RescueTurns]
Models == ClaudeAliases \cup TurboModels \cup {Fallback}
Routes == [task : Tasks, model : Models, offline : BOOLEAN,
           by : Causes \cup {"sticky", "local-tag", "default"}]

ASSUME StickyAssumption ==
    /\ KindOf \in [Tasks -> Kinds]
    /\ StickyTTL \in Nat
    /\ RescueTurns \in Nat \ {0}
    /\ TurboEnabled \in BOOLEAN

\* None is none of the values it stands in for.
ASSUME NoneAssumption ==
    /\ None \notin Entries
    /\ None \notin Routes
    /\ None \notin [since : Nat, limit : Int, used : Nat]

VARIABLES
    now,         \* time.time()
    sticky,      \* _sticky_escalations
    route,       \* what the last call of decide_tier_cline() returned
    ridden       \* history: turns a turn-bounded entry has decided so far

vars == <<now, sticky, route, ridden>>

TypeOK ==
    /\ now \in 0..MaxTime
    /\ sticky \in [Tasks -> Entries \cup {None}]
    /\ route \in Routes \cup {None}
    /\ ridden \in [Tasks -> Nat]

Init ==
    /\ now = 0
    /\ sticky = [t \in Tasks |-> None]
    /\ route = None
    /\ ridden = [t \in Tasks |-> 0]

-----------------------------------------------------------------------------
(* The sticky table *)

\* Mutant: >= for >.
ExpiredInclusive(entry) == now - entry.ts >= StickyTTL

Expired(entry) == now - entry.ts > StickyTTL

\* The eviction pass at the head of _check_sticky().
Swept == [t \in Tasks |->
            IF sticky[t] # None /\ Expired(sticky[t]) THEN None ELSE sticky[t]]

\* Mutant: the entry is evicted one turn late.
SpendToZero(entry) ==
    IF entry.left = Unbounded THEN entry
    ELSE IF entry.left <= 0 THEN None
    ELSE [entry EXCEPT !.left = @ - 1]

\* The rest of _check_sticky() for an entry it found: a turn-bounded entry
\* pays one turn and is evicted with its last one.
Spend(entry) ==
    IF entry.left = Unbounded THEN entry
    ELSE IF entry.left <= 1 THEN None
    ELSE [entry EXCEPT !.left = @ - 1]

\* _mark_sticky() and _mark_sticky_turns()
Mark(t, why, left) ==
    /\ sticky' = [Swept EXCEPT ![t] = [ts |-> now, why |-> why, left |-> left]]
    /\ ridden' = [ridden EXCEPT ![t] = 0]

NoMark == sticky' = Swept /\ UNCHANGED ridden

Return(t, model, by, offline) ==
    route' = [task |-> t, model |-> model, by |-> by, offline |-> offline]

-----------------------------------------------------------------------------
(* decide_tier_cline(), branch by branch *)

\* A live entry decides the turn: Claude, or local-long while offline.  The
\* turn is paid for in both cases.
StickyTurn(t, offline) ==
    /\ Swept[t] # None
    /\ sticky' = [Swept EXCEPT ![t] = Spend(@)]
    /\ ridden' = [ridden EXCEPT ![t] =
                    IF Swept[t].left = Unbounded THEN @ ELSE @ + 1]
    /\ Return(t, IF offline THEN Fallback ELSE "claude-code", "sticky", offline)
    /\ UNCHANGED now

Unstuck(t) == Swept[t] = None

LocalTagTurn(t, offline) ==
    /\ Unstuck(t)
    /\ KindOf[t] = "local"
    /\ NoMark
    /\ Return(t, "local-long", "local-tag", offline)
    /\ UNCHANGED now

\* [haiku] / [sonnet] / [opus] / [fable]: the named model, unless offline, and
\* then without a mark.
OverrideTurn(t, offline) ==
    /\ Unstuck(t)
    /\ KindOf[t] \in OverrideAliases
    /\ IF offline
       THEN NoMark /\ Return(t, Fallback, "override", offline)
       ELSE /\ Mark(t, "override", Unbounded)
            /\ Return(t, KindOf[t], "override", offline)
    /\ UNCHANGED now

ComplexTurn(t, offline) ==
    /\ Unstuck(t)
    /\ KindOf[t] = "complex"
    /\ IF offline
       THEN NoMark /\ Return(t, Fallback, "complex", offline)
       ELSE /\ Mark(t, "complex", Unbounded)
            /\ Return(t, "claude-code", "complex", offline)
    /\ UNCHANGED now

\* Mutant: the saturation and failure rules run before the tags are looked at.
UndecidedYet(t) == Unstuck(t)

Undecided(t) == Unstuck(t) /\ KindOf[t] = "plain"

\* The request is above saturation_limit.  Turbo, when enabled, is tried first
\* (`turbo` is the model _try_turbo_escalation() found, or None); the network
\* is not consulted either way.
SaturatedTurn(t, turbo, offline) ==
    /\ Undecided(t)
    /\ turbo # None => TurboEnabled
    /\ Mark(t, "saturation", Unbounded)
    /\ Return(t, IF turbo # None THEN turbo ELSE "claude-code", "saturation", offline)
    /\ UNCHANGED now

\* From the fourth message on, a tool result that _looks_like_failure().
FailureTurn(t, offline) ==
    /\ Undecided(t)
    /\ IF offline
       THEN NoMark /\ Return(t, Fallback, "failure", offline)
       ELSE /\ Mark(t, "failure", RescueTurns)
            /\ Return(t, "claude-code", "failure", offline)
    /\ UNCHANGED now

DefaultTurn(t, offline) ==
    /\ Undecided(t)
    /\ NoMark
    /\ Return(t, "local-long", "default", offline)
    /\ UNCHANGED now

\* decide_tier_cline() on any request of task t.  A Cline request in which no
\* task is found is decided by decide_tier(), as any other client's.
DecideTierCline(t, offline) ==
    \/ StickyTurn(t, offline)
    \/ LocalTagTurn(t, offline)
    \/ OverrideTurn(t, offline)
    \/ ComplexTurn(t, offline)
    \/ \E turbo \in TurboModels \cup {None} : SaturatedTurn(t, turbo, offline)
    \/ FailureTurn(t, offline)
    \/ DefaultTurn(t, offline)

Tick ==
    /\ now < MaxTime
    /\ now' = now + 1
    /\ UNCHANGED <<sticky, route, ridden>>

Next ==
    \/ Tick
    \/ \E t \in Tasks, offline \in BOOLEAN : DecideTierCline(t, offline)

Spec == Init /\ [][Next]_vars

-----------------------------------------------------------------------------
(* Properties *)

\* [local] "beats EVERYTHING": the sticky table is consulted before the tag,
\* so this holds only because no branch ever marks such a task -- not on a
\* saturated request, not on a failed tool result, not offline.
LocalTagStaysLocal ==
    \A t \in Tasks : KindOf[t] = "local" =>
        /\ sticky[t] = None
        /\ route # None /\ route.task = t => route.model = "local-long"

\* A failed tool result buys a rescue window of RescueTurns follow-up turns:
\* the entry it made never decides more, whatever else happens in between.
RescueWindow ==
    \A t \in Tasks : sticky[t] # None /\ sticky[t].why = "failure" =>
        /\ ridden[t] < RescueTurns
        /\ sticky[t].left = RescueTurns - ridden[t]

\* The lease an entry stands for, counted up instead of down.
LeaseFor(entry, used) ==
    IF entry.why = "failure"
    THEN [since |-> entry.ts, limit |-> RescueTurns, used |-> used]
    ELSE [since |-> entry.ts, limit |-> Unbounded, used |-> 0]

LeaseOf == [t \in Tasks |->
              IF Swept[t] = None THEN None ELSE LeaseFor(Swept[t], ridden[t])]

ServedOf == IF route = None THEN None
            ELSE [task |-> route.task, tier |-> TierOf(route.model)]

\* The table with its lazy eviction implements leases that end by themselves.
Lease == INSTANCE EscalationLease WITH
    clock <- now, TTL <- StickyTTL, Rescue <- RescueTurns,
    lease <- LeaseOf, served <- ServedOf

\* Every Claude turn of a Cline task is granted by its own content or rides a
\* lease that is neither older than StickyTTL nor out of turns.
ImplementsLease == Lease!Spec
=============================================================================
