----------------------- MODULE StickyEscalation_proofs -----------------------
(***************************************************************************)
(* Proofs about StickyEscalation, for any tasks of any kinds, any lifetime *)
(* and any rescue window.                                                  *)
(***************************************************************************)
EXTENDS StickyEscalation, TLAPS

\* Only a failed tool result makes a turn-bounded entry.
OnlyFailuresCount ==
    \A t \in Tasks : sticky[t] # None /\ sticky[t].why # "failure" =>
        sticky[t].left = Unbounded

IInv ==
    /\ TypeOK
    /\ LocalTagStaysLocal
    /\ RescueWindow
    /\ OnlyFailuresCount

USE DEF Unbounded, Causes, Kinds, OverrideAliases, ClaudeAliases, TurboModels,
        Fallback

\* An eviction pass keeps every entry as it was or removes it.
LEMMA SweptKeepsOrEvicts ==
  ASSUME TypeOK, NEW t \in Tasks
  PROVE  /\ Swept \in [Tasks -> Entries \cup {None}]
         /\ Swept[t] \in {sticky[t], None}
  BY DEF Swept, TypeOK

LEMMA InitIInv == Init => IInv
<1> SUFFICES ASSUME Init PROVE IInv
  OBVIOUS
<1>1. TypeOK
  <2>1. now \in 0..MaxTime /\ route \in Routes \cup {None}
    BY MaxTimeAssumption DEF Init
  <2>2. sticky \in [Tasks -> Entries \cup {None}]
    BY DEF Init
  <2>3. ridden \in [Tasks -> Nat]
    BY DEF Init
  <2>4. QED
    BY <2>1, <2>2, <2>3 DEF TypeOK
<1>2. LocalTagStaysLocal
  BY DEF Init, LocalTagStaysLocal
<1>3. RescueWindow /\ OnlyFailuresCount
  BY DEF Init, RescueWindow, OnlyFailuresCount
<1>4. QED
  BY <1>1, <1>2, <1>3 DEF IInv

\* A branch that marks nothing preserves what is said of the table.
LEMMA NoMarkStep ==
  ASSUME IInv, NoMark, UNCHANGED now, NEW t0 \in Tasks,
         NEW model \in Models, NEW offline \in BOOLEAN,
         NEW by \in Causes \cup {"sticky", "local-tag", "default"},
         Return(t0, model, by, offline),
         KindOf[t0] = "local" => model = "local-long"
  PROVE  IInv'
<1> USE DEF IInv, NoMark, Return
<1>1. TypeOK'
  BY SweptKeepsOrEvicts DEF TypeOK, Routes
<1>2. LocalTagStaysLocal'
  BY SweptKeepsOrEvicts DEF LocalTagStaysLocal
<1>3. RescueWindow' /\ OnlyFailuresCount'
  BY SweptKeepsOrEvicts DEF RescueWindow, OnlyFailuresCount
<1>4. QED
  BY <1>1, <1>2, <1>3

\* A branch that marks a task that is not tagged [local] preserves it too.
LEMMA MarkStep ==
  ASSUME IInv, UNCHANGED now, NEW t0 \in Tasks, NEW why \in Causes,
         NEW left \in {Unbounded, RescueTurns}, Mark(t0, why, left),
         (why = "failure") <=> (left = RescueTurns),
         NEW model \in Models, NEW offline \in BOOLEAN,
         Return(t0, model, why, offline),
         KindOf[t0] # "local"
  PROVE  IInv'
<1> USE DEF IInv, Mark, Return
<1> USE StickyAssumption, MaxTimeAssumption
<1>0. [ts |-> now, why |-> why, left |-> left] \in Entries
  BY DEF Entries, TypeOK
<1>1. TypeOK'
  BY <1>0, SweptKeepsOrEvicts DEF TypeOK, Routes
<1>2. LocalTagStaysLocal'
  BY SweptKeepsOrEvicts DEF LocalTagStaysLocal, TypeOK
<1>3. RescueWindow'
  BY <1>0, SweptKeepsOrEvicts DEF RescueWindow, TypeOK
<1>4. OnlyFailuresCount'
  BY <1>0, SweptKeepsOrEvicts DEF OnlyFailuresCount, TypeOK
<1>5. QED
  BY <1>1, <1>2, <1>3, <1>4

\* A turn on an entry spends it by one turn and preserves the invariant.
LEMMA StickyStep ==
  ASSUME IInv, NEW t0 \in Tasks, NEW offline \in BOOLEAN, StickyTurn(t0, offline)
  PROVE  IInv'
<1> USE StickyAssumption, MaxTimeAssumption DEF IInv
<1> DEFINE entry == sticky[t0]
<1>1. Swept[t0] = entry /\ entry \in Entries
  BY SweptKeepsOrEvicts DEF StickyTurn, TypeOK
<1>2. /\ sticky' = [Swept EXCEPT ![t0] = Spend(entry)]
      /\ ridden' = [ridden EXCEPT ![t0] = IF entry.left = Unbounded THEN @ ELSE @ + 1]
      /\ UNCHANGED now
      /\ Return(t0, IF offline THEN Fallback ELSE "claude-code", "sticky", offline)
  BY <1>1 DEF StickyTurn
<1>3. Spend(entry) \in Entries \cup {None}
  BY <1>1 DEF Spend, Entries
<1>4. Spend(entry) # None =>
        /\ Spend(entry).ts = entry.ts
        /\ Spend(entry).why = entry.why
        /\ entry.left # Unbounded => Spend(entry).left = entry.left - 1 /\ entry.left > 1
        /\ entry.left = Unbounded => Spend(entry).left = Unbounded
  BY <1>1 DEF Spend, Entries
<1>5. TypeOK'
  BY <1>2, <1>3, SweptKeepsOrEvicts DEF TypeOK, Routes, Return, Models
<1>6. LocalTagStaysLocal'
  <2>1. KindOf[t0] # "local"
    BY <1>1, NoneAssumption DEF LocalTagStaysLocal
  <2>2. QED
    BY <1>2, <2>1, SweptKeepsOrEvicts DEF LocalTagStaysLocal, Return, TypeOK
<1>7. RescueWindow'
  <2>1. SUFFICES ASSUME NEW t \in Tasks, sticky'[t] # None, sticky'[t].why = "failure"
                 PROVE  /\ ridden'[t] < RescueTurns
                        /\ sticky'[t].left = RescueTurns - ridden'[t]
    BY DEF RescueWindow
  <2>2. CASE t # t0
    BY <1>2, <2>1, <2>2, SweptKeepsOrEvicts DEF RescueWindow, TypeOK
  <2>3. CASE t = t0
    <3>1. /\ entry.why = "failure" /\ entry # None
          /\ sticky'[t].left = IF entry.left = Unbounded THEN Unbounded ELSE entry.left - 1
          /\ entry.left # Unbounded => entry.left > 1
      BY <1>1, <1>2, <1>4, <2>1, <2>3, SweptKeepsOrEvicts, NoneAssumption DEF TypeOK
    <3>2. entry.left = RescueTurns - ridden[t0] /\ ridden[t0] < RescueTurns
      BY <3>1 DEF RescueWindow
    <3>3. ridden'[t0] = ridden[t0] + 1
      BY <1>2, <3>2 DEF TypeOK
    <3>4. ridden[t0] \in Nat
      BY DEF TypeOK
    <3>5. QED
      BY <2>3, <3>1, <3>2, <3>3, <3>4
  <2>4. QED
    BY <2>2, <2>3
<1>8. OnlyFailuresCount'
  <2>1. ASSUME NEW t \in Tasks, sticky'[t] # None
        PROVE  /\ sticky[t] # None
               /\ sticky'[t].why = sticky[t].why
               /\ sticky[t].left = Unbounded => sticky'[t].left = Unbounded
    BY <1>1, <1>2, <1>4, <2>1, SweptKeepsOrEvicts, NoneAssumption DEF TypeOK
  <2>2. QED
    BY <2>1 DEF OnlyFailuresCount
<1>9. QED
  BY <1>5, <1>6, <1>7, <1>8

\* Every way a Cline turn is decided, and time, preserve the invariant.
LEMMA NextIInv == IInv /\ [Next]_vars => IInv'
<1> SUFFICES ASSUME IInv, [Next]_vars PROVE IInv'
  OBVIOUS
<1> USE StickyAssumption DEF Models
<1>1. ASSUME NEW t \in Tasks, NEW offline \in BOOLEAN, StickyTurn(t, offline)
      PROVE  IInv'
  BY <1>1, StickyStep
<1>2. ASSUME NEW t \in Tasks, NEW offline \in BOOLEAN, LocalTagTurn(t, offline)
      PROVE  IInv'
  BY <1>2, NoMarkStep DEF LocalTagTurn
<1>3. ASSUME NEW t \in Tasks, NEW offline \in BOOLEAN, OverrideTurn(t, offline)
      PROVE  IInv'
  <2>1. CASE offline
    BY <1>3, <2>1, NoMarkStep DEF OverrideTurn
  <2>2. CASE ~offline
    BY <1>3, <2>2, MarkStep DEF OverrideTurn
  <2>3. QED
    BY <2>1, <2>2
<1>4. ASSUME NEW t \in Tasks, NEW offline \in BOOLEAN, ComplexTurn(t, offline)
      PROVE  IInv'
  <2>1. CASE offline
    BY <1>4, <2>1, NoMarkStep DEF ComplexTurn
  <2>2. CASE ~offline
    BY <1>4, <2>2, MarkStep DEF ComplexTurn
  <2>3. QED
    BY <2>1, <2>2
<1>5. ASSUME NEW t \in Tasks, NEW offline \in BOOLEAN,
             NEW turbo \in TurboModels \cup {None}, SaturatedTurn(t, turbo, offline)
      PROVE  IInv'
  <2>1. (IF turbo # None THEN turbo ELSE "claude-code") \in Models
    BY <1>5
  <2>2. KindOf[t] # "local"
    BY <1>5 DEF SaturatedTurn, Undecided
  <2>3. /\ Mark(t, "saturation", Unbounded)
        /\ Return(t, IF turbo # None THEN turbo ELSE "claude-code", "saturation", offline)
        /\ UNCHANGED now
    BY <1>5 DEF SaturatedTurn
  <2>4. Unbounded # RescueTurns
    OBVIOUS
  <2>5. QED
    BY <2>1, <2>2, <2>3, <2>4, MarkStep
<1>6. ASSUME NEW t \in Tasks, NEW offline \in BOOLEAN, FailureTurn(t, offline)
      PROVE  IInv'
  <2>1. CASE offline
    BY <1>6, <2>1, NoMarkStep DEF FailureTurn
  <2>2. CASE ~offline
    BY <1>6, <2>2, MarkStep DEF FailureTurn, Undecided
  <2>3. QED
    BY <2>1, <2>2
<1>7. ASSUME NEW t \in Tasks, NEW offline \in BOOLEAN, DefaultTurn(t, offline)
      PROVE  IInv'
  BY <1>7, NoMarkStep DEF DefaultTurn
<1>8. CASE Tick
  <2>1. now' \in 0..MaxTime /\ UNCHANGED <<sticky, route, ridden>>
    BY <1>8, MaxTimeAssumption DEF Tick, IInv, TypeOK
  <2>2. TypeOK'
    BY <2>1 DEF IInv, TypeOK
  <2>3. QED
    BY <2>1, <2>2 DEF IInv, LocalTagStaysLocal, RescueWindow, OnlyFailuresCount
<1>9. CASE UNCHANGED vars
  BY <1>9 DEF vars, IInv, TypeOK, LocalTagStaysLocal, RescueWindow,
     OnlyFailuresCount
<1>10. QED
  BY <1>1, <1>2, <1>3, <1>4, <1>5, <1>6, <1>7, <1>8, <1>9 DEF Next, DecideTierCline

\* Type correctness of the table and of every decision.
THEOREM TypeCorrect == Spec => []TypeOK
  BY InitIInv, NextIInv, PTL DEF Spec, IInv

\* A [local] task never gets an entry and never leaves the machine.
THEOREM LocalTagRespected == Spec => []LocalTagStaysLocal
  BY InitIInv, NextIInv, PTL DEF Spec, IInv

\* No rescue window is longer than RescueTurns turns.
THEOREM RescueWindowBounded == Spec => []RescueWindow
  BY InitIInv, NextIInv, PTL DEF Spec, IInv

-----------------------------------------------------------------------------
(* Refinement: the table implements EscalationLease *)

\* A lease is never None.
LEMMA LeaseIsNotNone ==
  ASSUME NEW entry \in Entries, NEW used \in Nat
  PROVE  LeaseFor(entry, used) # None
<1>1. LeaseFor(entry, used) \in [since : Nat, limit : Int, used : Nat]
  BY StickyAssumption, MaxTimeAssumption DEF LeaseFor, Entries
<1>2. QED
  BY <1>1, NoneAssumption

\* What a task's lease is before and after a step that leaves the clock alone.
LEMMA LeaseAt ==
  ASSUME NEW t \in Tasks
  PROVE  LeaseOf[t] = IF Swept[t] = None THEN None ELSE LeaseFor(Swept[t], ridden[t])
  BY DEF LeaseOf

\* Sweeping is idempotent while the clock stands still.
LEMMA SweptAgain ==
  ASSUME TypeOK, UNCHANGED now, NEW t \in Tasks, sticky'[t] = Swept[t]
  PROVE  Swept'[t] = Swept[t]
  BY DEF Swept, Expired

\* Without a mark every lease is what it was.
LEMMA NoMarkKeepsLeases ==
  ASSUME TypeOK, NoMark, UNCHANGED now
  PROVE  LeaseOf' = LeaseOf
<1>1. ASSUME NEW t \in Tasks PROVE Swept'[t] = Swept[t] /\ ridden'[t] = ridden[t]
  BY SweptAgain, SweptKeepsOrEvicts DEF NoMark
<1>2. QED
  BY <1>1 DEF LeaseOf

\* A mark is the grant of a new lease.
LEMMA MarkGrants ==
  ASSUME TypeOK, NEW t0 \in Tasks, Unstuck(t0), UNCHANGED now,
         NEW why \in Causes, NEW left \in {Unbounded, RescueTurns},
         (why = "failure") <=> (left = RescueTurns), Mark(t0, why, left),
         NEW tier, ServedOf' = [task |-> t0, tier |-> tier]
  PROVE  Lease!Grant(t0, tier, left)
<1> DEFINE new == [ts |-> now, why |-> why, left |-> left]
<1> USE StickyAssumption, MaxTimeAssumption
<1>1. new \in Entries /\ now \in Nat
  BY DEF Entries, TypeOK
<1>2. Swept'[t0] = new /\ ridden'[t0] = 0
  <2>1. sticky'[t0] = new /\ ridden'[t0] = 0
    BY SweptKeepsOrEvicts DEF Mark, TypeOK
  <2>2. QED
    BY <1>1, <2>1 DEF Swept, Expired
<1>3. LeaseFor(new, 0) = [since |-> now, limit |-> left, used |-> 0]
  BY DEF LeaseFor
<1>4. ASSUME NEW t \in Tasks, t # t0
      PROVE  Swept'[t] = Swept[t] /\ ridden'[t] = ridden[t]
  BY <1>4, SweptAgain, SweptKeepsOrEvicts DEF Mark, TypeOK
<1>5. LeaseOf' = [LeaseOf EXCEPT ![t0] = [since |-> now, limit |-> left, used |-> 0]]
  BY <1>1, <1>2, <1>3, <1>4, NoneAssumption DEF LeaseOf
<1>6. LeaseOf[t0] = None
  BY DEF LeaseOf, Unstuck
<1>7. QED
  BY <1>5, <1>6 DEF Lease!Grant, Lease!Serve

\* A turn on an entry is a ride on its lease.
LEMMA StickyRides ==
  ASSUME IInv, NEW t0 \in Tasks, NEW offline \in BOOLEAN, StickyTurn(t0, offline)
  PROVE  \E tier \in {"claude", "local-long"} : Lease!Ride(t0, tier)
<1> DEFINE entry == sticky[t0]
           tier == IF offline THEN "local-long" ELSE "claude"
<1> USE StickyAssumption, MaxTimeAssumption DEF IInv
<1>1. Swept[t0] = entry /\ entry \in Entries /\ ridden[t0] \in Nat /\ entry # None
  BY SweptKeepsOrEvicts DEF StickyTurn, TypeOK
<1>2. /\ sticky' = [Swept EXCEPT ![t0] = Spend(entry)]
      /\ ridden' = [ridden EXCEPT ![t0] = IF entry.left = Unbounded THEN @ ELSE @ + 1]
      /\ UNCHANGED now
  BY <1>1 DEF StickyTurn
<1>3. Spend(entry) # None => Spend(entry) \in Entries /\ Spend(entry).ts = entry.ts
                             /\ Spend(entry).why = entry.why
  BY <1>1 DEF Spend, Entries
<1>4. Swept'[t0] = Spend(entry)
  <2>1. sticky'[t0] = Spend(entry)
    BY <1>2, SweptKeepsOrEvicts
  <2>2. ~Expired(entry)
    BY <1>1 DEF Swept
  <2>3. QED
    BY <1>2, <1>3, <2>1, <2>2 DEF Swept, Expired
<1>5. ASSUME NEW t \in Tasks, t # t0
      PROVE  Swept'[t] = Swept[t] /\ ridden'[t] = ridden[t]
  BY <1>2, <1>5, SweptAgain, SweptKeepsOrEvicts DEF TypeOK
<1>6. LeaseOf[t0] = LeaseFor(entry, ridden[t0]) /\ LeaseOf[t0] # None
  BY <1>1, LeaseIsNotNone DEF LeaseOf
<1>7. LeaseOf'[t0] = Lease!AfterRide(LeaseOf[t0])
  <2>1. LeaseOf'[t0] = IF Spend(entry) = None THEN None
                       ELSE LeaseFor(Spend(entry), ridden'[t0])
    BY <1>4 DEF LeaseOf
  <2>2. CASE entry.why = "failure"
    <3>1. entry.left = RescueTurns - ridden[t0] /\ ridden[t0] < RescueTurns
      BY <1>1, <2>2 DEF RescueWindow
    <3>2. ridden'[t0] = ridden[t0] + 1 /\ entry.left # Unbounded
      BY <1>1, <1>2, <3>1 DEF TypeOK
    <3>3. LeaseOf[t0] = [since |-> entry.ts, limit |-> RescueTurns, used |-> ridden[t0]]
      BY <1>6, <2>2 DEF LeaseFor
    <3>4. CASE ridden[t0] + 1 = RescueTurns
      <4>1. Spend(entry) = None
        BY <1>1, <3>1, <3>2, <3>4 DEF Spend
      <4>2. Lease!AfterRide(LeaseOf[t0]) = None
        BY <3>3, <3>4 DEF Lease!AfterRide, Lease!Unlimited
      <4>3. QED
        BY <2>1, <4>1, <4>2
    <3>5. CASE ridden[t0] + 1 # RescueTurns
      <4>1. Spend(entry) = [entry EXCEPT !.left = @ - 1] /\ Spend(entry) # None
        BY <1>1, <3>1, <3>2, <3>5, NoneAssumption DEF Spend, Entries
      <4>2. LeaseFor(Spend(entry), ridden'[t0])
              = [since |-> entry.ts, limit |-> RescueTurns, used |-> ridden[t0] + 1]
        BY <1>3, <2>2, <3>2, <4>1 DEF LeaseFor
      <4>3. Lease!AfterRide(LeaseOf[t0])
              = [since |-> entry.ts, limit |-> RescueTurns, used |-> ridden[t0] + 1]
        BY <3>3, <3>5, <1>1 DEF Lease!AfterRide, Lease!Unlimited
      <4>4. QED
        BY <2>1, <4>1, <4>2, <4>3
    <3>6. QED
      BY <3>4, <3>5
  <2>3. CASE entry.why # "failure"
    <3>1. Spend(entry) = entry
      BY <1>1, <2>3 DEF OnlyFailuresCount, Spend
    <3>2. LeaseFor(entry, ridden'[t0]) = LeaseOf[t0]
      BY <1>6, <2>3 DEF LeaseFor
    <3>3. Lease!AfterRide(LeaseOf[t0]) = LeaseOf[t0]
      BY <1>6, <2>3 DEF LeaseFor, Lease!AfterRide, Lease!Unlimited
    <3>4. QED
      BY <1>1, <2>1, <3>1, <3>2, <3>3
  <2>4. QED
    BY <2>2, <2>3
<1>8. LeaseOf' = [LeaseOf EXCEPT ![t0] = Lease!AfterRide(@)]
  BY <1>5, <1>7 DEF LeaseOf
<1>9. ServedOf' = [task |-> t0, tier |-> tier]
  <2>1. route' = [task |-> t0, model |-> IF offline THEN Fallback ELSE "claude-code",
                  by |-> "sticky", offline |-> offline]
    BY DEF StickyTurn, Return
  <2>2. route' # None
    BY <2>1, NoneAssumption DEF Routes, Models
  <2>3. QED
    BY <2>1, <2>2 DEF ServedOf, TierOf
<1>10. QED
  BY <1>2, <1>6, <1>8, <1>9 DEF Lease!Ride, Lease!Serve

\* What a decision shows of the served tier.
LEMMA ReturnServes ==
  ASSUME NEW t \in Tasks, NEW model \in Models, NEW offline \in BOOLEAN,
         NEW by \in Causes \cup {"sticky", "local-tag", "default"},
         Return(t, model, by, offline)
  PROVE  ServedOf' = [task |-> t, tier |-> TierOf(model)]
<1>1. route' \in Routes
  BY DEF Return, Routes
<1>2. QED
  BY <1>1, NoneAssumption DEF Return, ServedOf, TierOf

\* A turn without mark that stays on local-long is a local turn of the lease.
LEMMA NoMarkStaysLocal ==
  ASSUME TypeOK, NEW t0 \in Tasks, Unstuck(t0), NoMark, UNCHANGED now,
         NEW offline \in BOOLEAN,
         NEW by \in Causes \cup {"sticky", "local-tag", "default"},
         Return(t0, "local-long", by, offline)
  PROVE  Lease!StayLocal(t0)
<1>1. LeaseOf' = LeaseOf
  BY NoMarkKeepsLeases
<1>2. LeaseOf[t0] = None
  BY DEF LeaseOf, Unstuck
<1>3. ServedOf' = [task |-> t0, tier |-> "local-long"]
  BY ReturnServes DEF Models, TierOf
<1>4. QED
  BY <1>1, <1>2, <1>3 DEF Lease!StayLocal, Lease!Serve

\* A turn that marks is a grant.
LEMMA MarkedTurnGrants ==
  ASSUME TypeOK, NEW t0 \in Tasks, Unstuck(t0), UNCHANGED now,
         NEW why \in Causes, NEW left \in {Unbounded, RescueTurns},
         (why = "failure") <=> (left = RescueTurns), Mark(t0, why, left),
         NEW model \in Models, NEW offline \in BOOLEAN,
         Return(t0, model, why, offline)
  PROVE  \E tier \in {"claude", "local-long"}, limit \in {Unbounded, RescueTurns} :
            Lease!Grant(t0, tier, limit)
<1>1. ServedOf' = [task |-> t0, tier |-> TierOf(model)]
  BY ReturnServes
<1>2. Lease!Grant(t0, TierOf(model), left)
  BY <1>1, MarkGrants
<1>3. QED
  BY <1>2 DEF TierOf

\* The clock: leases that run out while the code looks elsewhere end now.
LEMMA TickPasses ==
  ASSUME TypeOK, Tick
  PROVE  Lease!Pass
<1> USE StickyAssumption, MaxTimeAssumption
<1>1. now' = now + 1 /\ UNCHANGED <<sticky, route, ridden>> /\ now \in Nat
  BY DEF Tick, TypeOK
<1>2. ASSUME NEW t \in Tasks
      PROVE  LeaseOf'[t] = IF LeaseOf[t] # None /\ now' - LeaseOf[t].since > StickyTTL
                           THEN None ELSE LeaseOf[t]
  <2>1. CASE sticky[t] = None
    BY <1>1, <2>1 DEF LeaseOf, Swept
  <2>2. CASE sticky[t] # None
    <3>1. sticky[t] \in Entries /\ sticky[t].ts \in Nat
      BY <2>2 DEF TypeOK, Entries
    <3>2. LeaseFor(sticky[t], ridden[t]) # None
      BY <3>1, LeaseIsNotNone DEF TypeOK
    <3>3. LeaseFor(sticky[t], ridden[t]).since = sticky[t].ts
      BY DEF LeaseFor
    <3>4. Swept[t] = IF now - sticky[t].ts > StickyTTL THEN None ELSE sticky[t]
      BY <2>2 DEF Swept, Expired
    <3>5. Swept'[t] = IF now' - sticky[t].ts > StickyTTL THEN None ELSE sticky[t]
      BY <1>1, <2>2 DEF Swept, Expired
    <3>6. LeaseOf[t] = IF Swept[t] = None THEN None ELSE LeaseFor(Swept[t], ridden[t])
      BY DEF LeaseOf
    <3>7. LeaseOf'[t] = IF Swept'[t] = None THEN None ELSE LeaseFor(Swept'[t], ridden[t])
      BY <1>1 DEF LeaseOf
    <3>8. QED
      BY <1>1, <2>2, <3>1, <3>2, <3>3, <3>4, <3>5, <3>6, <3>7
  <2>3. QED
    BY <2>1, <2>2
<1>3. LeaseOf' = [t \in Tasks |-> LeaseOf'[t]]
  BY DEF LeaseOf
<1>4. QED
  BY <1>1, <1>2, <1>3 DEF Lease!Pass, ServedOf

\* Every step of the table is a step of the lease, or stutters.
LEMMA NextRefines ==
  ASSUME IInv, [Next]_vars
  PROVE  [Lease!Next]_<<now, LeaseOf, ServedOf>>
<1> USE StickyAssumption DEF Models, Lease!Unlimited
<1>0. TypeOK
  BY DEF IInv
<1>a. ASSUME NEW t \in Tasks, Lease!StayLocal(t) PROVE Lease!Next
  BY <1>a DEF Lease!Next
<1>b. ASSUME NEW t \in Tasks,
             \E tier \in {"claude", "local-long"}, limit \in {Unbounded, RescueTurns} :
                Lease!Grant(t, tier, limit)
      PROVE  Lease!Next
  BY <1>b DEF Lease!Next
<1>1. ASSUME NEW t \in Tasks, NEW offline \in BOOLEAN, StickyTurn(t, offline)
      PROVE  Lease!Next
  BY <1>1, StickyRides DEF Lease!Next
<1>2. ASSUME NEW t \in Tasks, NEW offline \in BOOLEAN, LocalTagTurn(t, offline)
      PROVE  Lease!Next
  BY <1>0, <1>2, <1>a, NoMarkStaysLocal DEF LocalTagTurn
<1>3. ASSUME NEW t \in Tasks, NEW offline \in BOOLEAN, OverrideTurn(t, offline)
      PROVE  Lease!Next
  <2>1. CASE offline
    BY <1>0, <1>3, <2>1, <1>a, NoMarkStaysLocal DEF OverrideTurn
  <2>2. CASE ~offline
    BY <1>0, <1>3, <2>2, <1>b, MarkedTurnGrants DEF OverrideTurn
  <2>3. QED
    BY <2>1, <2>2
<1>4. ASSUME NEW t \in Tasks, NEW offline \in BOOLEAN, ComplexTurn(t, offline)
      PROVE  Lease!Next
  <2>1. CASE offline
    BY <1>0, <1>4, <2>1, <1>a, NoMarkStaysLocal DEF ComplexTurn
  <2>2. CASE ~offline
    BY <1>0, <1>4, <2>2, <1>b, MarkedTurnGrants DEF ComplexTurn
  <2>3. QED
    BY <2>1, <2>2
<1>5. ASSUME NEW t \in Tasks, NEW offline \in BOOLEAN,
             NEW turbo \in TurboModels \cup {None}, SaturatedTurn(t, turbo, offline)
      PROVE  Lease!Next
  <2> DEFINE model == IF turbo # None THEN turbo ELSE "claude-code"
  <2>1. model \in Models
    BY <1>5
  <2>2. /\ Unstuck(t) /\ Mark(t, "saturation", Unbounded) /\ UNCHANGED now
        /\ Return(t, model, "saturation", offline)
    BY <1>5 DEF SaturatedTurn, Undecided
  <2>3. Unbounded # RescueTurns
    OBVIOUS
  <2> HIDE DEF model
  <2>4. QED
    BY <1>0, <1>b, <2>1, <2>2, <2>3, MarkedTurnGrants
<1>6. ASSUME NEW t \in Tasks, NEW offline \in BOOLEAN, FailureTurn(t, offline)
      PROVE  Lease!Next
  <2>1. CASE offline
    BY <1>0, <1>6, <2>1, <1>a, NoMarkStaysLocal DEF FailureTurn, Undecided
  <2>2. CASE ~offline
    BY <1>0, <1>6, <2>2, <1>b, MarkedTurnGrants DEF FailureTurn, Undecided
  <2>3. QED
    BY <2>1, <2>2
<1>7. ASSUME NEW t \in Tasks, NEW offline \in BOOLEAN, DefaultTurn(t, offline)
      PROVE  Lease!Next
  BY <1>0, <1>7, <1>a, NoMarkStaysLocal DEF DefaultTurn, Undecided
<1>8. CASE Tick
  BY <1>0, <1>8, TickPasses DEF Lease!Next
<1>9. CASE UNCHANGED vars
  BY <1>9 DEF vars, LeaseOf, Swept, Expired, ServedOf
<1>10. QED
  BY <1>1, <1>2, <1>3, <1>4, <1>5, <1>6, <1>7, <1>8, <1>9 DEF Next, DecideTierCline

\* decide_tier_cline() and its table implement the lease specification: no
\* Claude turn without a lease or its grant, none past StickyTTL, none past
\* RescueTurns.
THEOREM TableImplementsLease == Spec => ImplementsLease
<1>1. Init => Lease!Init
  BY DEF Init, Lease!Init, LeaseOf, Swept, ServedOf
<1>2. IInv /\ [Next]_vars => [Lease!Next]_<<now, LeaseOf, ServedOf>>
  BY NextRefines
<1>3. QED
  BY <1>1, <1>2, InitIInv, NextIInv, PTL DEF Spec, ImplementsLease, Lease!Spec
=============================================================================
