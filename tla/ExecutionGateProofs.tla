------------------------ MODULE ExecutionGateProofs -------------------------
(***************************************************************************)
(* Proofs about ExecutionGate.  Day one and the start take effect after    *)
(* the state they were decided on may have moved.  The invariant therefore *)
(* says what of a decision remains true until its effect: the events it    *)
(* saw are still there and name its day, and behind a start the plan it    *)
(* saw is still the locked one.                                            *)
(***************************************************************************)
EXTENDS ExecutionGate, FiniteSetTheorems, TLAPS

(* What an open transaction may still rely on.                             *)
DecisionsHold ==
  \A c \in Openers : tx[c] # Null =>
    /\ tx[c].anchors \subseteq anchors
    /\ \A e \in tx[c].anchors : e.day = tx[c].day
    /\ tx[c].kind = "START" =>
         /\ tx[c].project.status = "PLANNED"
         /\ tx[c].day = tx[c].project.startDate
         /\ tx[c].anchors # {}
         /\ Locked(plan)
         /\ \A r \in plan.rows : r.from >= tx[c].day

IInv ==
  /\ TypeOK
  /\ OneDayOne
  /\ StartedBehindEveryGate
  /\ WorkIsMeasuredAgainstASealedPlan
  /\ GovernedSinceDayOne
  /\ DecisionsHold

----------------------------------------------------------------------------
(* Day one.                                                                *)

(* Day one is proven exactly when there are events and all name it.        *)
LEMMA ProvenDay ==
  ASSUME NEW day, NEW events
  PROVE  /\ AnchorState(day, events) = "PROVEN" <=>
              events # {} /\ \A e \in events : e.day = day
         /\ AnchorState(day, events) = "NOT_PROVEN" <=> events = {}
         /\ AnchorState(day, events) # "INVALID_PROVENANCE" <=>
              \A e \in events : e.day = day
  BY DEF AnchorState

----------------------------------------------------------------------------
(* Types.                                                                  *)

(* A project, plan and trail that nobody has touched are well formed.      *)
LEMMA TypeInit == Init => TypeOK
  BY DEF Init, TypeOK, Plan, Actual, NoPlan, NothingDone, Project

(* Loading, saving and locking a plan keep the state well formed.          *)
LEMMA PlanningTyped ==
  ASSUME TypeOK, NEW c \in Planners, Planning(c)
  PROVE  TypeOK'
  <1>1. CASE Load(c)
    BY <1>1 DEF Load, TypeOK, Plan
  <1>2. ASSUME NEW rows \in Drafts, SaveDraft(c, rows)
        PROVE  TypeOK'
    <2>1. plan' \in Plan /\ plan'.status = "DRAFT" /\ plan'.lockedFrom = Null
      BY <1>2 DEF SaveDraft, TypeOK, Plan
    <2> QED  BY <1>2, <2>1 DEF SaveDraft, TypeOK, Plan
  <1>3. CASE LockPlan(c)
    <2>1. plan' \in Plan /\ plan'.status = "LOCKED" /\ plan'.lockedFrom = project.status
      BY <1>3 DEF LockPlan, Sealed, TypeOK, Plan, Project
    <2>2. project.status # Null
      BY NullAssumption DEF TypeOK, Project
    <2> QED  BY <1>3, <2>1, <2>2 DEF LockPlan, TypeOK
  <1> QED  BY <1>1, <1>2, <1>3 DEF Planning

(* Fixing day one and starting keep the state well formed.                 *)
LEMMA OpeningTyped ==
  ASSUME TypeOK, NEW c \in Openers, Opening(c)
  PROVE  TypeOK'
  <1>1. ASSUME NEW command \in Commands, NEW day \in Days, BeginAnchor(c, command, day)
        PROVE  TypeOK'
    BY <1>1 DEF BeginAnchor, OpenTransaction, Transaction, TypeOK
  <1>2. CASE Activate(c)
    <2>1. tx[c] \in Transaction
      BY <1>2 DEF Activate, TypeOK
    <2>2. project' \in Project
      BY <1>2, <2>1 DEF Activate, Transaction, Project, TypeOK
    <2>3. anchors' \subseteq AnchorEvent
      BY <1>2, <2>1 DEF Activate, Transaction, AnchorEvent, TypeOK
    <2> QED  BY <1>2, <2>2, <2>3 DEF Activate, TypeOK
  <1>3. ASSUME NEW command \in Commands, BeginStart(c, command)
        PROVE  TypeOK'
    <2>1. project.startDate \in Days
      BY <1>3, ProvenDay DEF BeginStart, AnchorEvent, TypeOK
    <2> QED
      BY <1>3, <2>1 DEF BeginStart, OpenTransaction, Transaction, TypeOK
  <1>4. ASSUME NEW today \in Days, Start(c, today)
        PROVE  TypeOK'
    <2>1. tx[c] \in Transaction
      BY <1>4 DEF Start, TypeOK
    <2>2. project' \in Project
      BY <1>4 DEF Start, Project, TypeOK
    <2>3. starts' \subseteq StartEvent
      BY <1>4, <2>1 DEF Start, Transaction, StartEvent, TypeOK
    <2> QED  BY <1>4, <2>2, <2>3 DEF Start, TypeOK
  <1>5. CASE GiveUp(c)
    BY <1>5 DEF GiveUp, TypeOK
  <1> QED  BY <1>1, <1>2, <1>3, <1>4, <1>5 DEF Opening

(* Reporting and verifying actuals keep the state well formed.             *)
LEMMA WorkingTyped ==
  ASSUME TypeOK, NEW i \in Items, Working(i)
  PROVE  TypeOK'
  <1>1. actual' \in [Items -> Actual]
    BY DEF Working, Submit, Verify, Correct, Attest, Actual, TypeOK
  <1>2. UNCHANGED <<project, anchors, plan, starts, loaded, tx>>
    BY DEF Working, Submit, Verify, Correct, Attest
  <1> QED  BY <1>1, <1>2 DEF TypeOK

(* Every step keeps the state well formed.                                 *)
LEMMA TypeStep == TypeOK /\ [Next]_vars => TypeOK'
  <1> SUFFICES ASSUME TypeOK, [Next]_vars
               PROVE  TypeOK'
    OBVIOUS
  <1>1. CASE UNCHANGED vars
    BY <1>1 DEF vars, TypeOK
  <1> QED  BY <1>1, PlanningTyped, OpeningTyped, WorkingTyped DEF Next

(* Every reachable state is well formed, and the lock of a plan is whole.  *)
THEOREM TypeCorrect == Spec => []TypeOK
  BY TypeInit, TypeStep, PTL DEF Spec

----------------------------------------------------------------------------
(* The parts of the invariant, one kind of step at a time.                 *)

(* The invariant holds before anything was planned.                        *)
LEMMA InvInit == Init => IInv
  BY TypeInit, ProvenDay
  DEF Init, IInv, OneDayOne, StartedBehindEveryGate, NothingDone,
      WorkIsMeasuredAgainstASealedPlan, GovernedSinceDayOne, DecisionsHold

(* A planning step leaves a locked plan alone.                             *)
LEMMA LockedStays ==
  ASSUME NEW c \in Planners, Planning(c)
  PROVE  /\ Locked(plan) => plan' = plan
         /\ UNCHANGED <<project, anchors, starts, actual, tx>>
  BY DEF Planning, Load, SaveDraft, LockPlan, Locked

(* Saving and locking a plan disturb no decision taken on a snapshot.      *)
LEMMA PlanningKept ==
  ASSUME IInv, NEW c \in Planners, Planning(c)
  PROVE  IInv'
  <1>1. TypeOK'
    BY PlanningTyped DEF IInv
  <1>2. OneDayOne'
    BY LockedStays DEF IInv, OneDayOne
  <1>3. StartedBehindEveryGate' /\ GovernedSinceDayOne'
    BY LockedStays DEF IInv, StartedBehindEveryGate, GovernedSinceDayOne
  <1>4. WorkIsMeasuredAgainstASealedPlan'
    BY LockedStays DEF IInv, WorkIsMeasuredAgainstASealedPlan
  <1>5. DecisionsHold'
    BY LockedStays DEF IInv, DecisionsHold
  <1> QED  BY <1>1, <1>2, <1>3, <1>4, <1>5 DEF IInv

(* Actuals that are reported and verified disturb no decision.             *)
LEMMA WorkingKept ==
  ASSUME IInv, NEW i \in Items, Working(i)
  PROVE  IInv'
  <1>1. TypeOK'
    BY WorkingTyped DEF IInv
  <1>2. UNCHANGED <<project, anchors, plan, starts, loaded, tx>>
    BY DEF Working, Submit, Verify, Correct, Attest
  <1>3. OneDayOne' /\ StartedBehindEveryGate' /\ DecisionsHold'
    BY <1>2 DEF IInv, OneDayOne, StartedBehindEveryGate, DecisionsHold
  <1>4. WorkIsMeasuredAgainstASealedPlan'
    <2>1. project.status = "ACTIVE" /\ Locked(plan)
      BY DEF IInv, TypeOK, Actual, NothingDone, Working, Submit, Verify, Correct,
             Attest, ExecutionOpen, WorkIsMeasuredAgainstASealedPlan
    <2> QED  BY <1>2, <2>1 DEF WorkIsMeasuredAgainstASealedPlan
  <1>5. GovernedSinceDayOne'
    <2> SUFFICES ASSUME starts # {}, NEW j \in Items, actual'[j].stage = "GOVERNED"
                 PROVE  actual'[j].day >= project.startDate
      BY <1>2 DEF GovernedSinceDayOne
    <2>1. AnchorState(project.startDate, anchors) = "PROVEN"
      BY DEF IInv, StartedBehindEveryGate
    <2>2. CASE Attest(i) /\ j = i
      BY <2>1, <2>2 DEF Attest, WorkedSinceDayOne, IInv, TypeOK, Actual
    <2>3. CASE ~(Attest(i) /\ j = i)
      <3>1. actual'[j] = actual[j]
        BY <2>3 DEF IInv, TypeOK, Actual, Working, Submit, Verify, Correct, Attest
      <3> QED  BY <3>1 DEF IInv, GovernedSinceDayOne
    <2> QED  BY <2>2, <2>3
  <1> QED  BY <1>1, <1>3, <1>4, <1>5 DEF IInv

(* While day one is proven, another activation can only repeat it.         *)
LEMMA ActivatedDay ==
  ASSUME IInv, NEW c \in Openers, Activate(c)
  PROVE  /\ tx[c] \in Transaction
         /\ \A e \in anchors' : e.day = project'.startDate
         /\ anchors' # {}
         /\ project'.status = project.status
         /\ anchors # {} => project'.startDate = project.startDate
         /\ project'.startDate = tx[c].day
  <1>1. tx[c] \in Transaction /\ project \in Project
    BY DEF IInv, TypeOK, Activate
  <1>2. project'.startDate = tx[c].day /\ project'.status = project.status
    BY <1>1 DEF Activate, Project
  <1>3. \A e \in anchors : e.day = tx[c].day
    BY DEF IInv, DecisionsHold, Activate, NoRivalEvent
  <1>4. \A e \in anchors : e.day = project.startDate
    BY ProvenDay DEF IInv, OneDayOne
  <1>5. \A e \in anchors' : e.day = tx[c].day
    BY <1>3 DEF Activate
  <1> QED  BY <1>1, <1>2, <1>3, <1>4, <1>5 DEF Activate

(* Fixing day one keeps the invariant: who decided before has the row      *)
(* refused.                                                                *)
LEMMA ActivateKept ==
  ASSUME IInv, NEW c \in Openers, Activate(c)
  PROVE  IInv'
  <1>1. TypeOK'
    BY OpeningTyped DEF IInv, Opening
  <1>2. OneDayOne'
    BY ActivatedDay, ProvenDay DEF OneDayOne
  <1>3. starts # {} => anchors # {} /\ project'.startDate = project.startDate
    BY ActivatedDay, ProvenDay DEF IInv, StartedBehindEveryGate
  <1>4. AnchorState(project'.startDate, anchors') = "PROVEN"
    BY ActivatedDay, ProvenDay
  <1>5. StartedBehindEveryGate' /\ GovernedSinceDayOne'
    BY <1>3, <1>4, ActivatedDay
    DEF IInv, StartedBehindEveryGate, GovernedSinceDayOne, Activate
  <1>6. WorkIsMeasuredAgainstASealedPlan'
    BY ActivatedDay DEF IInv, WorkIsMeasuredAgainstASealedPlan, Activate
  <1>7. DecisionsHold'
    BY DEF IInv, DecisionsHold, Activate, TypeOK
  <1> QED  BY <1>1, <1>2, <1>5, <1>6, <1>7 DEF IInv

(* A start takes effect on the state it was decided on.                    *)
LEMMA StartedState ==
  ASSUME IInv, NEW c \in Openers, NEW today \in Days, Start(c, today)
  PROVE  /\ starts = {}
         /\ project.status = "PLANNED"
         /\ project'.status = "ACTIVE"
         /\ project'.startDate = project.startDate
         /\ tx[c].day = project.startDate
         /\ AnchorState(project.startDate, anchors) = "PROVEN"
         /\ Locked(plan) /\ \A r \in plan.rows : r.from >= project.startDate
         /\ \A i \in Items : actual[i] = NothingDone
  <1>1. project = tx[c].project /\ tx[c] # Null /\ tx[c].kind = "START"
    BY DEF Start, RowLockGranted
  <1>2. project.status = "PLANNED" /\ tx[c].day = project.startDate /\ Locked(plan)
    BY <1>1 DEF IInv, DecisionsHold
  <1>3. anchors # {} /\ \A r \in plan.rows : r.from >= project.startDate
    BY <1>1, <1>2 DEF IInv, DecisionsHold
  <1>4. project'.status = "ACTIVE" /\ project'.startDate = project.startDate
    BY DEF Start, IInv, TypeOK, Project
  <1>5. starts = {}
    BY <1>2 DEF IInv, StartedBehindEveryGate
  <1>6. \A i \in Items : actual[i] = NothingDone
    BY <1>2 DEF IInv, WorkIsMeasuredAgainstASealedPlan
  <1>7. AnchorState(project.startDate, anchors) = "PROVEN"
    BY <1>3, ProvenDay DEF IInv, OneDayOne
  <1> QED  BY <1>2, <1>3, <1>4, <1>5, <1>6, <1>7

(* A start keeps the invariant, and leaves the project measured against a  *)
(* sealed plan.                                                            *)
LEMMA StartKept ==
  ASSUME IInv, NEW c \in Openers, NEW today \in Days, Start(c, today)
  PROVE  IInv'
  <1> DEFINE event == [command |-> tx[c].command, by |-> c,
                       dayOne |-> tx[c].day, today |-> today]
  <1>1. TypeOK'
    BY OpeningTyped DEF IInv, Opening
  <1>2. OneDayOne'
    BY StartedState, ProvenDay DEF IInv, OneDayOne, Start
  <1>3. starts' = {event} /\ Cardinality(starts') = 1
    <2>1. starts' = {event}
      BY StartedState DEF Start
    <2> HIDE DEF event
    <2> QED  BY <2>1, FS_Singleton
  <1>4. event.dayOne = project.startDate /\ event.today >= event.dayOne
    BY StartedState DEF Start
  <1>5. UNCHANGED <<anchors, plan, actual, loaded>>
    BY DEF Start
  <1>6. StartedBehindEveryGate'
    BY <1>3, <1>4, <1>5, StartedState DEF StartedBehindEveryGate, Locked
  <1>7. WorkIsMeasuredAgainstASealedPlan' /\ GovernedSinceDayOne'
    BY <1>5, StartedState
    DEF WorkIsMeasuredAgainstASealedPlan, GovernedSinceDayOne, NothingDone
  <1>8. DecisionsHold'
    BY <1>5 DEF IInv, DecisionsHold, Start, TypeOK, Locked
  <1> QED  BY <1>1, <1>2, <1>6, <1>7, <1>8 DEF IInv

(* Opening a transaction, or giving one up, changes nothing else.          *)
LEMMA DecidedKept ==
  ASSUME IInv, UNCHANGED <<project, anchors, plan, starts, actual, loaded>>,
         TypeOK', DecisionsHold'
  PROVE  IInv'
  BY DEF IInv, OneDayOne, StartedBehindEveryGate, GovernedSinceDayOne,
         WorkIsMeasuredAgainstASealedPlan

(* Every statement of an opener keeps the invariant.                       *)
LEMMA OpeningKept ==
  ASSUME IInv, NEW c \in Openers, Opening(c)
  PROVE  IInv'
  <1>1. TypeOK'
    BY OpeningTyped DEF IInv
  <1>2. ASSUME NEW command \in Commands, NEW day \in Days, BeginAnchor(c, command, day)
        PROVE  DecisionsHold'
    <2>1. \A e \in anchors : e.day = day
      BY <1>2, ProvenDay DEF BeginAnchor
    <2> QED  BY <1>2, <2>1 DEF BeginAnchor, OpenTransaction, IInv, TypeOK, DecisionsHold
  <1>3. ASSUME NEW command \in Commands, BeginStart(c, command)
        PROVE  DecisionsHold'
    <2>1. anchors # {} /\ \A e \in anchors : e.day = project.startDate
      BY <1>3, ProvenDay DEF BeginStart
    <2>2. project.status = "PLANNED" /\ Locked(plan)
      BY <1>3 DEF BeginStart, NotYetStarted
    <2>3. \A r \in plan.rows : r.from >= project.startDate
      BY <1>3 DEF BeginStart, BeginsSince
    <2> QED
      BY <1>3, <2>1, <2>2, <2>3
      DEF BeginStart, OpenTransaction, IInv, TypeOK, DecisionsHold
  <1>4. CASE GiveUp(c)
    BY <1>1, <1>4, DecidedKept DEF GiveUp, IInv, TypeOK, DecisionsHold
  <1> QED
    BY <1>1, <1>2, <1>3, <1>4, DecidedKept, ActivateKept, StartKept
    DEF Opening, BeginAnchor, BeginStart

(* Every step keeps the invariant.                                         *)
LEMMA InvStep == IInv /\ [Next]_vars => IInv'
  <1> SUFFICES ASSUME IInv, [Next]_vars
               PROVE  IInv'
    OBVIOUS
  <1>1. CASE UNCHANGED vars
    BY <1>1 DEF vars, IInv, TypeOK, OneDayOne, StartedBehindEveryGate,
                WorkIsMeasuredAgainstASealedPlan, GovernedSinceDayOne, DecisionsHold
  <1> QED  BY <1>1, PlanningKept, OpeningKept, WorkingKept DEF Next

(* The invariant holds in every reachable state.                           *)
LEMMA Invariance == Spec => []IInv
  BY InvInit, InvStep, PTL DEF Spec

(* However the activations race, the events of day one agree with the      *)
(* start date.                                                             *)
THEOREM DayOneAgrees == Spec => []OneDayOne
  BY Invariance, PTL DEF IInv

(* An official start stays behind every gate it passed.                    *)
THEOREM StartGated == Spec => []StartedBehindEveryGate
  BY Invariance, PTL DEF IInv

(* Actuals exist only in execution and against a plan that cannot change.  *)
THEOREM WorkMeasured == Spec => []WorkIsMeasuredAgainstASealedPlan
  BY Invariance, PTL DEF IInv

(* No governed quantity of a started project dates from before day one.    *)
THEOREM WorkGoverned == Spec => []GovernedSinceDayOne
  BY Invariance, PTL DEF IInv

(* A revision names one content of the draft: what a client holds of the   *)
(* current revision are the current intervals.                             *)
RevisionNamesRows ==
  /\ plan.revision = 0 => plan.rows = {} /\ plan.status = "NONE"
  /\ \A c \in Planners : loaded[c] # Null =>
       /\ loaded[c].revision <= plan.revision
       /\ loaded[c].revision = plan.revision => loaded[c].rows = plan.rows

(* Before the first load no revision names anything.                       *)
LEMMA RevisionInit == Init => RevisionNamesRows
  BY DEF Init, RevisionNamesRows, NoPlan

(* A revision keeps naming the same rows: every save raises it.            *)
LEMMA RevisionStep == TypeOK /\ RevisionNamesRows /\ [Next]_vars => RevisionNamesRows'
  <1> SUFFICES ASSUME TypeOK, RevisionNamesRows, [Next]_vars
               PROVE  RevisionNamesRows'
    OBVIOUS
  <1>1. plan.revision \in Nat
    BY DEF TypeOK, Plan
  <1>2. ASSUME NEW c \in Planners, Load(c)
        PROVE  RevisionNamesRows'
    <2>1. plan' = plan
      BY <1>2 DEF Load
    <2>2. ASSUME NEW d \in Planners, loaded'[d] # Null
          PROVE  /\ loaded'[d].revision <= plan.revision
                 /\ loaded'[d].revision = plan.revision => loaded'[d].rows = plan.rows
      <3>1. CASE d = c
        BY <1>1, <1>2, <3>1 DEF Load, TypeOK
      <3>2. CASE d # c
        BY <1>2, <2>2, <3>2 DEF Load, TypeOK, RevisionNamesRows
      <3> QED  BY <3>1, <3>2
    <2> QED  BY <2>1, <2>2 DEF RevisionNamesRows
  <1>3. ASSUME NEW c \in Planners, NEW rows \in Drafts, SaveDraft(c, rows)
        PROVE  RevisionNamesRows'
    <2>1. plan'.revision = plan.revision + 1 /\ loaded' = loaded
      BY <1>3 DEF SaveDraft
    <2>2. \A d \in Planners : loaded[d] # Null => loaded[d].revision \in Nat
      BY DEF TypeOK
    <2> QED  BY <1>1, <2>1, <2>2 DEF RevisionNamesRows
  <1>4. ASSUME NEW c \in Planners, LockPlan(c)
        PROVE  RevisionNamesRows'
    <2>1. plan'.revision = plan.revision /\ plan'.rows = plan.rows /\ loaded' = loaded
      BY <1>4 DEF LockPlan, Sealed, TypeOK, Plan
    <2>2. plan.revision # 0
      BY <1>4 DEF LockPlan, RevisionNamesRows
    <2> QED  BY <2>1, <2>2 DEF RevisionNamesRows
  <1>5. CASE UNCHANGED <<plan, loaded>>
    BY <1>5 DEF RevisionNamesRows
  <1>6. UNCHANGED <<plan, loaded>> \/ \E c \in Planners : Planning(c)
    BY DEF Next, vars, Opening, Working, BeginAnchor, BeginStart, Activate, Start,
           GiveUp, Submit, Verify, Correct, Attest
  <1> QED  BY <1>2, <1>3, <1>4, <1>5, <1>6 DEF Planning

(* Every save and every lock is by a client that had loaded the intervals  *)
(* it replaces or seals (saveDraft and lock of execution-plan.service.ts). *)
THEOREM NoEditLost == Spec => EditsWhatWasSeen
  <1>1. ASSUME TypeOK, RevisionNamesRows, [Next]_vars, plan' # plan
        PROVE  loaded[plan'.by] # Null /\ loaded[plan'.by].rows = plan.rows
    <2>1. PICK c \in Planners : Planning(c)
      BY <1>1 DEF Next, vars, Opening, Working, BeginAnchor, BeginStart, Activate,
                  Start, GiveUp, Submit, Verify, Correct, Attest
    <2>2. loaded[c] # Null /\ loaded[c].revision = plan.revision
      BY <1>1, <2>1 DEF Planning, Load, SaveDraft, LockPlan, AsLoaded
    <2>3. plan'.by = c
      <3>1. CASE LockPlan(c)
        BY <1>1, <3>1 DEF LockPlan, Sealed, TypeOK, Plan
      <3>2. ASSUME NEW rows \in Drafts, SaveDraft(c, rows)
            PROVE  plan'.by = c
        BY <3>2 DEF SaveDraft
      <3> QED  BY <1>1, <2>1, <3>1, <3>2 DEF Planning, Load
    <2> QED  BY <1>1, <2>2, <2>3 DEF RevisionNamesRows
  <1> QED
    BY <1>1, TypeInit, TypeStep, RevisionInit, RevisionStep, PTL
    DEF Spec, EditsWhatWasSeen

----------------------------------------------------------------------------
(* The gate implements the abstract start.                                 *)

(* The gate begins where the abstract start begins.                        *)
LEMMA OfficialInit == Init => Official!Init
  BY ProvenDay DEF Init, Official!Init, NoPlan, Locked

(* A planning step seals the plan, or the abstract start does not see it.  *)
LEMMA OfficialPlanning ==
  ASSUME IInv, NEW c \in Planners, Planning(c)
  PROVE  Official!Seal \/ UNCHANGED Official!vars
  <1>1. CASE LockPlan(c)
    <2>1. ~Locked(plan) /\ Locked(plan')
      BY <1>1 DEF LockPlan, Locked, Sealed, IInv, TypeOK, Plan
    <2>2. plan'.rows # Null
      BY PlanningTyped, NullAssumption DEF IInv, TypeOK, Plan
    <2> QED  BY <2>1, <2>2, LockedStays DEF Official!Seal
  <1>2. CASE ~LockPlan(c)
    <2>1. Locked(plan) <=> Locked(plan')
      BY <1>2 DEF Planning, Load, SaveDraft, Locked
    <2> QED  BY <2>1, LockedStays DEF Official!vars
  <1> QED  BY <1>1, <1>2

(* Committing day one is the abstract fixing of day one, or nothing new.   *)
LEMMA OfficialActivate ==
  ASSUME IInv, NEW c \in Openers, Activate(c)
  PROVE  Official!FixDayOne \/ UNCHANGED Official!vars
  <1>1. AnchorState(project'.startDate, anchors') = "PROVEN"
    BY ActivatedDay, ProvenDay
  <1>2. UNCHANGED <<plan, starts>>
    BY DEF Activate
  <1>3. CASE anchors = {}
    <2>1. AnchorState(project.startDate, anchors) # "PROVEN"
      BY <1>3, ProvenDay
    <2>2. project'.startDate \in Days
      BY ActivatedDay DEF Transaction
    <2> QED  BY <1>1, <1>2, <2>1, <2>2 DEF Official!FixDayOne
  <1>4. CASE anchors # {}
    <2>1. AnchorState(project.startDate, anchors) = "PROVEN"
      BY <1>4, ProvenDay DEF IInv, OneDayOne
    <2>2. project'.startDate = project.startDate
      BY <1>4, ActivatedDay
    <2> QED  BY <1>1, <1>2, <2>1, <2>2 DEF Official!vars
  <1> QED  BY <1>3, <1>4

(* Committing a start is the abstract start.                               *)
LEMMA OfficialStarted ==
  ASSUME IInv, NEW c \in Openers, NEW today \in Days, Start(c, today)
  PROVE  Official!Begin
  <1>1. UNCHANGED <<anchors, plan>> /\ starts' # {}
    BY DEF Start
  <1>2. project.startDate \in Days
    BY StartedState DEF IInv, TypeOK, Start, Transaction
  <1>3. project.startDate # Null /\ plan.rows # Null
    BY <1>2, NullAssumption DEF IInv, TypeOK, Plan
  <1>4. AnchorState(project'.startDate, anchors') = "PROVEN"
    BY <1>1, StartedState
  <1> QED  BY <1>1, <1>3, <1>4, StartedState DEF Official!Begin, Locked

(* Every step of the gate is a step of the abstract start or none.         *)
LEMMA OfficialStep == IInv /\ [Next]_vars => [Official!Next]_(Official!vars)
  <1> SUFFICES ASSUME IInv, [Next]_vars
               PROVE  Official!Next \/ UNCHANGED Official!vars
    OBVIOUS
  <1>1. CASE UNCHANGED <<project, anchors, plan, starts>>
    BY <1>1 DEF Official!vars
  <1>2. \/ UNCHANGED <<project, anchors, plan, starts>>
        \/ \E c \in Planners : Planning(c)
        \/ \E c \in Openers : Activate(c)
        \/ \E c \in Openers : \E today \in Days : Start(c, today)
    BY DEF Next, vars, Opening, Working, BeginAnchor, BeginStart, GiveUp,
           Submit, Verify, Correct, Attest
  <1> QED
    BY <1>1, <1>2, OfficialPlanning, OfficialActivate, OfficialStarted
    DEF Official!Next

(* Day one, the sealed plan and the start are each fixed once, the start   *)
(* last and only over a plan that begins on day one or later.              *)
THEOREM Refinement == Spec => ImplementsOfficialStart
  BY InvInit, InvStep, OfficialInit, OfficialStep, PTL
  DEF Spec, ImplementsOfficialStart, Official!Spec

=============================================================================
