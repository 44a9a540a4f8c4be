---------------------------- MODULE ExecutionGate ----------------------------
(***************************************************************************)
(* The gate between an approved budget and its execution, for one project  *)
(* with its one active baseline: the draft of the execution plan and its   *)
(* lock (execution-plan.service.ts), the governed first day of work and    *)
(* the start of execution (project.service.ts), and the three doors at     *)
(* which actual progress meets them (progress.service.ts).                 *)
(*                                                                         *)
(* Every handler here but Verify and Correct begins by locking the project *)
(* row.  Saving and locking the plan, submitting and attesting run under   *)
(* READ COMMITTED: what they read after the lock is current, so each is    *)
(* one step.  Activating day one and starting run under SERIALIZABLE:      *)
(* their snapshot is taken when the locking statement is issued, before it *)
(* is granted.  All they ask of the state is asked of the snapshot, so     *)
(* each is a Begin step, which decides, and a later step that takes the    *)
(* effect.  PostgreSQL refuses the lock if the project row was updated in  *)
(* between, but not if it was merely locked, and it detects read-write     *)
(* conflicts among SERIALIZABLE transactions only.                         *)
(*                                                                         *)
(* A work item has at most one lineage of actuals; several of them, their  *)
(* corrections and the separation of duties are ProgressEntries.  Authors  *)
(* hold the positions their act asks for.  A refused or repeated command   *)
(* changes nothing and appears only as GiveUp.  The business date is that  *)
(* of the instant of the start: any day.                                   *)
(*                                                                         *)
(* Operators whose name ends in Bug are a neighbour's mistaken form; no    *)
(* other definition uses them.                                             *)
(***************************************************************************)
EXTENDS Integers, FiniteSets
LOCAL INSTANCE FiniteSetsExt

CONSTANTS
  Planners,     \* clients that edit and lock the plan
  Openers,      \* clients that fix day one and start execution
  Commands,     \* command ids
  Days,         \* business dates, as integers
  Items,        \* work items of the baseline
  Quantity,     \* baseline quantity of each item
  Drafts,       \* what a client may enter as a plan: sets of intervals
  MaxRevision,  \* bound on saves of the draft
  Null

Interval == [item : Items, from : Days, to : Days, quantity : Nat \ {0}]

ASSUME DaysAssumption == Days \subseteq Int
ASSUME PlanAssumption ==
  /\ Quantity \in [Items -> Nat]
  /\ Drafts \subseteq SUBSET Interval
  /\ MaxRevision \in Nat
ASSUME NullAssumption ==
  Null \notin Days /\ Null \notin Drafts \cup {{}} /\ Null \notin {"PLANNED", "ACTIVE"}

VARIABLES
  project,   \* the project row: status and startDate
  anchors,   \* audit events of day one
  plan,      \* the one execution plan version
  starts,    \* audit events of the start of execution
  actual,    \* current actual of each item: its work date and stage
  loaded,    \* plan revision (0: none) and intervals each client last loaded
  tx         \* each client's SERIALIZABLE transaction, or Null

vars == <<project, anchors, plan, starts, actual, loaded, tx>>

----------------------------------------------------------------------------
(* Shape of the state.                                                     *)

Project == [status : {"PLANNED", "ACTIVE"}, startDate : Days \cup {Null}]
AnchorEvent == [command : Commands, by : Openers, day : Days]
StartEvent == [command : Commands, by : Openers, dayOne : Days, today : Days]
Plan == [status : {"NONE", "DRAFT", "LOCKED"}, revision : Nat,
         rows : Drafts \cup {{}}, lockedFrom : {"PLANNED", "ACTIVE", Null},
         by : Planners \cup {Null}]     \* last editor; who locked it, once LOCKED
Actual == [stage : {"NONE", "SUBMITTED", "VERIFIED", "GOVERNED"},
           day : Days \cup {Null}]
Transaction == [kind : {"ANCHOR", "START"}, command : Commands,
                day : Days, project : Project,
                anchors : SUBSET AnchorEvent]

NoPlan == [status |-> "NONE", revision |-> 0, rows |-> {}, lockedFrom |-> Null,
           by |-> Null]
NothingDone == [stage |-> "NONE", day |-> Null]

Init ==
  /\ project \in Project
  /\ anchors = {}
  /\ plan = NoPlan
  /\ starts = {}
  /\ actual = [i \in Items |-> NothingDone]
  /\ loaded = [c \in Planners |-> Null]
  /\ tx = [c \in Openers |-> Null]

----------------------------------------------------------------------------
(* The execution plan.                                                     *)

(* The blockers that refuse a draft already when it is saved.              *)
WellFormed(rows) ==
  /\ \A r \in rows : r.from <= r.to
  /\ \A r, q \in rows :
        r # q /\ r.item = q.item => q.to < r.from \/ r.to < q.from

(* The blockers that only the lock of the plan asks about.                 *)
PlannedFor(rows, i) ==
  MapThenSumSet(LAMBDA r : r.quantity, {r \in rows : r.item = i})
Ready(rows) ==
  /\ WellFormed(rows)
  /\ \E i \in Items : Quantity[i] > 0
  /\ \A i \in Items : PlannedFor(rows, i) = Quantity[i]

Locked(p) == p.status = "LOCKED"

Load(c) ==
  /\ loaded' = [loaded EXCEPT ![c] =
        [revision |-> plan.revision, rows |-> plan.rows]]
  /\ UNCHANGED <<project, anchors, plan, starts, actual, tx>>

AsLoadedAnyBug(c) == loaded[c] # Null
AsLoaded(c) == loaded[c] # Null /\ loaded[c].revision = plan.revision

SaveDraft(c, rows) ==
  /\ ~Locked(plan)
  /\ AsLoaded(c)
  /\ WellFormed(rows)
  /\ plan.revision < MaxRevision
  /\ plan' = [status |-> "DRAFT", revision |-> plan.revision + 1, rows |-> rows,
              lockedFrom |-> Null, by |-> c]
  /\ UNCHANGED <<project, anchors, starts, actual, loaded, tx>>

(* Day one as the audit events prove it.                                   *)
AnchorState(startDate, events) ==
  IF events = {} THEN "NOT_PROVEN"
  ELSE IF \A e \in events : e.day = startDate THEN "PROVEN"
  ELSE "INVALID_PROVENANCE"

(* A planned quantity is credited on the last day of its interval.         *)
CreditedSince(rows, day) == \A r \in rows : r.to >= day

SealedHalfBug(p, c, from) == [p EXCEPT !.status = "LOCKED", !.by = c]
Sealed(p, c, from) == [p EXCEPT !.status = "LOCKED", !.by = c, !.lockedFrom = from]

LockPlan(c) ==
  /\ plan.status = "DRAFT"
  /\ AsLoaded(c)
  /\ Ready(plan.rows)
  /\ AnchorState(project.startDate, anchors) # "INVALID_PROVENANCE"
  /\ AnchorState(project.startDate, anchors) = "PROVEN" =>
        CreditedSince(plan.rows, project.startDate)
  /\ plan' = Sealed(plan, c, project.status)
  /\ UNCHANGED <<project, anchors, starts, actual, loaded, tx>>

----------------------------------------------------------------------------
(* Day one and the start: SERIALIZABLE transactions.                       *)

OpenTransaction(c, kind, command, day) ==
  tx' = [tx EXCEPT ![c] = [kind |-> kind, command |-> command, day |-> day,
                           project |-> project, anchors |-> anchors]]

(* Neither the locked plan nor the governed actuals speak against the day; *)
(* a verified actual nobody attested proves nothing.                       *)
CompatibleDayOne(day) ==
  /\ Locked(plan) => CreditedSince(plan.rows, day)
  /\ \A i \in Items :
        /\ actual[i].stage # "VERIFIED"
        /\ actual[i].stage = "GOVERNED" => actual[i].day >= day

BeginAnchor(c, command, day) ==
  /\ tx[c] = Null
  /\ \A e \in anchors : e.command # command
  /\ LET state == AnchorState(project.startDate, anchors) IN
     \/ state = "PROVEN" /\ day = project.startDate
     \/ state = "NOT_PROVEN" /\ CompatibleDayOne(day)
  /\ OpenTransaction(c, "ANCHOR", command, day)
  /\ UNCHANGED <<project, anchors, plan, starts, actual, loaded>>

(* Starting asks more of the plan than its lock did: every interval begins *)
(* on day one or later.                                                    *)
BeginsSinceCreditBug(rows, day) == CreditedSince(rows, day)
BeginsSince(rows, day) == \A r \in rows : r.from >= day

NotYetStarted == project.status = "PLANNED"

BeginStart(c, command) ==
  /\ tx[c] = Null
  /\ \A e \in starts : e.command # command
  /\ NotYetStarted
  /\ Locked(plan) /\ plan.lockedFrom # Null
  /\ AnchorState(project.startDate, anchors) = "PROVEN"
  /\ BeginsSince(plan.rows, project.startDate)
  /\ OpenTransaction(c, "START", command, project.startDate)
  /\ UNCHANGED <<project, anchors, plan, starts, actual, loaded>>

(* Aborted or cut off.                                                     *)
GiveUp(c) ==
  /\ tx[c] # Null
  /\ tx' = [tx EXCEPT ![c] = Null]
  /\ UNCHANGED <<project, anchors, plan, starts, actual, loaded>>

(* The row lock is granted only if no other transaction updated the        *)
(* project row since the snapshot.                                         *)
RowLockGrantedBug(t) == TRUE
RowLockGranted(t) == project = t.project

(* Two activations read the day-one events and each adds one: the second   *)
(* to commit is aborted.                                                   *)
NoRivalEventBug(t) == TRUE
NoRivalEvent(t) == anchors = t.anchors

Activate(c) ==
  /\ tx[c] # Null /\ tx[c].kind = "ANCHOR"
  /\ RowLockGranted(tx[c])
  /\ NoRivalEvent(tx[c])
  /\ project' = [project EXCEPT !.startDate = tx[c].day]
  /\ anchors' = anchors \cup
        {[command |-> tx[c].command, by |-> c, day |-> tx[c].day]}
  /\ tx' = [tx EXCEPT ![c] = Null]
  /\ UNCHANGED <<plan, starts, actual, loaded>>

Start(c, today) ==
  /\ tx[c] # Null /\ tx[c].kind = "START"
  /\ RowLockGranted(tx[c])
  /\ today >= tx[c].day
  /\ starts' = starts \cup {[command |-> tx[c].command, by |-> c,
                             dayOne |-> tx[c].day, today |-> today]}
  /\ project' = [project EXCEPT !.status = "ACTIVE"]
  /\ tx' = [tx EXCEPT ![c] = Null]
  /\ UNCHANGED <<anchors, plan, actual, loaded>>

----------------------------------------------------------------------------
(* Actual progress.                                                        *)

ExecutionOpenBug == project.status = "ACTIVE"
ExecutionOpen == project.status = "ACTIVE" /\ Locked(plan)

Submit(i, day) ==
  /\ ExecutionOpen
  /\ actual[i] = NothingDone
  /\ actual' = [actual EXCEPT ![i] = [stage |-> "SUBMITTED", day |-> day]]
  /\ UNCHANGED <<project, anchors, plan, starts, loaded, tx>>

Verify(i) ==
  /\ actual[i].stage = "SUBMITTED"
  /\ actual' = [actual EXCEPT ![i].stage = "VERIFIED"]
  /\ UNCHANGED <<project, anchors, plan, starts, loaded, tx>>

Correct(i, day) ==
  /\ actual[i] # NothingDone
  /\ actual' = [actual EXCEPT ![i] = [stage |-> "SUBMITTED", day |-> day]]
  /\ UNCHANGED <<project, anchors, plan, starts, loaded, tx>>

WorkedSinceDayOneBug(day) == TRUE
WorkedSinceDayOne(day) ==
  LET state == AnchorState(project.startDate, anchors) IN
  /\ state # "INVALID_PROVENANCE"
  /\ state = "PROVEN" => day >= project.startDate

(* A human attests that the quantity is a distinct increment: from then on *)
(* it is governed, part of the official quantity.                          *)
Attest(i) ==
  /\ actual[i].stage = "VERIFIED"
  /\ WorkedSinceDayOne(actual[i].day)
  /\ actual' = [actual EXCEPT ![i].stage = "GOVERNED"]
  /\ UNCHANGED <<project, anchors, plan, starts, loaded, tx>>

----------------------------------------------------------------------------
Planning(c) == Load(c) \/ (\E rows \in Drafts : SaveDraft(c, rows)) \/ LockPlan(c)
Opening(c) ==
  \/ \E command \in Commands, day \in Days : BeginAnchor(c, command, day)
  \/ Activate(c)
  \/ \E command \in Commands : BeginStart(c, command)
  \/ \E today \in Days : Start(c, today)
  \/ GiveUp(c)
Working(i) ==
  \/ \E day \in Days : Submit(i, day) \/ Correct(i, day)
  \/ Verify(i) \/ Attest(i)

Next ==
  \/ \E c \in Planners : Planning(c)
  \/ \E c \in Openers : Opening(c)
  \/ \E i \in Items : Working(i)

Spec == Init /\ [][Next]_vars

----------------------------------------------------------------------------
(* Properties.                                                             *)

(* The state keeps its shape, and a plan is LOCKED exactly when its lock   *)
(* provenance is whole (the CHECK constraint of the table).                *)
TypeOK ==
  /\ project \in Project
  /\ anchors \subseteq AnchorEvent
  /\ plan \in Plan
  /\ starts \subseteq StartEvent
  /\ actual \in [Items -> Actual]
  /\ loaded \in [Planners -> {Null} \cup [revision : Nat, rows : Drafts \cup {{}}]]
  /\ tx \in [Openers -> Transaction \cup {Null}]
  /\ plan.status = "LOCKED" <=> plan.lockedFrom # Null

(* However the activations of day one interleave, all the events they      *)
(* leave name the start date of the project: readers never find            *)
(* INVALID_PROVENANCE, which every later handler refuses forever.          *)
OneDayOne == AnchorState(project.startDate, anchors) # "INVALID_PROVENANCE"

(* What was once started by startExecution stays behind every gate it      *)
(* passed, although the start decided by a snapshot: one start, a locked   *)
(* plan no interval of which begins before the day one in force, and a     *)
(* business date not before it.                                            *)
StartedBehindEveryGate ==
  starts # {} =>
    /\ project.status = "ACTIVE"
    /\ Locked(plan)
    /\ Cardinality(starts) = 1
    /\ AnchorState(project.startDate, anchors) = "PROVEN"
    /\ \A r \in plan.rows : r.from >= project.startDate
    /\ \A e \in starts : e.dayOne = project.startDate /\ e.today >= e.dayOne

(* Actual work is recorded only against a project in execution and a plan  *)
(* that can no longer change, in whatever order the plan was locked and    *)
(* the execution of a legacy project began.                                *)
WorkIsMeasuredAgainstASealedPlan ==
  \A i \in Items : actual[i] # NothingDone => project.status = "ACTIVE" /\ Locked(plan)

(* After an official start no governed quantity dates from before day one, *)
(* whenever it was worked, verified, corrected and attested.               *)
GovernedSinceDayOne ==
  starts # {} =>
    \A i \in Items : actual[i].stage = "GOVERNED" => actual[i].day >= project.startDate

(* Whoever replaces the intervals by a save, or seals them by a lock, had  *)
(* loaded exactly those intervals: no client overwrites or seals an edit   *)
(* of another that it has not seen, however loads and commands interleave. *)
EditsWhatWasSeen ==
  [][plan' # plan =>
       LET seen == loaded[plan'.by] IN seen # Null /\ seen.rows = plan.rows]_plan

(* The gate implements the abstract start of execution: day one, the       *)
(* sealed plan and the start are each fixed once, the start last.          *)
Official == INSTANCE OfficialStart WITH
  dayOne <- IF AnchorState(project.startDate, anchors) = "PROVEN"
            THEN project.startDate ELSE Null,
  sealed <- IF Locked(plan) THEN plan.rows ELSE Null,
  begun <- starts # {}
ImplementsOfficialStart == Official!Spec

(* What the acceptance test of the race between the activation of day one  *)
(* and the lock of the plan says: they cannot both succeed when the plan   *)
(* credits a quantity before day one.                                      *)
AnchorOrLock ==
  AnchorState(project.startDate, anchors) = "PROVEN" /\ Locked(plan) =>
    CreditedSince(plan.rows, project.startDate)

=============================================================================
