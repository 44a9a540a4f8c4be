# SIMPROK in TLA+

SIMPROK is a backend (NestJS, Prisma, PostgreSQL) and a frontend for
construction projects: a bill of quantities (BOQ) becomes a budget (RAB) whose
lines are priced by AHSP recipes and Basic Prices that people have proposed,
reviewed and published; the budget is locked, approved, planned and executed.
This directory holds specifications of the parts of the backend in which state
has rules, their model-checking runs, and theorems about them.

    tlc -workers 2 -config RabDraft.cfg MCRabLifecycle      # one run
    tlapm RabLifecycleProofs.tla                            # the proofs of one module

| module | what it is |
|---|---|
| `RabFreeze` | abstract: what a budget promises once it is sealed |
| `RabLifecycle` | the Working Draft, its lock, approval and discard; implements `RabFreeze` |
| `PriceCatalog` | abstract: what is on offer for each day, and what may change it |
| `PriceGovernance` | review, publication, correction, withdrawal and promotion of prices; which price is offered for a day; implements `PriceCatalog` |
| `SpreadsheetIntake` | abstract: a file is taken, read, judged, announced and submitted, with no workers |
| `IntakePipeline` | upload and the four polling workers that turn a spreadsheet into price submissions; implements `SpreadsheetIntake` |
| `OfficialStart` | abstract: day one, the sealed plan and the start of execution are each fixed once |
| `ExecutionGate` | plan drafts, their lock, day one, the start, and the doors at which progress meets them; implements `OfficialStart` |
| `ProgressLedger` | abstract: each report, correction, verification, acceptance and attestation happens at one moment |
| `ProgressEntries` | the same lock by lock, with any number of requests in flight; implements `ProgressLedger` |
| `ReviewBook` | abstract: the rows of a price list, decided, taken back, kept and offered in one step each |
| `ImportReview` | the transactions and requests that do it; implements `ReviewBook` |
| `MC...` | values of the constants for TLC |
| `...Proofs` | theorems and their proofs |

`PROJECT.json` lists components, runs, findings, hazards and theorems, and
names for every definition the source lines it stands for.

# 1. Inventory

All paths are under `src/backend/src/` unless they say otherwise.

## 1.1 Components

**RAB working draft** (`project/`). State: the `BoqItem` rows of a project's
Working Draft structure, with their quantity, unit, money and the origin of the
money; one `RabDocument` with a status (DRAFT, LOCKED, APPROVED), a total and
who locked it; `ProjectBaseline`s; `Project.deletedAt`. Operations: save the
draft (`saveDraftBoq`, a full replace), initial setup, import approval, price a
row by the cost kernel (`persistBoqItemCalculation`), lock, approve, discard.
Correct when: a locked budget can be re-derived line by line and its total is
the total of its lines; server-computed money is changed by nobody else; the
approval and its baseline come together and once; a discarded project is left
alone.

**Project AHSP selection** (`project-ahsp/`). State: the AHSP occurrence
attached to a row, as working or as calculated. Operations: select for a row,
bulk automation that chains selection and calculation, human identity decisions
(GHX) with generations. Correct when: a row's money follows from its own
occurrence; decisions form one line of generations.

**AHSP versions** (`ahsp/`). State: versions of a recipe and their status.
Operations: create (which retires older unpublished versions), retire, publish,
import. Correct when: a lock uses eligible versions only.

**Basic Prices** (`basic-price/`). State: prices on two publication axes,
correction links (`supersedesId`), audits, shared descendants. Operations:
publish, withdraw, promote to the shared catalog; import batches; private
prices. Questions: which prices are lawful, applicable and current for a day.
Correct when: two humans stand behind each published price, corrections form
chains, there is one current truth, and today's acts do not rewrite the answers
for past days.

**Price submission review** (`reality-intake/price-submission-review.service.ts`).
State: `PriceSubmission`, its review with an SLA state, decisions. Operations:
open, accept, reject, request correction, reassign, the SLA check. Correct
when: a submission bears one price, after one acceptance.

**Reality intake** (`reality-intake/`). State: stored files, source documents,
intake jobs, extraction artifacts, candidates, knowledge events, submissions.
Operations: upload, and four workers (extraction, validation, publication,
business subscription) that poll on timers. Correct when: a document has its
bytes, a file is read once, publication is all or nothing, nothing is written
twice by runs that do not overlap, and no job is stranded.

**Basic price import** (`basic-price/basic-price-row-resolution.service.ts`,
`basic-price-import.service.ts`, `private-price-asset.service.ts`). State: a
batch with a status, its rows with a version, a resource and a history of
mappings and proposals, private prices. Operations: decide a row (resolve,
accept in bulk, admit a new resource, reject), take a decision back, reopen,
keep private, submit the batch, propose one private price. Correct when: what
is submitted is what was decided, no door offers a row twice, and a submitted
row rests.

**Execution plan and the start** (`execution-plan/`; `project/`
`activateWorkPeriodAnchor`, `startExecution`). State: a plan with revisions and
intervals, its lock, the first day of work with its audit events, the
transition of the project. Correct when: nobody overwrites an edit he has not
seen, day one is stated once, and what started stays behind every gate it passed.

**Progress** (`progress/`). State: entries that supersede one another, their
status, audit events of verification, acceptance and attestation. Correct when:
status and trail agree, duties are separated, a repeated command does not count
twice, and what is called proven is current.

**Resource catalog and unit kernel** (`resource-catalog/`, `unit-kernel/`). State:
catalog entries, aliases, observation decisions. Pure: unit conversion.

**Universal intake, document intelligence, canonical reference.** Profiles and
classifies documents; writes append-only evidence.

**Authority and platform governance.** Positions and who may approve; the
bootstrap ceremony of the platform with its generations.

**Accounts, workspaces, access.** Sessions, memberships, and
`ProjectAccessGuard`, which decides before a handler starts.

**Runtime health, rehearsal scripts; frontend.** Operations tooling, and
presentation over the server's authority.

## 1.2 How they interact

Components do not send messages; they share one PostgreSQL database. A request
passes guards that read it, and the handler then runs one transaction. Two
disciplines of exclusion carry most of the weight:

- a **row lock** that every writer of a component takes first
  (`SELECT ... FOR UPDATE` on the project row for the draft, on the review or
  the price for governance, on the job for a worker's claim), and
- **unique keys** and database constraints as the last line.

The hard behaviour is what neither covers: what a guard read before the
transaction; what a transaction reads, under READ COMMITTED, of rows whose
writers take another lock (the lock command asks the price authority row by
row); a timer that starts a second run of a worker before the first one ended;
a SERIALIZABLE transaction that decides on a snapshot taken before it waited
for a lock; handlers that take the same locks in different orders; storage that
is not part of the transaction; a process that dies between a claim and a
result; totals and links that one handler maintains and another
forgets.

`PROJECT.json` lists these as hazards, at their lines, with the properties that
watch each of them.

# 2. What is modelled

## 2.1 RabLifecycle

State: `rows` (the WORK_ITEMs: quantity, whether the unit is there, money,
origin of the money, AHSP version, working and calculated occurrence), `rab`
(the RabDocument), `baselines`, `deleted`, `admitted` (requests that have
passed `ProjectAccessGuard`), `market` and `versions` (what the price and AHSP
authorities answer now), `lockTx` (the transaction of a lock command).

| action | code |
|---|---|
| `Admit`, `Refuse` | `ProjectAccessGuard`; any refusal, replay or read |
| `SaveDraft` | `project.service.ts` `saveDraftBoq` |
| `InitiateSetup` | `project.service.ts` `initiateSetup` |
| `ApproveImport` | `boq-import.service.ts` `approve` |
| `SelectAhsp` | `project-ahsp.service.ts` `selectForBoqItem` |
| `PersistCalculation` | `rab-kernel-persistence.service.ts` |
| `BeginLock`, `CheckPrice`, `CheckVersion`, `CommitLock`, `RefuseLock` | `rab-lock.service.ts` `lockWorkingDraft`, by statement |
| `ApproveRab` | `rab-approval.service.ts` |
| `DiscardProject` | `project.service.ts` `discardDraftProject` |
| `CreateAhspVersion`, `RetireAhspVersion` | `ahsp` service |
| `MoveMarket` | any transaction that changes what the price resolution answers |

All handlers but one take the project row's lock first and write only what it
covers, so each is one step. The lock command takes it too, but asks the two
authorities row by row, and these are written under other locks: its statements
are separate steps, with the environment's steps in between. A request is
admitted in an earlier step than its handler, so the guard's answer may be
stale. Money has its real arithmetic: costs in tenths of a cent, rounded half
up to cents where they are written. A total is kept as its summands, so that
"the total of these lines" can be told from any other set of lines with the
same sum.

Abstracted: FOLDER and NOTE rows, tax and margin, the resource set of a recipe
(one resource), the content of findings, region and pricing date (they only
ever refuse).

## 2.2 RabFreeze, the abstract budget

An open budget may be edited at will; one person seals it, only when every line
is proven and the total is the total of these lines; a second act makes it
official; from the seal on, lines, total and sealer never change. It knows no
request, lock, import, authority or deletion. `ImplementsFreeze` is the
refinement: LOCKED is sealed, APPROVED is official, a line is proven when the
kernel reproduces its money from its occurrence and no other work is pending.
What makes this more than a restatement is that the lock checks the rows and
only the *presence* of the total, and that `initiateSetup` asks no lifecycle
question at all: that both are harmless depends on every other handler.

## 2.3 PriceGovernance

State: `submission`, `review`, `accepts`, `price`, `shared`, `audits`, the
calendar `today`, who is `active`, whose request found them active before they
were deactivated (`late`), and the SLA transition read and not yet written
(`slaTurn`).

| action | code |
|---|---|
| `Propose`, `SubmitFromEvent` | community submission of an import; the write of business subscription |
| `OpenReview`, `Accept`, `Decline` | `price-submission-review.service.ts` |
| `ReadSla`, `ApplySla` | the SLA check: a read, and a later transaction |
| `Publish`, `Withdraw` | `basic-price-publication.service.ts` |
| `Promote` | `basic-price-promotion.service.ts` |
| `Deactivate`, `Reactivate`, `NextDay` | the environment |

`Offered(day)` and `OfferedToOthers(day)` are the code's pipeline of
eligibility, applicability (effective date) and currentness
(`basic-price-currentness.ts`), for the workspace and for the shared catalog.

A decision, publication, withdrawal or promotion locks the row it moves and
re-reads under that lock what it decides on: one step. Two things it does not
re-read are modelled as stale: whether the actor is active, and what the SLA
check found. Withdrawal and promotion have no HTTP route at this commit, and the
SLA check has no caller outside tests; they are modelled as the services they
are. `reassign` changes only the assignee, which nothing decides on. At most one
SLA check is in flight.

`PriceCatalog` has no submissions, reviews or audit records. It has the answer
of the catalog for each day, as a set that acts change: a publication adds a
price to the days it holds for, a correction takes another price's place from
today on in the same step, a withdrawal takes one out from the day it names,
and nothing comes back. `ImplementsCatalog` is the refinement. The code has no
such sets. It computes each answer from audit records with dates of their own,
each written by another handler, and filters by status, effective date and
correction links; that every audit changes the computed answer for exactly the
days the catalog says, and that no other act (a deactivation, a promotion, a
late SLA write, the next day) changes any, is the claim. The answers of the
shared catalog are not part of it, since one of them errs (section 5).

## 2.4 IntakePipeline

State: `upload` (where each request stands), `blobs` (bytes at their final
place), `queue`, `status` and `source` (the jobs, one per checksum), `artifacts`
and `readings` (results per job), `candidate` (lifecycle per row), `events`,
`linked`, `submissions`, and what each worker holds in memory: `reading`,
`publishing`, `subscribing`. `lost` is history: files whose reader died.

| action | code |
|---|---|
| `StoreUpload`, `AnswerDuplicate`, `Enqueue`, `RejectEnqueue`, `DeleteFinal` | `intake-enqueue.service.ts` `enqueueUpload`: lookup, move of the bytes, transaction, compensation |
| `ClaimExtraction`, `Look`, `Extract`, `FailReading` | `extraction-worker.service.ts` |
| `ClaimUnderstanding`, `Look`, `Validate`, `FailReading` | `understanding-validation.service.ts` |
| `ClaimPublication`, `LookForEvent`, `PublishCandidate`, `FinishPublication`, `FailPublication` | `publication-worker.service.ts` |
| `ClaimEvent`, `SkipEvent`, `LookForDuplicate`, `Submit`, `FailSubmission` | `business-subscription.service.ts` |
| `CrashUpload`, `CrashReader`, `CrashPublisher`, `CrashSubscriber` | death of the process |
| `LinkResource` | outside the sources: somebody gives a price point its resource |

A worker is one run of `processOnce`. `setInterval` does not wait for the
previous run and several processes may enable the same worker, so a stage has
as many workers as runs may overlap. A claim (`FOR UPDATE SKIP LOCKED` in a
short transaction) is one step. The transaction that writes a result reads
before it writes and another may commit in between, so looks and writes are
separate steps, and a publisher's writes are visible only when it commits, with
the row locks it holds until then.

Abstracted: cell contents count as whether a row passes validation; attempts
and `lastCompletedStage`, which nothing reads. Events are ordered by commit,
where the code numbers them at insert. The rows of a file are a set: candidates
are published by `createdAt` alone, a timestamp of milliseconds on rows created
in one transaction, so `LookForEvent` takes any of them next. The publisher's
`integrity_violation` branch is left out: it skips a VALIDATED candidate without
a price point or a MATCHED result, and the validation worker, which alone makes
candidates VALIDATED, writes both. `SubmitFromEvent` of `PriceGovernance`
is where a submission of this module goes on.

`SpreadsheetIntake` is what those outside see: a file gets one document, is read
once, its rows are judged once and together; an announcement tells every row
that waits for one, in any order, no row twice in it and none of
another file; what is told stays told; only a told price whose resource is known
is submitted. `ImplementsIntake` is the refinement. QUEUED, EXTRACTING,
UNDERSTANDING and VALIDATING are one standing, WAITING; a document is there if
its bytes are. What makes this more than a restatement is that a publisher tells
what it marked *while others ran*: it must leave out no row another publisher
had locked, and say whether rows are left by what it saw of them. Four
promises are missing because the code does not keep them: that a file is
announced once and what was told submitted once (`IntakeDuplicates`), that rows
are told in the file's order, and that FAILED is never written over an
announcement.

Overlapping runs do write things twice. `RepeatsBoundedByOverlap` says how
often at most: a candidate has no more events than publication runs overlap, an
event no more submissions than subscription runs, however often work is claimed,
failed on or claimed again. With one run at a time each is written once.

## 2.5 ExecutionGate and OfficialStart

State: `project` (status and start date), `anchors` and `starts` (audit events),
`plan` (the one plan version: status, revision, intervals, what it was locked
from), `actual` (the current actual of each work item), `loaded` (what each
client last read of the plan), `tx` (each client's SERIALIZABLE transaction).

| action | code |
|---|---|
| `Load`, `SaveDraft`, `LockPlan` | `execution-plan.service.ts`: reading, `saveDraft`, `lock`, with the blockers of either |
| `BeginAnchor`, `Activate` | `project.service.ts` `activateWorkPeriodAnchor` |
| `BeginStart`, `Start` | `project.service.ts` `startExecution` |
| `GiveUp` | an aborted transaction |
| `Submit`, `Verify`, `Correct`, `Attest` | `progress.service.ts`, as far as they ask about project, plan and day one |

Saving and locking the plan run READ COMMITTED after `SELECT ... FOR UPDATE` on
the project, so each is one step. Day one and the start are SERIALIZABLE: their
snapshot is taken when the locking statement is *issued*. The Begin step
decides on the snapshot; the second step takes the effect, if the row lock is
granted (nobody updated the project row since) and, for day one, no rival event
was committed. Locking a plan updates no project row and is READ COMMITTED, so
PostgreSQL detects nothing between it and them: `StartAnchorRace` is the
consequence. A work item has at most one lineage of actuals here.

`OfficialStart` knows only the day, the sealed plan and the start, each fixed
once, the start last and against a plan none of whose intervals begins before
the day. `ImplementsOfficialStart` is the refinement. It is not a restatement:
the start reads a snapshot, the plan lock asks about the end of an interval and
the start about its beginning, and day one may be proved before or after the
lock.

## 2.6 ProgressEntries

State: `entries` (in the order written, each pointing at the one it
supersedes), `events` (audit events of acts that succeeded), `request` (what is
in flight: what was asked, how many locks it has taken, the status it has read).

| action | code |
|---|---|
| `Submit`, `Act` | a request arrives; the look for a used command id |
| `Proceed`, `Refuse` | the next row lock is granted; what is read under it lets the handler go on, or not |
| `CommitSubmit`, `CommitCorrect` | `submitFieldProgress`, `correctEntry` |
| `CommitTransition` | `transitionEntry`: verification and acceptance |
| `CommitAttest` | `attestEntrySemantics` |
| `Collide`, `Abort` | a unique index; a rollback |

`Locks` lists the row locks of each handler in its order, the KEY SHARE lock
that an insert takes on the project row through its foreign key included. A
handler decides once, under some of its locks (`Checks`), and commits later.
Positions are constants: `Holders` says whose gives the authority to report,
correct, verify and accept, `MayCombine` whose is exempt from separate duties,
by the two policies of `progress-authority.service.ts`, one for VERIFY and one
for ACCEPT. An attestation asks for the authority and the policy of a
verification (`AskedAs`). The trail of refusals, whose command ids live in a name
space of their own, and the read-only projections are left out.

`CommandsSpent` says what becomes of a command id. No two entries bear it and no
two events; and once an act bears it and no report with it is under way, no
report will ever bear it, since a report asks for both. It does not say that an
id has one effect: a transition or attestation asks for earlier acts only, and
may bear the id of a report (section 5).

`ProgressLedger` has no requests and no locks: each of the five acts takes effect
in one step, on entries and events as they are at that step. `ImplementsLedger`
is the refinement, and says that the handlers are serialisable. They run under
READ COMMITTED, decide before they write, read some things before they hold any
lock, and none of them locks everything it decides on.

## 2.7 ImportReview

State: `db`, what is committed of one batch (its status, the rows, the
resources the catalog knows, the private prices), and `request`, the
transactions in flight, each with its stage and what it has read or will write.

| action | code |
|---|---|
| `Ask...` | what the page offers, with the version of the row it shows |
| `Decide`, `CountPending`, `ReadBatch`, `CommitDecision` | `resolveRow`, `acceptMachineProvenRows`, `admitResourceForRow`, `rejectRow` with `recomputeBatchStatus` |
| `Start`, `TakeBack`, `LockResource`, `CommitUndoing` | `compensateOwnDecision`, `reopenRejectedRow` |
| `LockBatch`, `LockRow`, `CountUndecided`, `CommitSubmit`, `CommitKeep` | `submitBatch`, `keepBatchPrivate` |
| `LockPrice`, `CommitDetail` | `submitPrivatePrice` |
| `End` | refused, overtaken, victim of a deadlock, or lost |

Decisions run READ COMMITTED and lock row, then batch; submitting and keeping
lock batch, then rows; taking back runs SERIALIZABLE, so it reads a snapshot and
fails when a record it locks has changed (`overtaken`, or `db.row[..] = old`) or
one of its kind committed meanwhile. Share locks through foreign keys to the
resource are `Shares`. A resource admitted for a row is named by the row; every
row has a readable price and a proven unit; a bulk acceptance is taken row by
row; "accept and keep" of the page is an acceptance and a keeping. Left out: the
confirmations of category, specification and unit reason, hiding a batch, the
metadata form, corrections and removal of private prices.

`ReviewBook` keeps, for each row, where it stands, what was decided, how often,
what was offered and its private price, and changes them in seven steps: decide,
reject, take back, reopen, submit the batch, submit a private price, keep.
`ImplementsBook` is the refinement. A submission or keeping of many rows counts
at one moment, although it locks them one by one, and on what is decided of each
row at that moment. The status of the batch is not part of the promise: it is
written from what a transaction did not lock (section 5).

# 3. Runs

Every property below is also broken by at least one small, plausible change of
the model of the code (listed as `mutants`), so each run does exercise what it
claims.

| run | instance | shows |
|---|---|---|
| `RabDraft` | 2 rows, 1 account, 1 version, 1 price | types, frozen rows proven, totals true, server money only by the kernel, refinement of `RabFreeze` |
| `RabRequests` | 1 row, owner and approver, overlapping requests, 2 versions, a price that comes and goes | approval whole and once, the freeze stands on answers given during the lock, rest after a discard, every lock command ends |
| `PriceDesk` | 3 submissions (one from an event), 2 reviewers, 1 publisher, a reviewer who leaves, late SLA writes | one acceptance and one price, two humans |
| `PriceChain` | 3 prices of one resource, 3 days, withdrawals dated back and forward | chains, past answers stand, refinement of `PriceCatalog` |
| `IntakeWorkers` | 3 uploads of 2 files, 3 rows of which one is faulty, 2 extractors, 1 validator, 2 publishers, 2 subscribers, 1 death | bytes, whole publication, repeats bounded by overlap, refinement of `SpreadsheetIntake`, jobs come to rest, valid rows are published |
| `StartGate` | 2 planners, 2 openers, 2 commands, 3 days, 1 item of quantity 2, 3 drafts, 3 saves | one day one, started behind every gate, work against a sealed plan, governed since day one, plans written only by who had loaded them, refinement of `OfficialStart` |
| `ActualRaces` | foreman and supervisor, 2 policies, 1 item, 4 commands, 2 requests in flight, 5 records | trail and status, four eyes, commands spent, proven is current, superseded is frozen, refinement of `ProgressLedger` |
| `ImportDesk` | 2 rows, no resource known before, 2 requests in flight, versions up to 3 and 2 | decisions stand, each door offers a row once, refinement of `ReviewBook` |
| `RabDeletedOfficial`, `IntakeDuplicates`, `StartAnchorRace`, `ActualDeadlock` | smallest that shows it | where the code and a text about it disagree, section 5 |

Why these bounds are enough to be interesting:

- A total over lines needs two rows (one priced, one not); what moves during the
  lock needs two versions and an answer that changes, of which the second row
  adds nothing but states, so the two concerns have a run each. Costs are chosen
  so that rounding shows: a unit price rounded and then multiplied gives another
  line total than the exact product. Quantities are halves of a unit; `{3}` is
  one and a half.
- Two overlapping requests are the smallest number that can be stale to one
  another; a third adds no new pair.
- Three prices are the least that can form a chain, a fork and a cycle, three
  days the least in which a fact lies before, on and after another. The SLA ages
  1 and 2 stand for 7 and 30 days: only their order matters. In `PriceChain`
  they lie beyond the calendar, because `PriceDesk` covers the SLA.
- Two uploads of one file and one of another, two runs of a stage, one valid and
  one faulty row in a file, and one death at any point: each hazard of section
  1.2 takes two actors or one death. A second death would need a second recovery
  to disturb, and there is no recovery in the code, only a new claim. The price
  point of one valid row may get its resource (`Linkable`), that of the other
  never does, so an event is submitted by both subscribers or skipped by both.
- `StartGate`: two clients on either side, so that each may be overtaken by its
  like; drafts with one and two intervals and one whose sum falls short; two
  commands, so that a command may be repeated or fresh.
- `ActualRaces`: four commands and five records hold a submission, its
  verification, acceptance and attestation with a fifth request racing the last
  of them, or two corrections in a row; a correction of a correction and every
  pair of racing acts occur. Both accounts may verify and accept; one of them
  reports and the other corrects, and each is exempt by one policy only, so an
  exempt account and another come to verify, accept and attest quantities of
  their own, and to accept what they verified. Entries, once superseded, never return, so longer chains
  repeat what two links show.
- `ImportDesk`: the first row may be decided, taken back and decided again, the
  second decided and taken back, each in two tabs; two rows are the least of
  which one may be forgotten in a count, collide with the other's resource or
  use it.

Named bounds: `LastDay` (calendar), `MaxCrashes`, `Linkable`, `MaxRevision` (saves of a
plan), `MaxRecords` (entries, events and requests together), `MaxVersion` (of
each imported row). Nothing else is cut: a project has one freeze, a submission
one price, a file one job. Interchangeable rows, prices, clients, commands and
slots are permuted by symmetry, in runs without liveness.

Deadlock is checked in the Rab, Start and ImportDesk runs: whatever has
happened there, somebody can still act. It is not in the Price, Intake and
`ActualRaces` runs, because these systems may really stop: the calendar is
bounded, a pipeline in which everything is uploaded, published and submitted has
nothing left to do, and once `MaxRecords` are written nothing more is asked.
Requests that wait for each other are no such stop, as either may be aborted;
`ActualDeadlock` looks for them by name.

## Fairness

- `RabLifecycle!FairSpec`: weak fairness of `LockStep`. The statements of an
  open transaction are executed to its end; users, guards and authorities are
  not fair.
- `IntakePipeline!FairSpec`: weak fairness of each reader's and each publisher's
  run as a whole. A run that lives executes its next statement, and the timer
  starts runs for ever; *which* statement, success or failure, is not chosen by
  fairness. Uploads, subscribers, those who link resources and deaths are not
  fair.
- `PriceGovernance`, `ExecutionGate`, `ProgressEntries` and `ImportReview` have
  none: nobody is obliged to decide, to start or to attest, the SLA check has no
  caller, and a transaction that waits may be cut off.

# 4. Proofs

TLC decides the runs above for their small instances; TLAPS proves the
following for every value of the constants, from the named assumptions beside
the constants (disjoint sets of workers, `Null` is no value, costs are
naturals, and the like). Every invariant, action property and refinement of the
passing runs is proved. Four properties have a theorem and no run of their own
any more: `AttestedWhatStood`, `SubmittedRowRests`, `CorrectedNotOfferedToday`
and `ReadOnce`. What they say is part of the refinement that the same run checks,
but for the shared catalog's half of `CorrectedNotOfferedToday`, which only the
theorem states.

| module | theorem | states |
|---|---|---|
| RabLifecycleProofs | `TypeCorrect` | `TypeOK` |
| | `FrozenBudgetIsProven` | `FrozenRowsProven` |
| | `TotalIsTrue` | `TotalTrueOncePriced` |
| | `ApprovalIsWhole` | `ApprovedIffBaseline` |
| | `FreezeIsAnswered` | `FreezeStandsOnAnswers` |
| | `ServerMoneyIsTheKernels` | `ServerMoneyOnlyByKernel` |
| | `DeletedRests` | `DeletedProjectRests` |
| | `LifecycleImplementsFreeze` | refinement of `RabFreeze` |
| PriceGovernanceProofs | `TypeCorrect` | `TypeOK` |
| | `AcceptedOnce` | `OneAcceptanceOnePrice` |
| | `PublishedByTwo` | `TwoHumanLadder` |
| | `CorrectionChains` | `CorrectionsFormChains` |
| | `CorrectedIsGone` | `CorrectedNotOfferedToday` |
| | `HistoryStands` | `AnswersNotRewritten` |
| | `CatalogImplemented` | refinement of `PriceCatalog` |
| IntakePipelineProofs | `TypeCorrect` | `TypeOK` |
| | `BytesAreThere` | `DocumentsHaveTheirBytes` |
| | `JobsAreReadOnce` | `ReadOnce` |
| | `PublicationIsWhole` | `PublicationWhole` |
| | `IntakeImplemented` | refinement of `SpreadsheetIntake` |
| | `RepeatsBounded` | `RepeatsBoundedByOverlap` |
| ExecutionGateProofs | `TypeCorrect` | `TypeOK` |
| | `DayOneAgrees` | `OneDayOne` |
| | `StartGated` | `StartedBehindEveryGate` |
| | `WorkMeasured` | `WorkIsMeasuredAgainstASealedPlan` |
| | `WorkGoverned` | `GovernedSinceDayOne` |
| | `NoEditLost` | `EditsWhatWasSeen` |
| | `Refinement` | refinement of `OfficialStart` |
| ProgressEntriesProofs | `TypeCorrect` | `TypeOK` |
| | `TrailTells` | `TrailMatchesStatus` |
| | `FourEyesKept` | `FourEyes` |
| | `CommandsOnce` | `CommandsSpent` |
| | `ProvenCurrent` | `ProvenIsCurrent` |
| | `SupersededRests` | `SupersededIsFrozen` |
| | `AttestedStood` | `AttestedWhatStood` |
| | `Serialisable` | refinement of `ProgressLedger` |
| ImportReviewProofs | `TypeCorrect` | `TypeOK` |
| | `DecisionsStandAlways` | `DecisionsStand` |
| | `OfferedOnce` | `OffersOnce` |
| | `SubmittedRests` | `SubmittedRowRests` |
| | `BookImplemented` | refinement of `ReviewBook` |

**RabLifecycle.** `FrozenRowsProven` is not inductive: the lock looks at rows in
steps and at the total only for its presence. The invariant adds: `RowsOK`
(unit price, line total and origin are there together, and a manual line is its
quantity times its price, rounded), `DocumentOK` (no document, no total; a
frozen document and no other has its locker; a baseline goes with APPROVED),
`TotalTight` (once the server has priced a row, a stated total covers exactly
the rows, all of them priced, each summand rounds to the stored line total, and
those of server rows are exact), and `LockKnowledge` (while the lock runs, the
project row is held, so the
rows it has passed without a finding still stand, with the price and version
answers it has seen). At the commit these together give a proven, summed-up
freeze. The refinement follows because every handler outside the lock needs
`CanEditDraft`, or, for `initiateSetup`, an empty draft, and a frozen draft is
not empty. `DeletedProjectRests` needs one more fact: a lock's holder is an
unanswered request.

**PriceGovernance.** Absence of cycles is the interesting part: a price being
published is, until then, not published, and corrections point at published
prices only; so nothing points at the price that gets a link, and the link
closes no cycle. This holds for any number of prices, where TLC sees three. That
past answers stand rests on records being dated no later than `today`, while a
withdrawal dates itself. For the refinement, two more facts tie audit records to
prices: only published prices have records (`RecordsOfPublished`), so a
publication adds to the answers exactly the days from its effective date on; and
every correction has its record and a price has one withdrawal, so each record
takes effect once.

**IntakePipeline.** The invariant says who may hold a job in which status and how
far a job in that status has come. `HeldByOne`: a reader's job is EXTRACTING or
VALIDATING, and no two readers hold one job, since a claim asks for the status
before and sets the one after. `Staged`: a status fixes the numbers of artifacts
and readings. Hence the looks of extraction and validation never find anything:
the claim alone is what makes `ReadOnce` true. `CandidatesRead` and `Working`:
a publisher works on validated rows of a job that has been read, and for each
row it marked has an event of its own or a committed one; hence the commit of
any of several overlapping publishers leaves rows and events in step.

The refinement needs a second invariant, `TellInv`, about what workers carry: a
publisher makes no row's event twice, and every validated row of its job that
it has no longer to look at is among those it marked
(`TasksTell`), so at the commit none is left out and the final status is right,
however many others have committed since; a row that needs review did not pass
(`HeldRowsFailed`); and a subscriber about to submit holds an event that is there
and whose row is linked (`SubscribersKnow`).

`RepeatsBounded` counts. A run is an *announcer* of a row while it may still
write an event of it: it has yet to look for one, has looked and found none, or
has made one and not committed. Nobody becomes an announcer of a row that has an
event already, since the claim takes rows that are VALIDATED and these have none;
and a run that writes an event is no announcer afterwards. So events and announcers
together are never more than the publishers: each event used up one run's look
(`Within`, by way of `WithinMoves`). The same holds of submissions, where a look
that finds none is the step that makes a run a submitter.

**ExecutionGate.** A SERIALIZABLE transaction decides on a snapshot and acts
later. `DecisionsHold` says what of a decision remains true until its effect:
the day-one events it saw are still there and name its day, and for a start the
plan it saw locked is still the plan, since a locked plan cannot change, and
still begins on that day or later. With the row lock, which is refused once the
project row was updated, this gives the gates of a start. What a snapshot may
miss is a plan locked meanwhile; no theorem needs it, and `StartAnchorRace` is
the run that shows it. `NoEditLost` is about the author of each write, whom the
plan remembers: what a save replaces and a lock seals are the intervals that
this client had loaded. It needs another fact, `RevisionNamesRows`: a
revision number stands for one content of the draft.

**ProgressEntries.** No two requests hold conflicting locks (`LocksExclude`), so
what a request has decided under the lock of its entry, or of its item, is
still true when it commits (`DecisionsHold`): whoever would change the status of
the entry, supersede it, verify it, or add to the context of the item, needs a
lock the request holds. With that the story of rows and events (`Story`) is
kept commit by commit. Only command ids are not protected by a lock; there the
unique indexes on reports and on events decide at the commit, each by itself,
and a report's question for events is asked once and early. Hence `CommandsOnce`
excepts a report already under way and says nothing of an act after a report.
`Serialisable` places each act at its commit:
there `DecisionsHold` makes every condition of `ProgressLedger` true of what
stands then, an attestation's context is the standing of its item then, and
`Entitled` says that who asked was entitled to ask, which no later step can
change. That all other steps change neither entries nor events is then enough.

**ImportReview.** No two requests hold one row, and no two hold one private price
(`Apart`); so what a request found when it locked is still there when it writes
(`Found`), and a row changes by one of six steps (`RowStep`), each allowed only
to what it asks of the row. `RowGood` says what a row tells, and every one of
the six keeps it. A bulk acceptance chooses rows before it holds them: there the
version is the witness, since every decision raises it, and equal versions mean
equal decisions (`RowStepTells`). Of the isolation levels the proof needs only that a
transaction finds the row it locks as its snapshot showed it; of the lock of the
batch nothing. Those are for the status of the batch, and section 5 tells where
they do not suffice. `BookImplemented` goes the same way: by `Found`, what each
of the transactions asked of its rows when it locked them still holds when it
commits, for all rows of a submission or keeping at once, and that is what the
steps of `ReviewBook` ask. That a keeping gives no two rows one resource is
decided at its commit (`Priced`).

Only model-checked: `LockCommandEnds`, `JobsComeToRest` and
`ValidRowsPublished`, since liveness under fairness and ENABLED are out of the
prover's reach; so would be induction over data and RECURSIVE operators, which
these modules do not use. The violations are TLC counterexamples.

# 5. Where the code and its texts disagree

| run | what happens |
|---|---|
| `RabDeletedOfficial` | A lock request admitted before a discard freezes the discarded project. |
| `IntakeDuplicates` | Two overlapping publication runs claim one job and write an event each for its candidate; two overlapping subscription runs claim one event and write a price submission each. The tests of both workers say "idempotent" and call them one after the other. The property is the weaker of the two promises, so the one behaviour breaks both. |
| `StartAnchorRace` | Day one is proved on a snapshot older than a plan lock it waited for, and the plan credits a quantity before that day; the acceptance test says that both cannot succeed. |
| `ActualDeadlock` | An attestation holds the project and waits for the entry, a correction holds the entry and waits, through a foreign key, for the project; the acceptance test says that the race completes without deadlock. PostgreSQL aborts one, and nothing wrong is stored. |

Others were met on the way and have no run. In `IntakePipeline`: candidates are
locked in the order of `createdAt`, which does not tell rows of one transaction
apart, so two publishers of one job may lock them in different orders and wait
for each other; PostgreSQL aborts one, and its job becomes FAILED, or PUBLISHED
over FAILED, depending on who writes last. In `ProgressEntries`: a report refuses
the command id of an act (COMMAND_ID_AUDIT_CONFLICT), but a transition or
attestation does not ask for reports, so one id may submit an entry and then
verify it. In `ExecutionGate`: a legacy project may be ACTIVE without a day one.
An activation of it that has taken its snapshot does not see that the plan is
then locked and an entry recorded, verified and attested before its row lock is
granted (all of them have to pass the project row in that time, a narrow window
of one statement); it proves a day one after a governed quantity. `GovernedSinceDayOne`
speaks of projects with an official start, where this cannot happen. In
`RabLifecycle`: an import, or a
setup after an empty save, leaves a stated total over rows that are not priced,
where a comment says totals are NULL; a save that omits the quantity or unit of
a server-priced row stores a row its calculation no longer proves (the lock
would refuse either, `FrozenRowsProven`). In `PriceGovernance`: for a day before
it was published, a correction in the shared catalog is offered beside the price
it corrects; a late SLA write reopens a resolved review, and a rejection then
takes a VERIFIED submission to REJECTED while its price stands.

In `ImportReview`, all from `recomputeBatchStatus` and `compensateOwnDecision`
of `basic-price-row-resolution.service.ts`:

- A decision reads the batch, a submission closes it and commits, and the
  decision then writes READY_FOR_REVIEW or NEEDS_REVIEW over SUBMITTED. Or: a
  rejected row is reopened around the count of a submission, and a closed batch
  keeps a row that needs review.
- Two decisions each count the other's row before it commits. READY_FOR_REVIEW
  then stands over an undecided row, or NEEDS_REVIEW over none.
- A row that was submitted with its batch is proposed once more on its own, as
  the latter asks the former's proposals under another lock: one row, two
  submissions, one through either door. `OffersOnce` says once per door.
- A compensation waits for a row that `keepBatchPrivate` has locked. Keeping
  updates no row, so the compensation is not aborted, and its snapshot shows no
  private price: it takes the decision back and, where the resource was admitted
  for this row, retires it under the price, although a comment says that nothing
  in use is retired. Proposing that price then leaves a submitted row without a
  resource.

Two neighbours of these are stated by what does hold. A price published between
the lock's answer for a row and the lock's commit is frozen over:
`FreezeStandsOnAnswers` says that the answer was given during the lock. A job
whose reader died stays EXTRACTING or VALIDATING for ever, and its unique key
answers later uploads of the same file with it: `JobsComeToRest` says that
nothing else strands a job.

# 6. What is not modelled

| part | why |
|---|---|
| parsing of spreadsheets and documents, classification, AHSP import | transformations of data with little shared state |
| BOQ intake requests and interpretation keys | planned, 7.1 |
| corrections, observations and removal of private prices; their branch of `Offered` | planned, 7.3 |
| the weighted progress curve, period navigator and temporal lens | read-only computations over the rows of `ProgressEntries`, planned, 7.5 |
| GHX identity decisions, governance bootstrap | planned, 7.4 |
| unit kernel, cost kernel of many resources, recap, period windows | pure algorithms, planned, 7.5 |
| sessions, passwords, roles | the models take their answers as given: who may approve, review or publish is a constant |
| frontend, health, scripts | no state with rules |

Two hazards of `PROJECT.json` have no property: reject and request-correction
never look at the submission's status, and a decision on an imported row writes
the batch status from what it did not lock. What should hold there does not;
both are told in section 5.

# 7. Plan

In this order, the behaviour most in need first. Each is a module with its
constants and assumptions, an MC module, runs, and a proof module where the
safety properties are inductive.

0. Done: `RabLifecycle`, `PriceGovernance`, `IntakePipeline`,
   `ExecutionGate`, `ProgressEntries` and `ImportReview`, all with proofs, and the
   abstract specification each of them implements.
1. `BoqRequests`: `beginBoqIntakeRequest` and `bindBoqInterpretation` with
   idempotency keys, repeated and lost answers; beside `IntakePipeline`, whose
   uploads it shares. Abstract: a request has one answer for ever.
2. Private prices after their birth: corrections, observations, removal, and
   their branch of `Offered`; composed with `PriceGovernance` by instance.
3. `GhxDecisions` and `GovernanceBootstrap`: generations decided under
   RepeatableRead with bounded retries; a ceremony repeated after a lost answer.
   Abstract: one line of generations, one bootstrap.
4. Algorithms as functions, checked against reference definitions over bounded
   inputs: the cost kernel of many resources with its rounding, the recap, the
   weighted curve, structure preflight of a BOQ, period windows, unit
   conversion. Recursive functions, no RECURSIVE, where lemmas are wanted.
5. Compositions: a market in `RabLifecycle` that is the `Offered` of
   `PriceGovernance` instead of an arbitrary answer; the submissions of
   `IntakePipeline` and `ImportReview` as the sources of `SubmitFromEvent` and
   `Propose`; the locked plan of `ExecutionGate` before `ProgressEntries`.
