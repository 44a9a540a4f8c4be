--------------------------- MODULE IntakePipeline ---------------------------
(***************************************************************************)
(* The reality intake of one workspace: spreadsheets of prices are         *)
(* uploaded, and four polling workers carry each of them through           *)
(* extraction, validation, publication as knowledge events and submission  *)
(* as proposed prices (reality-intake/{intake-enqueue,extraction-worker,   *)
(* understanding-validation,publication-worker,business-subscription}      *)
(* .service.ts).                                                           *)
(*                                                                         *)
(* A worker is one run of processOnce.  The timer that starts runs does    *)
(* not wait for the previous one, and several processes may have workers   *)
(* enabled, so a stage has as many workers as runs may overlap.  A claim   *)
(* is a short transaction of its own (SELECT ... FOR UPDATE SKIP LOCKED),  *)
(* one step.  The transaction that writes a stage's result runs under READ *)
(* COMMITTED: what it looks up and what it writes are separate steps.      *)
(*                                                                         *)
(* A file is known by its checksum; a job, its source document and its     *)
(* idempotency key are one per file.  A row stands for a data row of the   *)
(* file, the candidate made of it, and its canonical price point.  Cell    *)
(* contents count only as whether the row passes validation.  Attempts and *)
(* lastCompletedStage, which nothing reads, are left out, and so are       *)
(* temporary files and jobs of bills of quantities, which no worker here   *)
(* claims.  So is the publisher's integrity_violation branch: it skips a   *)
(* VALIDATED candidate without a price point or a MATCHED result, and only *)
(* the validation worker makes candidates VALIDATED, with both.            *)
(*                                                                         *)
(* Operators whose name ends in Bug are a neighbour's mistaken form; no    *)
(* other definition uses them.                                             *)
(***************************************************************************)
EXTENDS Integers, Sequences, FiniteSets

CONSTANTS
  Files,         \* contents of a spreadsheet, by checksum
  Uploads,       \* upload requests
  FileOf,        \* the file each request carries
  Rows,          \* data rows of all files
  RowsOf,        \* the data rows of each file
  Valid,         \* rows that pass validation
  Linkable,      \* rows whose price point somebody may give its resource
  Extractors, Validators, Publishers, Subscribers, \* overlapping runs per stage
  Mortal,        \* uploads and workers whose process may die
  MaxCrashes,    \* bound on such deaths
  Null

Readers == Extractors \cup Validators
Workers == Readers \cup Publishers \cup Subscribers

ASSUME ContentsAssumption ==
  /\ FileOf \in [Uploads -> Files]
  /\ RowsOf \in [Files -> SUBSET Rows]
  /\ UNION {RowsOf[f] : f \in Files} = Rows
  /\ \A f, g \in Files : f # g => RowsOf[f] \cap RowsOf[g] = {}
ASSUME WorkersAssumption ==
  /\ Extractors \cap Validators = {} /\ Publishers \cap Subscribers = {}
  /\ Readers \cap (Publishers \cup Subscribers) = {}
  /\ IsFiniteSet(Publishers) /\ IsFiniteSet(Subscribers)
  /\ Mortal \subseteq Workers \cup Uploads /\ MaxCrashes \in Nat
ASSUME ValidAssumption == Valid \subseteq Rows /\ Linkable \subseteq Rows
ASSUME NullAssumption == Null \notin Uploads /\ Null \notin Rows

VARIABLES
  upload,        \* where each upload request stands
  blobs,         \* uploads whose bytes lie at their final place in storage
  queue,         \* the files with an intake job, oldest job first
  status,        \* IntakeJobStatus of the job of each file
  source,        \* the upload whose SourceDocument the job has
  artifacts,     \* number of extraction artifacts of each job
  readings,      \* number of times the rows of a job became candidates
  candidate,     \* lifecycle status of the candidate of each row
  reading,       \* what each extractor or validator holds in memory
  publishing,    \* what each publisher holds, with its open transaction
  events,        \* knowledge events, by sequence: the rows they publish
  linked,        \* rows whose price point has a resource with the same unit
  subscribing,   \* what each subscriber holds
  submissions,   \* the events that price submissions were made from
  crashes,       \* deaths so far
  lost           \* history: files whose reader died holding the job

intake == <<upload, blobs, queue, source>>
knowledge == <<status, artifacts, readings, candidate>>
outcome == <<events, linked, submissions>>
deaths == <<crashes, lost>>
workers == <<reading, publishing, subscribing>>
vars == <<upload, blobs, queue, source, status, artifacts, readings, candidate,
          reading, publishing, events, linked, subscribing, submissions, crashes, lost>>

-----------------------------------------------------------------------------
(* Data *)

JobStatus == {"NONE", "QUEUED", "EXTRACTING", "UNDERSTANDING", "VALIDATING",
              "NEEDS_REVIEW", "PUBLISHED", "FAILED"}
Lifecycle == {"NONE", "NEEDS_REVIEW", "VALIDATED", "PUBLISHED"}

HasEvent(r) == \E e \in DOMAIN events : events[e] = r
HasSubmissionBug(e) == FALSE
HasSubmission(e) == \E s \in DOMAIN submissions : submissions[s] = e

(* A reader's memory: the job it claimed, whether its transaction has      *)
(* looked for an earlier result, and whether it found one.                 *)
Reading == [job : Files, looked : BOOLEAN, found : BOOLEAN]

(* A publisher's memory: the job and the rows validated when it claimed    *)
(* it, the row it looks at and whether it found an event of that row, and  *)
(* what its transaction has written so far: the rows marked PUBLISHED, and *)
(* those of them it made an event of.                                      *)
Publishing == [job : Files, todo : SUBSET Rows, row : Rows \cup {Null}, found : BOOLEAN,
               made : Seq(Rows), marked : SUBSET Rows]

(* A subscriber's memory: the event, whether its price point was linked    *)
(* when it was read, and whether the transaction found no duplicate.       *)
Subscribing == [event : Nat, linked : BOOLEAN, clear : BOOLEAN]

TypeOK ==
  /\ upload \in [Uploads -> {"NEW", "STORED", "REJECTED", "DONE", "DEAD"}]
  /\ blobs \subseteq Uploads
  /\ queue \in Seq(Files)
  /\ status \in [Files -> JobStatus]
  /\ source \in [Files -> Uploads \cup {Null}]
  /\ artifacts \in [Files -> Nat] /\ readings \in [Files -> Nat]
  /\ candidate \in [Rows -> Lifecycle]
  /\ reading \in [Readers -> Reading \cup {Null}]
  /\ publishing \in [Publishers -> Publishing \cup {Null}]
  /\ events \in Seq(Rows) /\ linked \subseteq Rows
  /\ subscribing \in [Subscribers -> Subscribing \cup {Null}]
  /\ submissions \in Seq(Nat)
  /\ crashes \in 0 .. MaxCrashes /\ lost \subseteq Files

Init ==
  /\ upload = [u \in Uploads |-> "NEW"] /\ blobs = {}
  /\ queue = <<>> /\ status = [f \in Files |-> "NONE"]
  /\ source = [f \in Files |-> Null]
  /\ artifacts = [f \in Files |-> 0] /\ readings = [f \in Files |-> 0]
  /\ candidate = [r \in Rows |-> "NONE"]
  /\ reading = [w \in Readers |-> Null]
  /\ publishing = [w \in Publishers |-> Null]
  /\ events = <<>> /\ linked = {}
  /\ subscribing = [w \in Subscribers |-> Null] /\ submissions = <<>>
  /\ crashes = 0 /\ lost = {}

-----------------------------------------------------------------------------
(* Upload *)

(* No job with this checksum is found: the bytes move to their final place. *)
StoreUpload(u) ==
  /\ upload[u] = "NEW" /\ status[FileOf[u]] = "NONE"
  /\ upload' = [upload EXCEPT ![u] = "STORED"] /\ blobs' = blobs \cup {u}
  /\ UNCHANGED <<queue, source, knowledge, workers, outcome, deaths>>

(* The existing job is the answer. *)
AnswerDuplicate(u) ==
  /\ upload[u] = "NEW" /\ status[FileOf[u]] # "NONE"
  /\ upload' = [upload EXCEPT ![u] = "DONE"]
  /\ UNCHANGED <<blobs, queue, source, knowledge, workers, outcome, deaths>>

(* idempotencyKey is unique. *)
KeyIsFree(u) == status[FileOf[u]] = "NONE"

(* Source document and queued job, in one transaction.                     *)
Enqueue(u) ==
  LET f == FileOf[u] IN
  /\ upload[u] = "STORED" /\ KeyIsFree(u)
  /\ upload' = [upload EXCEPT ![u] = "DONE"]
  /\ queue' = Append(queue, f)
  /\ status' = [status EXCEPT ![f] = "QUEUED"]
  /\ source' = [source EXCEPT ![f] = u]
  /\ UNCHANGED <<blobs, artifacts, readings, candidate, workers, outcome, deaths>>

(* The transaction fails: on the unique key, or for any other reason.      *)
RejectEnqueue(u) ==
  /\ upload[u] = "STORED"
  /\ upload' = [upload EXCEPT ![u] = "REJECTED"]
  /\ UNCHANGED <<blobs, queue, source, knowledge, workers, outcome, deaths>>

(* What a rejected upload stored is what it deletes.                       *)
DisposedBug(u) == {v \in Uploads : FileOf[v] = FileOf[u]}
Disposed(u) == {u}

DeleteFinal(u) ==
  /\ upload[u] = "REJECTED"
  /\ upload' = [upload EXCEPT ![u] = "DONE"] /\ blobs' = blobs \ Disposed(u)
  /\ UNCHANGED <<queue, source, knowledge, workers, outcome, deaths>>

-----------------------------------------------------------------------------
(* Claims.  The oldest eligible job is taken, except that a row another    *)
(* worker's transaction holds is skipped.                                  *)

Busy(w, f) ==
  \/ w \in Readers /\ reading[w] # Null /\ reading[w].job = f
  \/ w \in Publishers /\ publishing[w] # Null /\ publishing[w].job = f

Older(f, g) == \E i, j \in DOMAIN queue : i < j /\ queue[i] = f /\ queue[j] = g

NextJob(f, w, eligible) ==
  /\ f \in eligible
  /\ \A g \in eligible : Older(g, f) => \E v \in Workers \ {w} : Busy(v, g)

(* Extraction and validation move the job on when they claim it.           *)
ClaimedBug(f, to) == status
Claimed(f, to) == [status EXCEPT ![f] = to]

Claim(w, from, to) == \E f \in Files :
  /\ reading[w] = Null
  /\ NextJob(f, w, {g \in Files : status[g] = from})
  /\ status' = Claimed(f, to)
  /\ reading' = [reading EXCEPT ![w] = [job |-> f, looked |-> FALSE, found |-> FALSE]]
  /\ UNCHANGED <<intake, artifacts, readings, candidate, publishing, subscribing,
                 outcome, deaths>>

ClaimExtraction(w) == w \in Extractors /\ Claim(w, "QUEUED", "EXTRACTING")
ClaimUnderstanding(w) == w \in Validators /\ Claim(w, "UNDERSTANDING", "VALIDATING")

(* processOnce asks, inside its transaction, whether the job already has a *)
(* result of the stage.  Extraction has read the file before.              *)
HasResult(w, f) == (IF w \in Extractors THEN artifacts[f] ELSE readings[f]) > 0

Look(w) ==
  /\ reading[w] # Null /\ ~reading[w].looked
  /\ LET f == reading[w].job IN
     /\ w \in Extractors => source[f] \in blobs
     /\ reading' = [reading EXCEPT ![w] =
          [job |-> f, looked |-> TRUE, found |-> HasResult(w, f)]]
  /\ UNCHANGED <<intake, knowledge, publishing, subscribing, outcome, deaths>>

Extract(w) ==
  /\ w \in Extractors /\ reading[w] # Null /\ reading[w].looked
  /\ LET f == reading[w].job IN
     /\ artifacts' = IF reading[w].found THEN artifacts
                                         ELSE [artifacts EXCEPT ![f] = @ + 1]
     /\ status' = [status EXCEPT ![f] = "UNDERSTANDING"]
  /\ reading' = [reading EXCEPT ![w] = Null]
  /\ UNCHANGED <<intake, readings, candidate, publishing, subscribing, outcome, deaths>>

VerdictBug(r) == IF r \in Valid THEN "VALIDATED" ELSE "CANDIDATE"
Verdict(r) == IF r \in Valid THEN "VALIDATED" ELSE "NEEDS_REVIEW"

Validate(w) ==
  /\ w \in Validators /\ reading[w] # Null /\ reading[w].looked
  /\ LET f == reading[w].job IN
     /\ IF reading[w].found THEN UNCHANGED <<readings, candidate>>
        ELSE /\ readings' = [readings EXCEPT ![f] = @ + 1]
             /\ candidate' = [r \in Rows |->
                  IF r \in RowsOf[f] THEN Verdict(r) ELSE candidate[r]]
     /\ status' = [status EXCEPT ![f] = "NEEDS_REVIEW"]
  /\ reading' = [reading EXCEPT ![w] = Null]
  /\ UNCHANGED <<intake, artifacts, publishing, subscribing, outcome, deaths>>

(* failJob: a file that is missing or cannot be read, no artifact, or a    *)
(* transaction that failed.                                                *)
FailReadingBug(w) ==
  /\ reading[w] # Null
  /\ reading' = [reading EXCEPT ![w] = Null]
  /\ UNCHANGED <<intake, knowledge, publishing, subscribing, outcome, deaths>>

FailReading(w) ==
  /\ reading[w] # Null
  /\ status' = [status EXCEPT ![reading[w].job] = "FAILED"]
  /\ reading' = [reading EXCEPT ![w] = Null]
  /\ UNCHANGED <<intake, artifacts, readings, candidate, publishing, subscribing,
                 outcome, deaths>>

-----------------------------------------------------------------------------
(* Publication *)

Unpublished(f) == {r \in RowsOf[f] : candidate[r] = "VALIDATED" /\ ~HasEvent(r)}

(* The claim leaves the job's status as it is, and reads its candidates.   *)
StatusKeptBug(f) == [status EXCEPT ![f] = "REVIEWING"]
StatusKept(f) == status

ClaimPublication(w) == \E f \in Files :
  /\ publishing[w] = Null
  /\ NextJob(f, w, {g \in Files : status[g] = "NEEDS_REVIEW" /\ Unpublished(g) # {}})
  /\ publishing' = [publishing EXCEPT ![w] =
       [job |-> f, todo |-> {r \in RowsOf[f] : candidate[r] = "VALIDATED"},
        row |-> Null, found |-> FALSE, made |-> <<>>, marked |-> {}]]
  /\ status' = StatusKept(f)
  /\ UNCHANGED <<intake, artifacts, readings, candidate, reading, subscribing,
                 outcome, deaths>>

(* Is there a committed event of revision 1 for the next candidate?  The   *)
(* candidates come by createdAt alone, and those of a job are created in   *)
(* one transaction, milliseconds or less apart: any may be next.           *)
LookForEvent(w) ==
  /\ publishing[w] # Null /\ publishing[w].row = Null
  /\ \E r \in publishing[w].todo :
       publishing' = [publishing EXCEPT ![w] = [@ EXCEPT !.row = r, !.found = HasEvent(r)]]
  /\ UNCHANGED <<intake, knowledge, reading, subscribing, outcome, deaths>>

(* The candidate row is updated, hence locked until the transaction ends.  *)
RowLocked(r, w) == \E v \in Publishers \ {w} :
  publishing[v] # Null /\ r \in publishing[v].marked

PublishCandidate(w) ==
  /\ publishing[w] # Null /\ publishing[w].row # Null
  /\ LET task == publishing[w]
         r == task.row
     IN
     /\ ~RowLocked(r, w)
     /\ publishing' = [publishing EXCEPT ![w] =
          [task EXCEPT !.todo = @ \ {r}, !.row = Null, !.marked = @ \cup {r},
                       !.made = IF task.found THEN @ ELSE Append(@, r)]]
  /\ UNCHANGED <<intake, knowledge, reading, subscribing, outcome, deaths>>

(* The job is PUBLISHED when no candidate of it waits, for review or       *)
(* publication, once this transaction's own updates are counted.           *)
FinalStatusBug(f, marked) ==
  IF \E r \in RowsOf[f] \ marked : candidate[r] = "VALIDATED"
  THEN "NEEDS_REVIEW" ELSE "PUBLISHED"
FinalStatus(f, marked) ==
  IF \E r \in RowsOf[f] \ marked : candidate[r] \in {"NEEDS_REVIEW", "VALIDATED"}
  THEN "NEEDS_REVIEW" ELSE "PUBLISHED"

FinishPublication(w) ==
  /\ publishing[w] # Null /\ publishing[w].todo = {}
  /\ LET task == publishing[w] IN
     /\ events' = events \o task.made
     /\ candidate' = [r \in Rows |->
          IF r \in task.marked THEN "PUBLISHED" ELSE candidate[r]]
     /\ status' = [status EXCEPT ![task.job] = FinalStatus(task.job, task.marked)]
  /\ publishing' = [publishing EXCEPT ![w] = Null]
  /\ UNCHANGED <<intake, artifacts, readings, reading, linked, subscribing,
                 submissions, deaths>>

(* failJob: the transaction was rolled back.                               *)
FailPublication(w) ==
  /\ publishing[w] # Null
  /\ status' = [status EXCEPT ![publishing[w].job] = "FAILED"]
  /\ publishing' = [publishing EXCEPT ![w] = Null]
  /\ UNCHANGED <<intake, artifacts, readings, candidate, reading, subscribing,
                 outcome, deaths>>

-----------------------------------------------------------------------------
(* Submission *)

(* The earliest event without a submission, or one after it while another  *)
(* claim holds it.  Nothing is marked: an event that is skipped comes back. *)
ClaimEvent(w) == \E e \in DOMAIN events :
  /\ subscribing[w] = Null /\ ~HasSubmission(e)
  /\ \A d \in 1 .. e - 1 : HasSubmission(d) \/ \E v \in Subscribers \ {w} :
        subscribing[v] # Null /\ subscribing[v].event = d
  /\ subscribing' = [subscribing EXCEPT ![w] =
       [event |-> e, linked |-> events[e] \in linked, clear |-> FALSE]]
  /\ UNCHANGED <<intake, knowledge, reading, publishing, outcome, deaths>>

(* A submission exists by now, or the price point was not linked.          *)
SkipEvent(w) ==
  /\ subscribing[w] # Null /\ ~subscribing[w].clear
  /\ HasSubmission(subscribing[w].event) \/ ~subscribing[w].linked
  /\ subscribing' = [subscribing EXCEPT ![w] = Null]
  /\ UNCHANGED <<intake, knowledge, reading, publishing, outcome, deaths>>

LookForDuplicate(w) ==
  /\ subscribing[w] # Null /\ ~subscribing[w].clear /\ subscribing[w].linked
  /\ ~HasSubmission(subscribing[w].event)
  /\ subscribing' = [subscribing EXCEPT ![w].clear = TRUE]
  /\ UNCHANGED <<intake, knowledge, reading, publishing, outcome, deaths>>

Submit(w) ==
  /\ subscribing[w] # Null /\ subscribing[w].clear
  /\ submissions' = Append(submissions, subscribing[w].event)
  /\ subscribing' = [subscribing EXCEPT ![w] = Null]
  /\ UNCHANGED <<intake, knowledge, reading, publishing, events, linked, deaths>>

(* The transaction fails; the event stays for a later run.                 *)
FailSubmission(w) ==
  /\ subscribing[w] # Null /\ subscribing[w].clear
  /\ subscribing' = [subscribing EXCEPT ![w] = Null]
  /\ UNCHANGED <<intake, knowledge, reading, publishing, outcome, deaths>>

(* Somebody gives a price point its resource.                              *)
LinkResource(r) ==
  /\ candidate[r] \in {"VALIDATED", "PUBLISHED"} /\ r \in Linkable \ linked
  /\ linked' = linked \cup {r}
  /\ UNCHANGED <<intake, knowledge, workers, events, submissions, deaths>>

-----------------------------------------------------------------------------
(* A process dies: what it held in memory is gone, an open transaction is  *)
(* rolled back, what was committed or stored stays.                        *)
Dies ==
  /\ crashes < MaxCrashes /\ crashes' = crashes + 1
  /\ UNCHANGED <<blobs, queue, source, knowledge, outcome>>

CrashUpload(u) ==
  /\ Dies /\ upload[u] \in {"STORED", "REJECTED"}
  /\ upload' = [upload EXCEPT ![u] = "DEAD"] /\ UNCHANGED <<workers, lost>>

CrashReader(w) ==
  /\ Dies /\ reading[w] # Null
  /\ lost' = lost \cup {reading[w].job}
  /\ reading' = [reading EXCEPT ![w] = Null]
  /\ UNCHANGED <<upload, publishing, subscribing>>

CrashPublisher(w) ==
  /\ Dies /\ publishing[w] # Null
  /\ publishing' = [publishing EXCEPT ![w] = Null]
  /\ UNCHANGED <<upload, reading, subscribing, lost>>

CrashSubscriber(w) ==
  /\ Dies /\ subscribing[w] # Null
  /\ subscribing' = [subscribing EXCEPT ![w] = Null]
  /\ UNCHANGED <<upload, reading, publishing, lost>>

-----------------------------------------------------------------------------
ReaderRun(w) ==
  ClaimExtraction(w) \/ ClaimUnderstanding(w) \/ Look(w) \/ Extract(w) \/ Validate(w)
  \/ FailReading(w)

PublisherRun(w) ==
  ClaimPublication(w) \/ LookForEvent(w) \/ PublishCandidate(w)
  \/ FinishPublication(w) \/ FailPublication(w)

SubscriberRun(w) ==
  ClaimEvent(w) \/ SkipEvent(w) \/ LookForDuplicate(w) \/ Submit(w) \/ FailSubmission(w)

Next ==
  \/ \E u \in Uploads : StoreUpload(u) \/ AnswerDuplicate(u) \/ Enqueue(u)
                        \/ RejectEnqueue(u) \/ DeleteFinal(u)
  \/ \E w \in Readers : ReaderRun(w)
  \/ \E w \in Publishers : PublisherRun(w)
  \/ \E w \in Subscribers : SubscriberRun(w)
  \/ \E r \in Rows : LinkResource(r)
  \/ \E u \in Uploads \cap Mortal : CrashUpload(u)
  \/ \E w \in Readers \cap Mortal : CrashReader(w)
  \/ \E w \in Publishers \cap Mortal : CrashPublisher(w)
  \/ \E w \in Subscribers \cap Mortal : CrashSubscriber(w)

Spec == Init /\ [][Next]_vars

(* The timers keep starting runs and a run that lives keeps going.  What   *)
(* users do, and who dies, is not fair.                                    *)
Polling ==
  /\ \A w \in Readers : WF_vars(ReaderRun(w))
  /\ \A w \in Publishers : WF_vars(PublisherRun(w))

FairSpec == Spec /\ Polling

-----------------------------------------------------------------------------
(* Properties *)

(* A job's source document always has its bytes in storage, however        *)
(* uploads of the same file overlap and clean up after each other; bytes   *)
(* without a document are those of an upload that is still running or died *)
(* (enqueueUpload compensates by hand, no transaction spans both).         *)
DocumentsHaveTheirBytes ==
  /\ \A f \in Files : source[f] # Null => source[f] \in blobs
  /\ \A u \in blobs : source[FileOf[u]] = u \/ upload[u] \in {"STORED", "REJECTED", "DEAD"}

(* A job gets one artifact, and its rows become candidates once, after it, *)
(* although any number of workers poll for it.                             *)
ReadOnce ==
  \A f \in Files : readings[f] <= artifacts[f] /\ artifacts[f] <= 1

(* Publication is whole whatever fails, dies or overlaps: a candidate is   *)
(* PUBLISHED exactly when an event carries it, only rows that passed       *)
(* validation are, and a job that says PUBLISHED left none of its rows     *)
(* behind.                                                                 *)
PublicationWhole ==
  /\ \A r \in Rows : candidate[r] = "PUBLISHED" <=> HasEvent(r)
  /\ \A r \in Rows : HasEvent(r) => r \in Valid
  /\ \A f \in Files : status[f] = "PUBLISHED" =>
       \A r \in RowsOf[f] : candidate[r] = "PUBLISHED"

(* A candidate becomes one knowledge event, and an event one price         *)
(* submission.  The code keeps neither when runs of a stage overlap: the   *)
(* claims mark nothing, and no unique key catches the second write.        *)
OneEventPerCandidate ==
  \A d, e \in DOMAIN events : events[d] = events[e] => d = e
OneSubmissionPerEvent ==
  \A s, t \in DOMAIN submissions : submissions[s] = submissions[t] => s = t

(* What the tests of both workers say, each of its own ("is idempotent     *)
(* when processOnce is called twice"), weakened to one of the two, so that *)
(* a behaviour that refutes it refutes both.                               *)
OnceDespiteOverlap == OneEventPerCandidate \/ OneSubmissionPerEvent

(* What the code does ensure: a candidate has no more events, and an event *)
(* no more submissions, than runs of the stage may overlap, however often  *)
(* the work is claimed, skipped, failed on or claimed again after a death. *)
(* Runs that do not overlap write nothing twice.                           *)
EventsOf(r) == {e \in DOMAIN events : events[e] = r}
SubmissionsOf(e) == {s \in DOMAIN submissions : submissions[s] = e}
RepeatsBoundedByOverlap ==
  /\ \A r \in Rows : Cardinality(EventsOf(r)) <= Cardinality(Publishers)
  /\ \A e \in DOMAIN events : Cardinality(SubmissionsOf(e)) <= Cardinality(Subscribers)

Resting == {"NONE", "NEEDS_REVIEW", "PUBLISHED", "FAILED"}

(* Every job reaches review or failure, unless a reader died with it: no   *)
(* claim is ever taken back, and nothing else may strand a job.            *)
JobsComeToRest == \A f \in Files : []<>(status[f] \in Resting \/ f \in lost)

(* No validated row waits for its publication for ever, although           *)
(* publishers may die and skip each other's jobs, unless a transaction     *)
(* failed and took the job with it.                                        *)
ValidRowsPublished == \A f \in Files : \A r \in RowsOf[f] \cap Valid :
  []<>(candidate[r] # "VALIDATED" \/ status[f] = "FAILED")

(* What a file went through, as its uploader and the readers of the        *)
(* knowledge see it: whatever overlaps, dies or fails among the workers,   *)
(* every step is one of SpreadsheetIntake, or none.                        *)
Waiting == {"QUEUED", "EXTRACTING", "UNDERSTANDING", "VALIDATING"}
Intake == INSTANCE SpreadsheetIntake WITH
  standing <- [f \in Files |-> IF status[f] = "NONE" THEN "UNKNOWN"
                               ELSE IF status[f] \in Waiting THEN "WAITING"
                               ELSE status[f]],
  document <- [f \in Files |-> IF source[f] \in blobs THEN source[f] ELSE Null],
  read <- artifacts,
  judged <- readings,
  ready <- {r \in Rows : candidate[r] = "VALIDATED"},
  held <- {r \in Rows : candidate[r] = "NEEDS_REVIEW"},
  knowledge <- events
ImplementsIntake == Intake!Spec

=============================================================================
