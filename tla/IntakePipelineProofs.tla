------------------------ MODULE IntakePipelineProofs ------------------------
(* Theorems about IntakePipeline, for every value of its constants.        *)
EXTENDS IntakePipeline, FiniteSetTheorems, TLAPS

-----------------------------------------------------------------------------
(* The inductive invariant *)

(* The upload whose document a job has is done, so nobody cleans it up.    *)
Stored ==
  /\ \A f \in Files : source[f] # Null =>
       FileOf[source[f]] = f /\ upload[source[f]] = "DONE"
  /\ \A f \in Files : status[f] = "NONE" => source[f] = Null
  /\ \A u \in Uploads : upload[u] = "STORED" => u \in blobs
  /\ DocumentsHaveTheirBytes

(* A status says who may hold the job, and how far it has come.            *)
ReaderHolds(w) ==
  /\ ~reading[w].found
  /\ status[reading[w].job] = IF w \in Extractors THEN "EXTRACTING" ELSE "VALIDATING"

HeldByOne ==
  /\ \A w \in Readers : reading[w] # Null => ReaderHolds(w)
  /\ \A v, w \in Readers :
       reading[v] # Null /\ reading[w] # Null /\ reading[v].job = reading[w].job => v = w

Stage(f) ==
  CASE status[f] \in {"NONE", "QUEUED", "EXTRACTING"} -> artifacts[f] = 0 /\ readings[f] = 0
    [] status[f] \in {"UNDERSTANDING", "VALIDATING"}  -> artifacts[f] = 1 /\ readings[f] = 0
    [] status[f] \in {"NEEDS_REVIEW", "PUBLISHED"}    -> artifacts[f] = 1 /\ readings[f] = 1
    [] OTHER -> readings[f] <= artifacts[f] /\ artifacts[f] <= 1

Staged ==
  /\ \A f \in Files : Stage(f)
  /\ \A w \in Publishers : publishing[w] # Null =>
       LET f == publishing[w].job IN
       /\ status[f] \in {"NEEDS_REVIEW", "PUBLISHED", "FAILED"}
       /\ artifacts[f] = 1 /\ readings[f] = 1

(* Candidates exist from the reading of the file on.                       *)
CandidatesRead ==
  /\ \A f \in Files : \A r \in RowsOf[f] : candidate[r] = "NONE" <=> readings[f] = 0
  /\ \A r \in Rows : candidate[r] \in {"VALIDATED", "PUBLISHED"} => r \in Valid

(* A publisher works on validated rows of its job, and has an event, its   *)
(* own or a committed one, for each row it marked.                         *)
Made(task, r) == \E i \in DOMAIN task.made : task.made[i] = r
TaskOK(task) ==
  /\ task.todo \cup task.marked \subseteq RowsOf[task.job]
  /\ \A r \in task.todo \cup task.marked : candidate[r] \in {"VALIDATED", "PUBLISHED"}
  /\ task.row # Null => task.row \in task.todo
  /\ task.row # Null /\ task.found => HasEvent(task.row)
  /\ \A r \in task.marked : Made(task, r) \/ HasEvent(r)
  /\ \A i \in DOMAIN task.made : task.made[i] \in task.marked

Working == \A w \in Publishers : publishing[w] # Null => TaskOK(publishing[w])

IInv ==
  /\ TypeOK
  /\ Stored
  /\ HeldByOne
  /\ Staged
  /\ CandidatesRead
  /\ Working
  /\ PublicationWhole

-----------------------------------------------------------------------------
(* Data *)

(* The rows of a file are rows.                                            *)
LEMMA RowsOfFile == ASSUME NEW f \in Files PROVE RowsOf[f] \subseteq Rows
  BY ContentsAssumption

(* A row belongs to one file.                                              *)
LEMMA RowsApart ==
  ASSUME NEW f \in Files, NEW g \in Files, NEW r \in RowsOf[f], r \in RowsOf[g]
  PROVE  f = g
  BY ContentsAssumption

(* A worker that is busy has a task of its kind.                           *)
LEMMA JobTypes ==
  ASSUME TypeOK
  PROVE  /\ \A w \in Readers : reading[w] # Null => reading[w] \in Reading
         /\ \A w \in Publishers : publishing[w] # Null => publishing[w] \in Publishing
         /\ \A w \in Subscribers : subscribing[w] # Null => subscribing[w] \in Subscribing
  BY DEF TypeOK

-----------------------------------------------------------------------------
(* Types *)

(* Every step keeps the types.                                             *)
LEMMA TypeOfStep == TypeOK /\ [Next]_vars => TypeOK'
<1> SUFFICES ASSUME TypeOK, [Next]_vars PROVE TypeOK'
  OBVIOUS
<1>1. ASSUME NEW u \in Uploads,
             \/ StoreUpload(u) \/ AnswerDuplicate(u) \/ Enqueue(u)
             \/ RejectEnqueue(u) \/ DeleteFinal(u)
      PROVE  TypeOK'
  <2>1. FileOf[u] \in Files
    BY ContentsAssumption
  <2>2. CASE Enqueue(u)
    <3>1. /\ queue' \in Seq(Files) /\ status' \in [Files -> JobStatus]
          /\ source' \in [Files -> Uploads \cup {Null}]
      BY <2>1, <2>2 DEF Enqueue, TypeOK, JobStatus
    <3> QED
      BY <2>2, <3>1 DEF Enqueue, TypeOK, workers, outcome, deaths
  <2>3. CASE StoreUpload(u) \/ DeleteFinal(u)
    BY <2>3 DEF StoreUpload, DeleteFinal, Disposed, TypeOK, knowledge, workers, outcome, deaths
  <2>4. CASE AnswerDuplicate(u) \/ RejectEnqueue(u)
    BY <2>4 DEF AnswerDuplicate, RejectEnqueue, TypeOK, knowledge, workers, outcome, deaths
  <2> QED
    BY <1>1, <2>2, <2>3, <2>4
<1>2. ASSUME NEW w \in Readers, ReaderRun(w) PROVE TypeOK'
  <2>1. ASSUME NEW to \in {"EXTRACTING", "VALIDATING"}, NEW from, Claim(w, from, to)
        PROVE  TypeOK'
    BY <2>1 DEF Claim, Claimed, TypeOK, JobStatus, Reading, intake, outcome, deaths
  <2>2. CASE Look(w)
    <3>1. reading' \in [Readers -> Reading \cup {Null}]
      <4>1. reading[w].job \in Files
        BY <2>2, JobTypes DEF Look, Reading
      <4>2. HasResult(w, reading[w].job) \in BOOLEAN
        BY DEF HasResult
      <4> QED
        BY <2>2, <4>1, <4>2 DEF Look, TypeOK, Reading
    <3> QED
      BY <2>2, <3>1 DEF Look, TypeOK, intake, knowledge, outcome, deaths
  <2>3. CASE Extract(w)
    BY <2>3, JobTypes DEF Extract, TypeOK, JobStatus, Reading, intake, outcome, deaths
  <2>4. CASE Validate(w)
    <3>1. readings' \in [Files -> Nat] /\ candidate' \in [Rows -> Lifecycle]
      <4>1. reading[w].job \in Files
        BY <2>4, JobTypes DEF Validate, Reading
      <4>2. \A r \in Rows : Verdict(r) \in Lifecycle
        BY DEF Verdict, Lifecycle
      <4>3. CASE reading[w].found
        BY <2>4, <4>3 DEF Validate, TypeOK
      <4>4. CASE ~reading[w].found
        <5>1. readings' = [readings EXCEPT ![reading[w].job] = @ + 1]
          BY <2>4, <4>4 DEF Validate
        <5>2. candidate' = [r \in Rows |->
                IF r \in RowsOf[reading[w].job] THEN Verdict(r) ELSE candidate[r]]
          BY <2>4, <4>4 DEF Validate
        <5> QED
          BY <4>1, <4>2, <5>1, <5>2 DEF TypeOK
      <4> QED
        BY <4>3, <4>4
    <3> QED
      BY <2>4, <3>1, JobTypes DEF Validate, TypeOK, JobStatus, Reading, intake, outcome, deaths
  <2>5. CASE FailReading(w)
    BY <2>5 DEF FailReading, TypeOK, JobStatus, intake, outcome, deaths
  <2> QED
    BY <1>2, <2>1, <2>2, <2>3, <2>4, <2>5
       DEF ReaderRun, ClaimExtraction, ClaimUnderstanding
<1>3. ASSUME NEW w \in Publishers, PublisherRun(w) PROVE TypeOK'
  <2>1. CASE ClaimPublication(w)
    <3>1. publishing' \in [Publishers -> Publishing \cup {Null}]
      BY <2>1, RowsOfFile DEF ClaimPublication, TypeOK, Publishing
    <3> QED
      BY <2>1, <3>1 DEF ClaimPublication, StatusKept, TypeOK, intake, outcome, deaths
  <2>2. CASE LookForEvent(w)
    <3>1. publishing' \in [Publishers -> Publishing \cup {Null}]
      <4>1. publishing[w] \in Publishing
        BY <2>2, JobTypes DEF LookForEvent
      <4>2. \A r : HasEvent(r) \in BOOLEAN
        BY DEF HasEvent
      <4>3. PICK r \in publishing[w].todo : publishing' =
              [publishing EXCEPT ![w] = [@ EXCEPT !.row = r, !.found = HasEvent(r)]]
        BY <2>2 DEF LookForEvent
      <4>4. [publishing[w] EXCEPT !.row = r, !.found = HasEvent(r)] \in Publishing
        BY <4>1, <4>2 DEF Publishing
      <4> QED
        BY <4>3, <4>4 DEF TypeOK
    <3> QED
      BY <2>2, <3>1 DEF LookForEvent, TypeOK, intake, knowledge, outcome, deaths
  <2>3. CASE PublishCandidate(w)
    <3>1. publishing' \in [Publishers -> Publishing \cup {Null}]
      <4> DEFINE task == publishing[w]
                 r == task.row
                 made == IF task.found THEN task.made ELSE Append(task.made, r)
                 next == [task EXCEPT !.todo = @ \ {r}, !.row = Null,
                                      !.marked = @ \cup {r}, !.made = made]
      <4>1. task \in Publishing /\ r \in Rows
        BY <2>3, JobTypes DEF PublishCandidate, Publishing
      <4>2. made \in Seq(Rows)
        BY <4>1 DEF Publishing
      <4>3. next \in Publishing
        <5> HIDE DEF made, r
        <5> QED
          BY <4>1, <4>2 DEF Publishing
      <4>4. publishing' = [publishing EXCEPT ![w] = next]
        BY <2>3 DEF PublishCandidate
      <4> HIDE DEF next
      <4> QED
        BY <4>3, <4>4 DEF TypeOK
    <3> QED
      BY <2>3, <3>1 DEF PublishCandidate, TypeOK, intake, knowledge, outcome, deaths
  <2>4. CASE FinishPublication(w)
    <3>1. publishing[w] \in Publishing
      BY <2>4, JobTypes DEF FinishPublication
    <3>2. events' \in Seq(Rows)
      BY <2>4, <3>1 DEF FinishPublication, TypeOK, Publishing
    <3> QED
      BY <2>4, <3>1, <3>2
         DEF FinishPublication, FinalStatus, TypeOK, JobStatus, Lifecycle, Publishing,
             intake, deaths
  <2>5. CASE FailPublication(w)
    BY <2>5 DEF FailPublication, TypeOK, JobStatus, intake, outcome, deaths
  <2> QED
    BY <1>3, <2>1, <2>2, <2>3, <2>4, <2>5 DEF PublisherRun
<1>4. ASSUME NEW w \in Subscribers, SubscriberRun(w) PROVE TypeOK'
  <2>1. CASE ClaimEvent(w)
    BY <2>1 DEF ClaimEvent, TypeOK, Subscribing, intake, knowledge, outcome, deaths
  <2>2. CASE SkipEvent(w) \/ FailSubmission(w)
    BY <2>2 DEF SkipEvent, FailSubmission, TypeOK, intake, knowledge, outcome, deaths
  <2>3. CASE LookForDuplicate(w)
    BY <2>3 DEF LookForDuplicate, TypeOK, Subscribing, intake, knowledge, outcome, deaths
  <2>4. CASE Submit(w)
    BY <2>4, JobTypes DEF Submit, TypeOK, Subscribing, intake, knowledge, deaths
  <2> QED
    BY <1>4, <2>1, <2>2, <2>3, <2>4 DEF SubscriberRun
<1>5. ASSUME NEW r \in Rows, LinkResource(r) PROVE TypeOK'
  BY <1>5 DEF LinkResource, TypeOK, intake, knowledge, workers, deaths
<1>6. ASSUME NEW u \in Uploads, CrashUpload(u) PROVE TypeOK'
  BY <1>6, WorkersAssumption DEF CrashUpload, Dies, TypeOK, workers, knowledge, outcome
<1>7. ASSUME NEW w \in Readers, CrashReader(w) PROVE TypeOK'
  BY <1>7, WorkersAssumption, JobTypes DEF CrashReader, Dies, TypeOK, Reading, knowledge, outcome
<1>8. ASSUME NEW w \in Publishers, CrashPublisher(w) PROVE TypeOK'
  BY <1>8, WorkersAssumption DEF CrashPublisher, Dies, TypeOK, knowledge, outcome
<1>9. ASSUME NEW w \in Subscribers, CrashSubscriber(w) PROVE TypeOK'
  BY <1>9, WorkersAssumption DEF CrashSubscriber, Dies, TypeOK, knowledge, outcome
<1>10. ASSUME UNCHANGED vars PROVE TypeOK'
  BY <1>10 DEF vars, TypeOK
<1> QED
  BY <1>1, <1>2, <1>3, <1>4, <1>5, <1>6, <1>7, <1>8, <1>9, <1>10 DEF Next

-----------------------------------------------------------------------------
(* What each part of the invariant depends on *)

(* Bytes once stored stay while nobody uploads or creates a job.           *)
LEMMA StoredKept ==
  ASSUME Stored, UNCHANGED <<upload, blobs, source>>,
         \A f \in Files : status'[f] = "NONE" => status[f] = "NONE"
  PROVE  Stored'
  BY DEF Stored, DocumentsHaveTheirBytes

(* A step that leaves the readers and the status of their jobs alone       *)
(* leaves each job with its reader.                                        *)
LEMMA HeldKept ==
  ASSUME HeldByOne, UNCHANGED reading,
         \A w \in Readers : reading[w] # Null => status'[reading[w].job] = status[reading[w].job]
  PROVE  HeldByOne'
  BY DEF HeldByOne, ReaderHolds

(* Candidates stay read while neither they nor the readings change.        *)
LEMMA CandidatesKept ==
  ASSUME CandidatesRead, UNCHANGED <<candidate, readings>> PROVE CandidatesRead'
  BY DEF CandidatesRead

(* What publishers hold stays true while they, the candidates and the      *)
(* events rest.                                                            *)
LEMMA WorkingKept ==
  ASSUME Working, UNCHANGED <<publishing, candidate, events>> PROVE Working'
  BY DEF Working, TaskOK, Made, HasEvent

(* Publication stays whole while rows and events rest and no job becomes   *)
(* published.                                                              *)
LEMMA WholeKept ==
  ASSUME PublicationWhole, UNCHANGED <<candidate, events>>,
         \A f \in Files : status'[f] = "PUBLISHED" => status[f] = "PUBLISHED"
  PROVE  PublicationWhole'
  BY DEF PublicationWhole, HasEvent

-----------------------------------------------------------------------------
(* Uploads *)

(* Whatever the steps of overlapping uploads, the document that is made is *)
(* that of an upload whose own bytes lie in storage.                       *)
LEMMA UploadStoredStep ==
  ASSUME TypeOK, Stored, NEW u \in Uploads,
         \/ StoreUpload(u) \/ AnswerDuplicate(u) \/ Enqueue(u)
         \/ RejectEnqueue(u) \/ DeleteFinal(u) \/ CrashUpload(u)
  PROVE  Stored'
<1>1. FileOf \in [Uploads -> Files] /\ Null \notin Uploads
  BY ContentsAssumption, NullAssumption
<1>2. CASE Enqueue(u)
  <2>1. source[FileOf[u]] = Null /\ source'[FileOf[u]] = u /\ upload'[u] = "DONE"
    BY <1>1, <1>2 DEF Enqueue, KeyIsFree, Stored, TypeOK
  <2> QED
    BY <1>1, <1>2, <2>1 DEF Enqueue, Stored, DocumentsHaveTheirBytes, TypeOK
<1>3. CASE StoreUpload(u)
  BY <1>1, <1>3 DEF StoreUpload, Stored, DocumentsHaveTheirBytes, TypeOK, knowledge
<1>4. CASE DeleteFinal(u)
  BY <1>1, <1>4 DEF DeleteFinal, Disposed, Stored, DocumentsHaveTheirBytes, TypeOK, knowledge
<1>5. CASE AnswerDuplicate(u)
  <2>1. u \notin blobs \/ source[FileOf[u]] = u
    BY <1>5 DEF AnswerDuplicate, Stored, DocumentsHaveTheirBytes, TypeOK
  <2> QED
    BY <1>1, <1>5, <2>1 DEF AnswerDuplicate, Stored, DocumentsHaveTheirBytes, TypeOK, knowledge
<1>6. CASE RejectEnqueue(u)
  BY <1>1, <1>6 DEF RejectEnqueue, Stored, DocumentsHaveTheirBytes, TypeOK, knowledge
<1>7. CASE CrashUpload(u)
  BY <1>1, <1>7 DEF CrashUpload, Dies, Stored, DocumentsHaveTheirBytes, TypeOK, knowledge
<1> QED
  BY <1>2, <1>3, <1>4, <1>5, <1>6, <1>7

(* An upload touches no job but the one it makes.                          *)
LEMMA UploadRestStep ==
  ASSUME IInv, NEW u \in Uploads,
         \/ StoreUpload(u) \/ AnswerDuplicate(u) \/ Enqueue(u)
         \/ RejectEnqueue(u) \/ DeleteFinal(u) \/ CrashUpload(u)
  PROVE  HeldByOne' /\ Staged' /\ CandidatesRead' /\ Working' /\ PublicationWhole'
<1>1. UNCHANGED <<artifacts, readings, candidate, reading, publishing, events>>
  BY DEF StoreUpload, AnswerDuplicate, Enqueue, RejectEnqueue, DeleteFinal, CrashUpload, Dies,
         knowledge, workers, outcome
<1>2. \/ UNCHANGED status
      \/ /\ status[FileOf[u]] = "NONE" /\ FileOf[u] \in Files
         /\ status' = [status EXCEPT ![FileOf[u]] = "QUEUED"]
  BY ContentsAssumption
     DEF StoreUpload, AnswerDuplicate, Enqueue, KeyIsFree, RejectEnqueue, DeleteFinal,
         CrashUpload, Dies, knowledge
<1>3. HeldByOne'
  <2>1. \A w \in Readers : reading[w] # Null =>
          reading[w].job \in Files /\ status[reading[w].job] # "NONE"
    BY JobTypes DEF IInv, HeldByOne, ReaderHolds, Reading
  <2>2. \A w \in Readers : reading[w] # Null =>
          status'[reading[w].job] = status[reading[w].job]
    BY <1>2, <2>1 DEF IInv, TypeOK
  <2> QED
    BY <1>1, <2>2, HeldKept DEF IInv
<1>4. Staged'
  <2>1. \A f \in Files : Stage(f)'
    BY <1>1, <1>2 DEF IInv, Staged, Stage, TypeOK
  <2>2. \A w \in Publishers : publishing[w] # Null =>
          publishing[w].job \in Files /\ status'[publishing[w].job] = status[publishing[w].job]
    BY <1>2, JobTypes DEF IInv, Staged, Publishing, TypeOK
  <2> QED
    BY <1>1, <2>1, <2>2 DEF IInv, Staged
<1>5. \A f \in Files : status'[f] = "PUBLISHED" => status[f] = "PUBLISHED"
  BY <1>2 DEF IInv, TypeOK
<1> QED
  BY <1>1, <1>3, <1>4, <1>5, CandidatesKept, WorkingKept, WholeKept DEF IInv

-----------------------------------------------------------------------------
(* Extraction and validation *)

(* A job a reader may claim is held by no reader.                          *)
LEMMA ClaimStep ==
  ASSUME IInv, NEW w \in Readers,
         \/ w \in Extractors /\ Claim(w, "QUEUED", "EXTRACTING")
         \/ w \in Validators /\ Claim(w, "UNDERSTANDING", "VALIDATING")
  PROVE  IInv'
<1> DEFINE from == IF w \in Extractors THEN "QUEUED" ELSE "UNDERSTANDING"
           to == IF w \in Extractors THEN "EXTRACTING" ELSE "VALIDATING"
<1>1. PICK f \in Files :
        /\ status[f] = from /\ status' = [status EXCEPT ![f] = to]
        /\ reading[w] = Null
        /\ reading' = [reading EXCEPT ![w] = [job |-> f, looked |-> FALSE, found |-> FALSE]]
        /\ UNCHANGED <<intake, artifacts, readings, candidate, publishing, subscribing,
                       outcome, deaths>>
  BY WorkersAssumption DEF Claim, Claimed, NextJob
<1>2. TypeOK'
  BY <1>1 DEF IInv, TypeOK, JobStatus, Reading, intake, outcome, deaths
<1>3. Stored'
  BY <1>1, StoredKept DEF IInv, TypeOK, intake
<1>4. HeldByOne'
  <2>1. reading'[w] = [job |-> f, looked |-> FALSE, found |-> FALSE]
        /\ \A v \in Readers \ {w} : reading'[v] = reading[v]
    BY <1>1 DEF IInv, TypeOK
  <2>2. \A v \in Readers \ {w} : reading[v] # Null =>
          /\ reading[v].job \in Files /\ reading[v].job # f
          /\ status'[reading[v].job] = status[reading[v].job]
    BY <1>1, JobTypes DEF IInv, HeldByOne, ReaderHolds, Reading, TypeOK
  <2>3. status'[f] = to
    BY <1>1 DEF IInv, TypeOK
  <2> QED
    BY <2>1, <2>2, <2>3 DEF IInv, HeldByOne, ReaderHolds
<1>5. Staged'
  <2>1. \A g \in Files : Stage(g)'
    BY <1>1 DEF IInv, Staged, Stage, TypeOK
  <2>2. \A v \in Publishers : publishing[v] # Null =>
          publishing[v].job \in Files /\ status'[publishing[v].job] = status[publishing[v].job]
    BY <1>1, JobTypes DEF IInv, Staged, Publishing, TypeOK
  <2> QED
    BY <1>1, <2>1, <2>2 DEF IInv, Staged
<1>6. CandidatesRead' /\ Working' /\ PublicationWhole'
  BY <1>1, CandidatesKept, WorkingKept, WholeKept DEF IInv, TypeOK, outcome
<1> QED
  BY <1>2, <1>3, <1>4, <1>5, <1>6 DEF IInv

(* The job a reader holds has no result of the stage: looking finds none.  *)
LEMMA LookStep ==
  ASSUME IInv, TypeOK', NEW w \in Readers, Look(w) PROVE IInv'
<1> DEFINE f == reading[w].job
<1>1. /\ reading[w] # Null /\ f \in Files
      /\ reading' = [reading EXCEPT ![w] =
                       [job |-> f, looked |-> TRUE, found |-> HasResult(w, f)]]
      /\ UNCHANGED <<intake, knowledge, publishing, subscribing, outcome, deaths>>
  BY JobTypes DEF IInv, Look, Reading
<1>2. ~HasResult(w, f)
  BY <1>1 DEF IInv, HeldByOne, ReaderHolds, Staged, Stage, HasResult
<1>3. HeldByOne'
  <2>1. /\ reading'[w].job = f /\ ~reading'[w].found
        /\ \A v \in Readers \ {w} : reading'[v] = reading[v]
    BY <1>1, <1>2 DEF IInv, TypeOK
  <2> QED
    BY <1>1, <2>1 DEF IInv, HeldByOne, ReaderHolds, knowledge
<1>4. Staged'
  BY <1>1 DEF IInv, Staged, Stage, knowledge
<1>5. Stored' /\ CandidatesRead' /\ Working' /\ PublicationWhole'
  BY <1>1, StoredKept, CandidatesKept, WorkingKept, WholeKept
     DEF IInv, intake, knowledge, outcome
<1> QED
  BY <1>3, <1>4, <1>5 DEF IInv

(* The artifact is made while no other run can hold the job.               *)
LEMMA ExtractStep ==
  ASSUME IInv, TypeOK', NEW w \in Readers, Extract(w) PROVE IInv'
<1> DEFINE f == reading[w].job
<1>1. /\ w \in Extractors /\ reading[w] # Null /\ f \in Files
      /\ ~reading[w].found /\ status[f] = "EXTRACTING"
      /\ artifacts[f] = 0 /\ readings[f] = 0
  BY JobTypes DEF Extract, Reading, IInv, HeldByOne, ReaderHolds, Staged, Stage
<1>2. /\ artifacts' = [artifacts EXCEPT ![f] = @ + 1]
      /\ status' = [status EXCEPT ![f] = "UNDERSTANDING"]
      /\ reading' = [reading EXCEPT ![w] = Null]
      /\ UNCHANGED <<intake, readings, candidate, publishing, subscribing, outcome, deaths>>
  BY <1>1 DEF Extract
<1>3. HeldByOne'
  <2>1. \A v \in Readers \ {w} : reading[v] # Null =>
          /\ reading[v].job \in Files /\ reading[v].job # f
          /\ status'[reading[v].job] = status[reading[v].job]
    BY <1>1, <1>2, JobTypes DEF IInv, HeldByOne, Reading, TypeOK
  <2>2. reading'[w] = Null /\ \A v \in Readers \ {w} : reading'[v] = reading[v]
    BY <1>2 DEF IInv, TypeOK
  <2> QED
    BY <2>1, <2>2 DEF IInv, HeldByOne, ReaderHolds
<1>4. Staged'
  <2>1. \A g \in Files : Stage(g)'
    BY <1>1, <1>2 DEF IInv, Staged, Stage, TypeOK
  <2>2. \A v \in Publishers : publishing[v] # Null =>
          /\ publishing[v].job \in Files /\ publishing[v].job # f
    BY <1>1, JobTypes DEF IInv, Staged, Publishing
  <2> QED
    BY <1>2, <2>1, <2>2 DEF IInv, Staged, TypeOK
<1>5. Stored' /\ CandidatesRead' /\ Working' /\ PublicationWhole'
  BY <1>1, <1>2, StoredKept, CandidatesKept, WorkingKept, WholeKept
     DEF IInv, TypeOK, intake, outcome
<1> QED
  BY <1>3, <1>4, <1>5 DEF IInv

(* The candidates of a file are new when they are made: none of its rows   *)
(* is in a publisher's hands or has an event.                              *)
LEMMA ValidateStep ==
  ASSUME IInv, TypeOK', NEW w \in Readers, Validate(w) PROVE IInv'
<1> DEFINE f == reading[w].job
<1>1. /\ w \in Validators /\ w \notin Extractors /\ reading[w] # Null /\ f \in Files
      /\ ~reading[w].found /\ status[f] = "VALIDATING"
      /\ artifacts[f] = 1 /\ readings[f] = 0
  BY JobTypes, WorkersAssumption
     DEF Validate, Reading, IInv, HeldByOne, ReaderHolds, Staged, Stage
<1>2. /\ readings' = [readings EXCEPT ![f] = @ + 1]
      /\ candidate' = [r \in Rows |-> IF r \in RowsOf[f] THEN Verdict(r) ELSE candidate[r]]
      /\ status' = [status EXCEPT ![f] = "NEEDS_REVIEW"]
      /\ reading' = [reading EXCEPT ![w] = Null]
      /\ UNCHANGED <<intake, artifacts, publishing, subscribing, outcome, deaths>>
  BY <1>1 DEF Validate
<1>3. HeldByOne'
  <2>1. \A v \in Readers \ {w} : reading[v] # Null =>
          /\ reading[v].job \in Files /\ reading[v].job # f
          /\ status'[reading[v].job] = status[reading[v].job]
    BY <1>1, <1>2, JobTypes DEF IInv, HeldByOne, Reading, TypeOK
  <2>2. reading'[w] = Null /\ \A v \in Readers \ {w} : reading'[v] = reading[v]
    BY <1>2 DEF IInv, TypeOK
  <2> QED
    BY <2>1, <2>2 DEF IInv, HeldByOne, ReaderHolds
<1>4. \A v \in Publishers : publishing[v] # Null =>
        /\ publishing[v] \in Publishing
        /\ publishing[v].job \in Files /\ publishing[v].job # f
  BY <1>1, JobTypes DEF IInv, Staged, Publishing
<1>5. Staged'
  <2>1. \A g \in Files : Stage(g)'
    BY <1>1, <1>2 DEF IInv, Staged, Stage, TypeOK
  <2> QED
    BY <1>2, <1>4, <2>1 DEF IInv, Staged, TypeOK
<1>6. \A r \in RowsOf[f] : /\ r \in Rows /\ candidate[r] = "NONE" /\ candidate'[r] = Verdict(r)
                          /\ ~HasEvent(r)
  <2>1. \A r \in RowsOf[f] : r \in Rows /\ candidate[r] = "NONE"
    BY <1>1, RowsOfFile DEF IInv, CandidatesRead
  <2> QED
    BY <1>2, <2>1 DEF IInv, PublicationWhole
<1>7. \A r \in Rows : r \notin RowsOf[f] => candidate'[r] = candidate[r]
  BY <1>2
<1>8. \A g \in Files \ {f} : \A r \in RowsOf[g] : r \in Rows /\ r \notin RowsOf[f]
  BY <1>1, RowsOfFile, RowsApart
<1>9. CandidatesRead'
  <2>1. \A g \in Files : \A r \in RowsOf[g] : candidate'[r] = "NONE" <=> readings'[g] = 0
    BY <1>1, <1>2, <1>6, <1>7, <1>8 DEF IInv, CandidatesRead, Verdict, TypeOK
  <2>2. \A r \in Rows : candidate'[r] \in {"VALIDATED", "PUBLISHED"} => r \in Valid
    BY <1>6, <1>7 DEF IInv, CandidatesRead, Verdict
  <2> QED
    BY <2>1, <2>2 DEF CandidatesRead
<1>10. Working'
  <2> SUFFICES ASSUME NEW v \in Publishers, publishing[v] # Null PROVE TaskOK(publishing[v])'
    BY <1>2 DEF Working
  <2>1. TaskOK(publishing[v]) /\ publishing[v].job \in Files \ {f}
    BY <1>4 DEF IInv, Working
  <2>2. \A r \in publishing[v].todo \cup publishing[v].marked : candidate'[r] = candidate[r]
    BY <1>7, <1>8, <2>1 DEF TaskOK
  <2> QED
    BY <1>2, <2>1, <2>2 DEF TaskOK, Made, HasEvent, outcome
<1>11. PublicationWhole'
  <2>1. \A r \in Rows : HasEvent(r)' <=> HasEvent(r)
    BY <1>2 DEF HasEvent, outcome
  <2>2. \A r \in Rows : candidate'[r] = "PUBLISHED" <=> HasEvent(r)
    BY <1>6, <1>7 DEF IInv, PublicationWhole, Verdict
  <2>3. \A g \in Files : status'[g] = "PUBLISHED" =>
          g # f /\ \A r \in RowsOf[g] : candidate'[r] = "PUBLISHED"
    BY <1>1, <1>2, <1>7, <1>8 DEF IInv, PublicationWhole, TypeOK
  <2> QED
    BY <2>1, <2>2, <2>3 DEF IInv, PublicationWhole
<1>12. Stored'
  BY <1>1, <1>2, StoredKept DEF IInv, TypeOK, intake
<1> QED
  BY <1>3, <1>5, <1>9, <1>10, <1>11, <1>12 DEF IInv

(* A reader that fails or dies lets go of its job.                         *)
LEMMA ReaderGoneStep ==
  ASSUME IInv, TypeOK', NEW w \in Readers, FailReading(w) \/ CrashReader(w) PROVE IInv'
<1> DEFINE f == reading[w].job
<1>1. /\ reading[w] # Null /\ f \in Files
      /\ status[f] \in {"EXTRACTING", "VALIDATING"}
      /\ readings[f] <= artifacts[f] /\ artifacts[f] <= 1
  BY JobTypes
     DEF FailReading, CrashReader, Reading, IInv, HeldByOne, ReaderHolds, Staged, Stage
<1>2. /\ status' = [status EXCEPT ![f] = "FAILED"] \/ status' = status
      /\ reading' = [reading EXCEPT ![w] = Null]
      /\ UNCHANGED <<upload, blobs, source, artifacts, readings, candidate, publishing, events>>
  BY DEF FailReading, CrashReader, Dies, intake, knowledge, outcome
<1>3. HeldByOne'
  <2>1. \A v \in Readers \ {w} : reading[v] # Null =>
          /\ reading[v].job \in Files /\ reading[v].job # f
          /\ status'[reading[v].job] = status[reading[v].job]
    BY <1>1, <1>2, JobTypes DEF IInv, HeldByOne, Reading, TypeOK
  <2>2. reading'[w] = Null /\ \A v \in Readers \ {w} : reading'[v] = reading[v]
    BY <1>2 DEF IInv, TypeOK
  <2> QED
    BY <2>1, <2>2 DEF IInv, HeldByOne, ReaderHolds
<1>4. Staged'
  <2>1. \A g \in Files : Stage(g)'
    BY <1>1, <1>2 DEF IInv, Staged, Stage, TypeOK
  <2>2. \A v \in Publishers : publishing[v] # Null =>
          /\ publishing[v].job \in Files /\ publishing[v].job # f
    BY <1>1, JobTypes DEF IInv, Staged, Publishing
  <2> QED
    BY <1>2, <2>1, <2>2 DEF IInv, Staged, TypeOK
<1>5. Stored' /\ CandidatesRead' /\ Working' /\ PublicationWhole'
  BY <1>1, <1>2, StoredKept, CandidatesKept, WorkingKept, WholeKept DEF IInv, TypeOK
<1> QED
  BY <1>3, <1>4, <1>5 DEF IInv

-----------------------------------------------------------------------------
(* Publication *)

(* What is left of the invariant when a publisher only changes what it     *)
(* holds.                                                                  *)
LEMMA PublisherHolds ==
  ASSUME IInv, TypeOK', NEW w \in Publishers,
         UNCHANGED <<upload, blobs, source, status, artifacts, readings, candidate, reading, events>>,
         \A v \in Publishers \ {w} : publishing'[v] = publishing[v],
         publishing'[w] # Null =>
           LET f == publishing'[w].job IN
           /\ status[f] \in {"NEEDS_REVIEW", "PUBLISHED", "FAILED"}
           /\ artifacts[f] = 1 /\ readings[f] = 1
           /\ TaskOK(publishing'[w])
  PROVE  IInv'
<1>1. Staged'
  BY DEF IInv, Staged, Stage
<1>2. Working'
  BY DEF IInv, Working, TaskOK, Made, HasEvent
<1> QED
  BY <1>1, <1>2, StoredKept, HeldKept, CandidatesKept, WholeKept DEF IInv

(* Claiming a validated job for publication keeps the invariant.           *)
LEMMA ClaimPublicationStep ==
  ASSUME IInv, TypeOK', NEW w \in Publishers, ClaimPublication(w) PROVE IInv'
<1>1. PICK f \in Files :
        /\ publishing[w] = Null /\ status[f] = "NEEDS_REVIEW"
        /\ publishing' = [publishing EXCEPT ![w] =
             [job |-> f, todo |-> {r \in RowsOf[f] : candidate[r] = "VALIDATED"},
              row |-> Null, found |-> FALSE, made |-> <<>>, marked |-> {}]]
        /\ UNCHANGED <<intake, status, artifacts, readings, candidate, reading, events>>
  BY DEF ClaimPublication, NextJob, StatusKept, outcome
<1>2. publishing'[w] =
             [job |-> f, todo |-> {r \in RowsOf[f] : candidate[r] = "VALIDATED"},
              row |-> Null, found |-> FALSE, made |-> <<>>, marked |-> {}]
  BY <1>1 DEF IInv, TypeOK
<1>3. TaskOK(publishing'[w])
  BY <1>2 DEF TaskOK, Made
<1>4. artifacts[f] = 1 /\ readings[f] = 1
  BY <1>1 DEF IInv, Staged, Stage
<1> QED
  BY <1>1, <1>2, <1>3, <1>4, PublisherHolds DEF IInv, TypeOK, intake

(* Looking for the event of a candidate keeps the invariant.               *)
LEMMA LookForEventStep ==
  ASSUME IInv, TypeOK', NEW w \in Publishers, LookForEvent(w) PROVE IInv'
<1> DEFINE task == publishing[w]
<1>1. PICK r \in task.todo :
        publishing' = [publishing EXCEPT ![w] = [@ EXCEPT !.row = r, !.found = HasEvent(r)]]
  BY DEF LookForEvent
<1>2. task # Null /\ task \in Publishing /\ TaskOK(task)
  BY JobTypes DEF IInv, LookForEvent, Working
<1>3. /\ publishing'[w].job = task.job /\ publishing'[w].todo = task.todo
      /\ publishing'[w].row = r /\ publishing'[w].found = HasEvent(r)
      /\ publishing'[w].made = task.made /\ publishing'[w].marked = task.marked
  BY <1>1, <1>2 DEF IInv, TypeOK, Publishing
<1>4. TaskOK(publishing'[w])
  BY <1>2, <1>3 DEF TaskOK, Made
<1> QED
  BY <1>1, <1>2, <1>3, <1>4, PublisherHolds
     DEF IInv, TypeOK, Staged, LookForEvent, intake, knowledge, outcome

(* What a publisher holds once it has marked a candidate.                  *)
LEMMA MarkedTask ==
  ASSUME TypeOK, NEW w \in Publishers, PublishCandidate(w)
  PROVE  LET task == publishing[w]
             r == task.row
         IN  /\ task # Null /\ task \in Publishing /\ r # Null
             /\ publishing'[w].job = task.job /\ publishing'[w].todo = task.todo \ {r}
             /\ publishing'[w].row = Null /\ publishing'[w].marked = task.marked \cup {r}
             /\ publishing'[w].made = IF task.found THEN task.made ELSE Append(task.made, r)
             /\ \A v \in Publishers \ {w} : publishing'[v] = publishing[v]
<1> DEFINE task == publishing[w]
           r == task.row
           made == IF task.found THEN task.made ELSE Append(task.made, r)
           next == [task EXCEPT !.todo = @ \ {r}, !.row = Null,
                                !.marked = @ \cup {r}, !.made = made]
<1>1. task # Null /\ task \in Publishing /\ r # Null
  BY JobTypes DEF PublishCandidate
<1>2. publishing'[w] = next /\ \A v \in Publishers \ {w} : publishing'[v] = publishing[v]
  BY DEF PublishCandidate, TypeOK
<1> HIDE DEF made, r
<1>3. /\ next.job = task.job /\ next.todo = task.todo \ {r} /\ next.row = Null
      /\ next.marked = task.marked \cup {r} /\ next.made = made
  BY <1>1 DEF Publishing
<1> QED
  BY <1>1, <1>2, <1>3 DEF made, r

(* Marking a candidate and writing its event keeps the invariant.          *)
LEMMA PublishCandidateStep ==
  ASSUME IInv, TypeOK', NEW w \in Publishers, PublishCandidate(w) PROVE IInv'
<1> DEFINE task == publishing[w]
           r == task.row
<1>1. /\ task # Null /\ task \in Publishing /\ TaskOK(task)
      /\ r # Null /\ r \in task.todo /\ r \in Rows
  BY JobTypes DEF IInv, PublishCandidate, Working, TaskOK, Publishing
<1>2. /\ publishing'[w].job = task.job /\ publishing'[w].todo = task.todo \ {r}
      /\ publishing'[w].row = Null /\ publishing'[w].marked = task.marked \cup {r}
      /\ publishing'[w].made = IF task.found THEN task.made ELSE Append(task.made, r)
  BY MarkedTask DEF IInv
<1>3. Made(publishing'[w], r) \/ HasEvent(r)
  <2>1. CASE task.found
    BY <1>1, <2>1 DEF TaskOK
  <2>2. CASE ~task.found
    <3> DEFINE n == Len(task.made) + 1
    <3>1. task.made \in Seq(Rows)
      BY <1>1 DEF Publishing
    <3>2. n \in DOMAIN publishing'[w].made /\ publishing'[w].made[n] = r
      BY <1>1, <1>2, <2>2, <3>1
    <3> QED
      BY <3>2 DEF Made
  <2> QED
    BY <2>1, <2>2
<1>4. \A q \in task.marked : Made(publishing'[w], q) \/ HasEvent(q)
  <2>1. /\ task.made \in Seq(Rows) /\ DOMAIN task.made \subseteq DOMAIN publishing'[w].made
        /\ \A i \in DOMAIN task.made : publishing'[w].made[i] = task.made[i]
    BY <1>1, <1>2 DEF Publishing
  <2> QED
    BY <1>1, <2>1 DEF TaskOK, Made
<1>5. \A i \in DOMAIN publishing'[w].made : publishing'[w].made[i] \in task.marked \cup {r}
  BY <1>1, <1>2 DEF TaskOK, Publishing
<1>6. TaskOK(publishing'[w])
  BY <1>1, <1>2, <1>3, <1>4, <1>5 DEF TaskOK
<1>7. /\ \A v \in Publishers \ {w} : publishing'[v] = publishing[v]
      /\ UNCHANGED <<upload, blobs, source, status, artifacts, readings, candidate, reading, events>>
  BY DEF PublishCandidate, IInv, TypeOK, intake, knowledge, outcome
<1> QED
  BY <1>1, <1>2, <1>6, <1>7, PublisherHolds DEF IInv, Staged

(* A publisher that fails or dies lets go of its job, and its transaction  *)
(* leaves nothing behind.                                                  *)
LEMMA PublisherGoneStep ==
  ASSUME IInv, TypeOK', NEW w \in Publishers, FailPublication(w) \/ CrashPublisher(w)
  PROVE  IInv'
<1> DEFINE f == publishing[w].job
<1>1. /\ publishing[w] # Null /\ f \in Files
      /\ status[f] \in {"NEEDS_REVIEW", "PUBLISHED", "FAILED"}
      /\ artifacts[f] = 1 /\ readings[f] = 1
  BY JobTypes DEF FailPublication, CrashPublisher, Publishing, IInv, Staged
<1>2. /\ status' = [status EXCEPT ![f] = "FAILED"] \/ status' = status
      /\ publishing' = [publishing EXCEPT ![w] = Null]
      /\ UNCHANGED <<upload, blobs, source, artifacts, readings, candidate, reading, events>>
  BY DEF FailPublication, CrashPublisher, Dies, intake, knowledge, outcome
<1>3. publishing'[w] = Null /\ \A v \in Publishers \ {w} : publishing'[v] = publishing[v]
  BY <1>2 DEF IInv, TypeOK
<1>4. HeldByOne'
  <2>1. \A v \in Readers : reading[v] # Null =>
          status'[reading[v].job] = status[reading[v].job]
    BY <1>1, <1>2, JobTypes DEF IInv, HeldByOne, ReaderHolds, Reading, TypeOK
  <2> QED
    BY <1>2, <2>1, HeldKept DEF IInv
<1>5. Staged'
  <2>1. \A g \in Files : Stage(g)'
    BY <1>1, <1>2 DEF IInv, Staged, Stage, TypeOK
  <2>2. \A v \in Publishers : publishing[v] # Null => publishing[v].job \in Files
    BY JobTypes DEF IInv, Publishing
  <2> QED
    BY <1>2, <1>3, <2>1, <2>2 DEF IInv, Staged, TypeOK
<1>6. Working'
  BY <1>2, <1>3 DEF IInv, Working, TaskOK, Made, HasEvent
<1>7. Stored' /\ CandidatesRead' /\ PublicationWhole'
  BY <1>1, <1>2, StoredKept, CandidatesKept, WholeKept DEF IInv, TypeOK
<1> QED
  BY <1>4, <1>5, <1>6, <1>7 DEF IInv

(* The events of a publication are those there were and those it made.     *)
LEMMA EventsAppended ==
  ASSUME TypeOK, NEW task \in Publishing, events' = events \o task.made, NEW r
  PROVE  HasEvent(r)' <=> HasEvent(r) \/ Made(task, r)
<1> DEFINE made == task.made
<1>1. events \in Seq(Rows) /\ made \in Seq(Rows)
  BY DEF TypeOK, Publishing
<1>2. ASSUME HasEvent(r) PROVE HasEvent(r)'
  <2>1. PICK e \in DOMAIN events : events[e] = r
    BY <1>2 DEF HasEvent
  <2>2. e \in DOMAIN (events \o made) /\ (events \o made)[e] = r
    BY <1>1, <2>1
  <2> QED
    BY <2>2 DEF HasEvent
<1>3. ASSUME Made(task, r) PROVE HasEvent(r)'
  <2>1. PICK i \in DOMAIN made : made[i] = r
    BY <1>3 DEF Made
  <2> DEFINE e == Len(events) + i
  <2>2. e \in DOMAIN (events \o made) /\ (events \o made)[e] = r
    BY <1>1, <2>1
  <2> QED
    BY <2>2 DEF HasEvent
<1>4. ASSUME HasEvent(r)' PROVE HasEvent(r) \/ Made(task, r)
  <2>1. PICK e \in DOMAIN (events \o made) : (events \o made)[e] = r
    BY <1>4 DEF HasEvent
  <2>2. CASE e \in DOMAIN events
    BY <1>1, <2>1, <2>2 DEF HasEvent
  <2>3. CASE e \notin DOMAIN events
    <3> DEFINE i == e - Len(events)
    <3>1. i \in DOMAIN made /\ made[i] = r
      BY <1>1, <2>1, <2>3
    <3> QED
      BY <3>1 DEF Made
  <2> QED
    BY <2>2, <2>3
<1> QED
  BY <1>2, <1>3, <1>4

(* Committing makes the rows PUBLISHED and their events visible together,  *)
(* for every publisher that was at work on the same job.                   *)
LEMMA FinishPublicationStep ==
  ASSUME IInv, TypeOK', NEW w \in Publishers, FinishPublication(w) PROVE IInv'
<1> DEFINE task == publishing[w]
           f == task.job
<1>1. /\ task # Null /\ task \in Publishing /\ TaskOK(task) /\ f \in Files
      /\ status[f] \in {"NEEDS_REVIEW", "PUBLISHED", "FAILED"}
      /\ artifacts[f] = 1 /\ readings[f] = 1
  BY JobTypes DEF FinishPublication, Publishing, IInv, Staged, Working
<1>2. /\ events' = events \o task.made
      /\ candidate' = [r \in Rows |-> IF r \in task.marked THEN "PUBLISHED" ELSE candidate[r]]
      /\ status' = [status EXCEPT ![f] = FinalStatus(f, task.marked)]
      /\ publishing' = [publishing EXCEPT ![w] = Null]
      /\ UNCHANGED <<upload, blobs, source, artifacts, readings, reading>>
  BY DEF FinishPublication, intake
<1>3. publishing'[w] = Null /\ \A v \in Publishers \ {w} : publishing'[v] = publishing[v]
  BY <1>2 DEF IInv, TypeOK
<1>4. FinalStatus(f, task.marked) \in {"NEEDS_REVIEW", "PUBLISHED"}
  BY DEF FinalStatus
<1>5. \A r : HasEvent(r)' <=> HasEvent(r) \/ Made(task, r)
  BY <1>1, <1>2, EventsAppended DEF IInv
<1>6. HeldByOne'
  <2>1. \A v \in Readers : reading[v] # Null =>
          status'[reading[v].job] = status[reading[v].job]
    BY <1>1, <1>2, JobTypes DEF IInv, HeldByOne, ReaderHolds, Reading, TypeOK
  <2> QED
    BY <1>2, <2>1, HeldKept DEF IInv
<1>7. Staged'
  <2>1. \A g \in Files : Stage(g)'
    BY <1>1, <1>2, <1>4 DEF IInv, Staged, Stage, TypeOK
  <2>2. \A v \in Publishers : publishing[v] # Null => publishing[v].job \in Files
    BY JobTypes DEF IInv, Publishing
  <2> QED
    BY <1>2, <1>3, <1>4, <2>1, <2>2 DEF IInv, Staged, TypeOK
<1>8. \A r \in task.marked : r \in RowsOf[f] /\ r \in Rows /\ r \in Valid /\ HasEvent(r)'
  <2>1. \A r \in task.marked : r \in RowsOf[f] /\ r \in Rows
    BY <1>1, RowsOfFile DEF TaskOK
  <2> QED
    BY <1>1, <1>5, <2>1 DEF TaskOK, IInv, CandidatesRead
<1>9. \A r \in Rows : candidate'[r] = IF r \in task.marked THEN "PUBLISHED" ELSE candidate[r]
  BY <1>2
<1>10. CandidatesRead'
  <2>1. \A g \in Files : \A r \in RowsOf[g] : candidate'[r] = "NONE" <=> readings[g] = 0
    <3> SUFFICES ASSUME NEW g \in Files, NEW r \in RowsOf[g]
                 PROVE  candidate'[r] = "NONE" <=> readings[g] = 0
      OBVIOUS
    <3>1. r \in Rows /\ (r \in task.marked => g = f)
      BY <1>1, <1>8, RowsOfFile, RowsApart
    <3> QED
      BY <1>1, <1>9, <3>1 DEF IInv, CandidatesRead
  <2>2. \A r \in Rows : candidate'[r] \in {"VALIDATED", "PUBLISHED"} => r \in Valid
    BY <1>8, <1>9 DEF IInv, CandidatesRead
  <2> QED
    BY <1>2, <2>1, <2>2 DEF CandidatesRead
<1>11. Working'
  <2> SUFFICES ASSUME NEW v \in Publishers \ {w}, publishing[v] # Null
               PROVE  TaskOK(publishing[v])'
    BY <1>3 DEF Working
  <2>1. TaskOK(publishing[v]) /\ publishing[v] \in Publishing
    BY JobTypes DEF IInv, Working
  <2>2. \A r \in publishing[v].todo \cup publishing[v].marked :
          candidate'[r] \in {"VALIDATED", "PUBLISHED"}
    BY <1>9, <2>1 DEF TaskOK, Publishing
  <2>3. publishing'[v] = publishing[v]
    BY <1>3
  <2> QED
    BY <1>5, <2>1, <2>2, <2>3 DEF TaskOK, Made
<1>12. PublicationWhole'
  <2> \A r : Made(task, r) => r \in task.marked
    BY <1>1 DEF TaskOK, Made
  <2>1. \A r \in Rows : candidate'[r] = "PUBLISHED" <=> HasEvent(r)'
    BY <1>5, <1>8, <1>9 DEF IInv, PublicationWhole
  <2>2. \A r \in Rows : HasEvent(r)' => r \in Valid
    BY <1>5, <1>8 DEF IInv, PublicationWhole
  <2>3. \A g \in Files \ {f} : status'[g] = "PUBLISHED" =>
          \A r \in RowsOf[g] : candidate'[r] = "PUBLISHED"
    BY <1>2, <1>9, RowsOfFile DEF IInv, PublicationWhole, TypeOK
  <2>4. status'[f] = "PUBLISHED" => \A r \in RowsOf[f] : candidate'[r] = "PUBLISHED"
    <3> SUFFICES ASSUME status'[f] = "PUBLISHED", NEW r \in RowsOf[f]
                 PROVE  candidate'[r] = "PUBLISHED"
      OBVIOUS
    <3>1. r \in Rows /\ candidate[r] \in Lifecycle /\ candidate[r] # "NONE"
      BY <1>1, RowsOfFile DEF IInv, CandidatesRead, TypeOK
    <3>2. FinalStatus(f, task.marked) = "PUBLISHED"
      BY <1>1, <1>2 DEF IInv, TypeOK
    <3>3. r \in task.marked \/ candidate[r] \notin {"NEEDS_REVIEW", "VALIDATED"}
      BY <3>2 DEF FinalStatus
    <3> QED
      BY <1>9, <3>1, <3>3 DEF Lifecycle
  <2> QED
    BY <2>1, <2>2, <2>3, <2>4 DEF PublicationWhole
<1>13. Stored'
  BY <1>1, <1>2, <1>4, StoredKept DEF IInv, TypeOK
<1> QED
  BY <1>6, <1>7, <1>10, <1>11, <1>12, <1>13 DEF IInv

-----------------------------------------------------------------------------
(* The invariant *)

(* Subscribers, and those who link resources, only read what the invariant *)
(* is about.                                                               *)
LEMMA SubmissionStep ==
  ASSUME IInv, TypeOK', UNCHANGED <<upload, blobs, source, knowledge, reading, publishing, events>>
  PROVE  IInv'
<1>1. Staged'
  BY DEF IInv, Staged, Stage, knowledge
<1> QED
  BY <1>1, StoredKept, HeldKept, CandidatesKept, WorkingKept, WholeKept DEF IInv, knowledge

(* The invariant holds before the first upload.                            *)
LEMMA InitInvariant == Init => IInv
<1> SUFFICES ASSUME Init PROVE IInv
  OBVIOUS
<1>1. TypeOK
  BY WorkersAssumption DEF Init, TypeOK, JobStatus, Lifecycle
<1>2. Stored
  BY DEF Init, Stored, DocumentsHaveTheirBytes
<1>3. HeldByOne /\ Staged /\ Working
  BY DEF Init, HeldByOne, Staged, Stage, Working
<1>4. \A r : ~HasEvent(r)
  BY DEF Init, HasEvent
<1>5. CandidatesRead /\ PublicationWhole
  BY <1>4, RowsOfFile DEF Init, CandidatesRead, PublicationWhole
<1> QED
  BY <1>1, <1>2, <1>3, <1>5 DEF IInv

(* Every step keeps the invariant.                                         *)
LEMMA NextInvariant == IInv /\ [Next]_vars => IInv'
<1> SUFFICES ASSUME IInv, [Next]_vars PROVE IInv'
  OBVIOUS
<1>t. TypeOK'
  BY TypeOfStep DEF IInv
<1>1. ASSUME NEW u \in Uploads,
             \/ StoreUpload(u) \/ AnswerDuplicate(u) \/ Enqueue(u)
             \/ RejectEnqueue(u) \/ DeleteFinal(u) \/ CrashUpload(u)
      PROVE  IInv'
  <2>1. Stored'
    BY <1>1, UploadStoredStep DEF IInv
  <2>2. HeldByOne' /\ Staged' /\ CandidatesRead' /\ Working' /\ PublicationWhole'
    BY <1>1, UploadRestStep
  <2> QED
    BY <1>t, <2>1, <2>2 DEF IInv
<1>2. ASSUME NEW w \in Readers, ReaderRun(w) \/ CrashReader(w) PROVE IInv'
  BY <1>t, <1>2, ClaimStep, LookStep, ExtractStep, ValidateStep, ReaderGoneStep
     DEF ReaderRun, ClaimExtraction, ClaimUnderstanding
<1>3. ASSUME NEW w \in Publishers, PublisherRun(w) \/ CrashPublisher(w) PROVE IInv'
  BY <1>t, <1>3, ClaimPublicationStep, LookForEventStep, PublishCandidateStep,
     FinishPublicationStep, PublisherGoneStep DEF PublisherRun
<1>4. ASSUME NEW w \in Subscribers, SubscriberRun(w) \/ CrashSubscriber(w) PROVE IInv'
  <2>1. UNCHANGED <<upload, blobs, source, knowledge, reading, publishing, events>>
    BY <1>4 DEF SubscriberRun, ClaimEvent, SkipEvent, LookForDuplicate, Submit, FailSubmission,
                CrashSubscriber, Dies, intake, outcome
  <2> QED
    BY <1>t, <2>1, SubmissionStep
<1>5. ASSUME NEW r \in Rows, LinkResource(r) PROVE IInv'
  BY <1>t, <1>5, SubmissionStep DEF LinkResource, intake, workers
<1>6. CASE UNCHANGED vars
  BY <1>t, <1>6, SubmissionStep DEF vars, knowledge
<1> QED
  BY <1>1, <1>2, <1>3, <1>4, <1>5, <1>6 DEF Next

(* The invariant holds in every reachable state.                           *)
LEMMA InductiveInvariant == Spec => []IInv
  BY InitInvariant, NextInvariant, PTL DEF Spec

-----------------------------------------------------------------------------
(* The theorems *)

(* Every variable keeps its type: no step reads or writes a job, a worker  *)
(* or a row that is not there.                                             *)
THEOREM TypeCorrect == Spec => []TypeOK
<1>1. IInv => TypeOK
  BY DEF IInv
<1> QED
  BY <1>1, InductiveInvariant, PTL

(* However many uploads of the same file overlap, fail, clean up or die, a *)
(* job's document has its bytes (enqueueUpload).                           *)
THEOREM BytesAreThere == Spec => []DocumentsHaveTheirBytes
<1>1. IInv => DocumentsHaveTheirBytes
  BY DEF IInv, Stored
<1> QED
  BY <1>1, InductiveInvariant, PTL

(* However many extractors and validators poll, a job is read once: the    *)
(* claim (SELECT ... FOR UPDATE SKIP LOCKED and the change of status) is   *)
(* enough, and the look for an earlier result never finds one.             *)
THEOREM JobsAreReadOnce == Spec => []ReadOnce
<1>1. IInv => ReadOnce
  <2> SUFFICES ASSUME IInv, NEW f \in Files
               PROVE  readings[f] <= artifacts[f] /\ artifacts[f] <= 1
    BY DEF ReadOnce
  <2>1. Stage(f) /\ status[f] \in JobStatus
    BY DEF IInv, Staged, TypeOK
  <2> QED
    BY <2>1 DEF Stage, JobStatus
<1> QED
  BY <1>1, InductiveInvariant, PTL

(* Publication is all or nothing for every number of publishers, rows and  *)
(* deaths (publication-worker.service.ts, persist).                        *)
THEOREM PublicationIsWhole == Spec => []PublicationWhole
<1>1. IInv => PublicationWhole
  BY DEF IInv
<1> QED
  BY <1>1, InductiveInvariant, PTL

-----------------------------------------------------------------------------
(* The intake as its users see it: this module implements SpreadsheetIntake *)

(* Only rows that failed validation wait for a person.                     *)
HeldRowsFailed == \A r \in Rows : candidate[r] = "NEEDS_REVIEW" => r \notin Valid

(* A publisher still has in hand, or has marked, each row of its job that  *)
(* waits for publication, and makes no second event of a row.              *)
TaskTells(task) ==
  /\ \A r \in RowsOf[task.job] : candidate[r] = "VALIDATED" => r \in task.todo \cup task.marked
  /\ \A i \in DOMAIN task.made : task.made[i] \notin task.todo
  /\ \A i, j \in DOMAIN task.made : task.made[i] = task.made[j] => i = j

TasksTell == \A w \in Publishers : publishing[w] # Null => TaskTells(publishing[w])

(* A subscriber holds an event there is; what it read of the link holds.   *)
SubscribersKnow == \A w \in Subscribers : subscribing[w] # Null =>
  /\ subscribing[w].event \in DOMAIN events
  /\ subscribing[w].linked => events[subscribing[w].event] \in linked
  /\ subscribing[w].clear => subscribing[w].linked

TellInv == HeldRowsFailed /\ TasksTell /\ SubscribersKnow

(* Tasks depend on what publishers hold and on the candidates only.        *)
LEMMA TasksKept ==
  ASSUME TasksTell, UNCHANGED <<publishing, candidate>> PROVE TasksTell'
  BY DEF TasksTell, TaskTells

(* A publisher that changes what it holds leaves the others theirs.        *)
LEMMA TaskChanged ==
  ASSUME TasksTell, NEW w \in Publishers, UNCHANGED candidate,
         \A v \in Publishers \ {w} : publishing'[v] = publishing[v],
         publishing'[w] # Null => TaskTells(publishing'[w])
  PROVE  TasksTell'
  BY DEF TasksTell, TaskTells

(* Judging the rows of a file concerns no publisher.                       *)
LEMMA ValidateTells ==
  ASSUME IInv, TellInv, NEW w \in Readers, Validate(w)
  PROVE  HeldRowsFailed' /\ TasksTell'
<1> DEFINE f == reading[w].job
<1>1. /\ f \in Files /\ ~reading[w].found /\ status[f] = "VALIDATING"
  BY JobTypes, WorkersAssumption DEF Validate, Reading, IInv, HeldByOne, ReaderHolds
<1>2. /\ candidate' = [r \in Rows |-> IF r \in RowsOf[f] THEN Verdict(r) ELSE candidate[r]]
      /\ UNCHANGED publishing
  BY <1>1 DEF Validate
<1>3. HeldRowsFailed'
  BY <1>2 DEF HeldRowsFailed, TellInv, Verdict
<1>4. ASSUME NEW v \in Publishers, publishing[v] # Null
      PROVE  TaskTells(publishing[v])'
  <2>1. publishing[v].job \in Files \ {f} /\ TaskTells(publishing[v])
    BY <1>1, <1>4, JobTypes DEF IInv, Staged, Publishing, TellInv, TasksTell
  <2>2. \A r \in RowsOf[publishing[v].job] : r \in Rows /\ candidate'[r] = candidate[r]
    BY <1>1, <1>2, <2>1, RowsOfFile, RowsApart
  <2> QED
    BY <1>2, <2>1, <2>2 DEF TaskTells
<1> QED
  BY <1>2, <1>3, <1>4 DEF TasksTell

(* A claim takes all rows that wait, and none is told yet.                 *)
LEMMA ClaimPublicationTells ==
  ASSUME IInv, TellInv, NEW w \in Publishers, ClaimPublication(w) PROVE TasksTell'
<1>1. PICK f \in Files :
        /\ publishing' = [publishing EXCEPT ![w] =
             [job |-> f, todo |-> {r \in RowsOf[f] : candidate[r] = "VALIDATED"},
              row |-> Null, found |-> FALSE, made |-> <<>>, marked |-> {}]]
        /\ UNCHANGED candidate
  BY DEF ClaimPublication
<1>2. /\ publishing'[w] =
             [job |-> f, todo |-> {r \in RowsOf[f] : candidate[r] = "VALIDATED"},
              row |-> Null, found |-> FALSE, made |-> <<>>, marked |-> {}]
      /\ \A v \in Publishers \ {w} : publishing'[v] = publishing[v]
  BY <1>1 DEF IInv, TypeOK
<1>3. TaskTells(publishing'[w])
  BY <1>2 DEF TaskTells
<1> QED
  BY <1>1, <1>2, <1>3, TaskChanged DEF TellInv

(* Looking at a row in hand tells nothing yet.                             *)
LEMMA LookForEventTells ==
  ASSUME IInv, TellInv, NEW w \in Publishers, LookForEvent(w) PROVE TasksTell'
<1> DEFINE task == publishing[w]
<1>1. PICK r \in task.todo :
        publishing' = [publishing EXCEPT ![w] = [@ EXCEPT !.row = r, !.found = HasEvent(r)]]
  BY DEF LookForEvent
<1>2. task # Null /\ task \in Publishing /\ TaskTells(task)
  BY JobTypes DEF IInv, LookForEvent, TellInv, TasksTell
<1>3. /\ publishing'[w].job = task.job /\ publishing'[w].todo = task.todo
      /\ publishing'[w].made = task.made /\ publishing'[w].marked = task.marked
      /\ \A v \in Publishers \ {w} : publishing'[v] = publishing[v]
  BY <1>1, <1>2 DEF IInv, TypeOK, Publishing
<1>4. TaskTells(publishing'[w])
  BY <1>2, <1>3 DEF TaskTells
<1> QED
  BY <1>3, <1>4, TaskChanged DEF TellInv, LookForEvent, knowledge

(* The row marked is one in hand, hence not told so far.                   *)
LEMMA PublishCandidateTells ==
  ASSUME IInv, TellInv, NEW w \in Publishers, PublishCandidate(w) PROVE TasksTell'
<1> DEFINE task == publishing[w]
           r == task.row
<1>1. /\ task # Null /\ task \in Publishing /\ r # Null
      /\ publishing'[w].job = task.job /\ publishing'[w].todo = task.todo \ {r}
      /\ publishing'[w].row = Null /\ publishing'[w].marked = task.marked \cup {r}
      /\ publishing'[w].made = IF task.found THEN task.made ELSE Append(task.made, r)
      /\ \A v \in Publishers \ {w} : publishing'[v] = publishing[v]
  BY MarkedTask DEF IInv
<1>2. TaskOK(task) /\ TaskTells(task) /\ task.made \in Seq(Rows) /\ r \in task.todo
  BY <1>1 DEF IInv, Working, TellInv, TasksTell, Publishing, TaskOK
<1>3. \A i \in DOMAIN task.made : task.made[i] # r
  BY <1>2 DEF TaskTells
<1> DEFINE made == publishing'[w].made
<1>4. \A i \in DOMAIN made : \/ i \in DOMAIN task.made /\ made[i] = task.made[i]
                             \/ i = Len(task.made) + 1 /\ made[i] = r
  <2>1. CASE task.found
    BY <1>1, <2>1
  <2>2. CASE ~task.found
    BY <1>1, <1>2, <2>2
  <2> QED
    BY <2>1, <2>2
<1>5. \A i, j \in DOMAIN made : made[i] = made[j] => i = j
  BY <1>2, <1>3, <1>4 DEF TaskTells
<1>6. \A i \in DOMAIN made : made[i] \notin task.todo \ {r}
  BY <1>2, <1>4 DEF TaskTells
<1>7. \A q \in RowsOf[task.job] :
        candidate[q] = "VALIDATED" => q \in (task.todo \ {r}) \cup (task.marked \cup {r})
  BY <1>2 DEF TaskTells
<1>8. TaskTells(publishing'[w])
  <2> HIDE DEF r
  <2> QED
    BY <1>1, <1>5, <1>6, <1>7 DEF TaskTells
<1> QED
  BY <1>1, <1>8, TaskChanged DEF TellInv, PublishCandidate, knowledge

(* A commit takes rows of one file out of the hands of all who hold them.  *)
LEMMA FinishPublicationTells ==
  ASSUME IInv, TellInv, NEW w \in Publishers, FinishPublication(w)
  PROVE  HeldRowsFailed' /\ TasksTell'
<1>1. /\ candidate' = [r \in Rows |->
                         IF r \in publishing[w].marked THEN "PUBLISHED" ELSE candidate[r]]
      /\ publishing' = [publishing EXCEPT ![w] = Null]
  BY DEF FinishPublication
<1>2. HeldRowsFailed'
  BY <1>1 DEF HeldRowsFailed, TellInv
<1>3. ASSUME NEW v \in Publishers, publishing'[v] # Null PROVE TaskTells(publishing[v])'
  <2>1. /\ publishing'[v] = publishing[v] /\ TaskTells(publishing[v])
        /\ publishing[v].job \in Files
    BY <1>1, <1>3, JobTypes DEF IInv, TypeOK, TellInv, TasksTell, Publishing
  <2>2. \A r \in RowsOf[publishing[v].job] :
          candidate'[r] = "VALIDATED" => candidate[r] = "VALIDATED"
    BY <1>1, <2>1, RowsOfFile
  <2> QED
    BY <2>1, <2>2 DEF TaskTells
<1> QED
  BY <1>2, <1>3 DEF TasksTell

(* The knowledge and the links only grow.                                  *)
LEMMA KnowledgeGrows ==
  ASSUME TypeOK, [Next]_vars
  PROVE  /\ \A e \in DOMAIN events : e \in DOMAIN events' /\ events'[e] = events[e]
         /\ linked \subseteq linked'
<1>1. ASSUME NEW w \in Publishers, FinishPublication(w)
      PROVE  /\ \A e \in DOMAIN events : e \in DOMAIN events' /\ events'[e] = events[e]
             /\ UNCHANGED linked
  <2>1. publishing[w].made \in Seq(Rows) /\ events \in Seq(Rows)
    BY <1>1, JobTypes DEF FinishPublication, Publishing, TypeOK
  <2> QED
    BY <1>1, <2>1 DEF FinishPublication
<1>2. ASSUME NEW r \in Rows, LinkResource(r) PROVE UNCHANGED events /\ linked \subseteq linked'
  BY <1>2 DEF LinkResource
<1>3. ASSUME NEW w \in Publishers, PublisherRun(w), ~FinishPublication(w)
      PROVE  UNCHANGED <<events, linked>>
  BY <1>3 DEF PublisherRun, ClaimPublication, LookForEvent, PublishCandidate, FailPublication,
              outcome
<1>4. ASSUME NEW w \in Readers, ReaderRun(w) PROVE UNCHANGED <<events, linked>>
  BY <1>4 DEF ReaderRun, ClaimExtraction, ClaimUnderstanding, Claim, Look, Extract, Validate,
              FailReading, outcome
<1>5. ASSUME NEW w \in Subscribers, SubscriberRun(w) PROVE UNCHANGED <<events, linked>>
  BY <1>5 DEF SubscriberRun, ClaimEvent, SkipEvent, LookForDuplicate, Submit, FailSubmission,
              outcome
<1>6. ASSUME NEW u \in Uploads, \/ StoreUpload(u) \/ AnswerDuplicate(u) \/ Enqueue(u)
                                \/ RejectEnqueue(u) \/ DeleteFinal(u)
      PROVE  UNCHANGED <<events, linked>>
  BY <1>6 DEF StoreUpload, AnswerDuplicate, Enqueue, RejectEnqueue, DeleteFinal, outcome
<1>7. ASSUME NEW w, CrashUpload(w) \/ CrashReader(w) \/ CrashPublisher(w) \/ CrashSubscriber(w)
      PROVE  UNCHANGED <<events, linked>>
  BY <1>7 DEF CrashUpload, CrashReader, CrashPublisher, CrashSubscriber, Dies, outcome
<1>8. CASE UNCHANGED vars
  BY <1>8 DEF vars
<1> QED
  BY <1>1, <1>2, <1>3, <1>4, <1>5, <1>6, <1>7, <1>8 DEF Next

(* What a subscriber has read of an event stays true while it decides.     *)
LEMMA SubscribersStep ==
  ASSUME TypeOK, SubscribersKnow, [Next]_vars PROVE SubscribersKnow'
<1>1. ASSUME NEW w \in Subscribers, subscribing'[w] = subscribing[w], subscribing'[w] # Null
      PROVE  /\ subscribing'[w].event \in DOMAIN events'
             /\ subscribing'[w].linked => events'[subscribing'[w].event] \in linked'
             /\ subscribing'[w].clear => subscribing'[w].linked
  BY <1>1, KnowledgeGrows DEF SubscribersKnow
<1>2. ASSUME NEW w \in Subscribers, SubscriberRun(w) \/ CrashSubscriber(w)
      PROVE  SubscribersKnow'
  <2>1. \A v \in Subscribers \ {w} : subscribing'[v] = subscribing[v]
    BY <1>2 DEF SubscriberRun, ClaimEvent, SkipEvent, LookForDuplicate, Submit, FailSubmission,
                CrashSubscriber, TypeOK
  <2>2. UNCHANGED <<events, linked>>
    BY <1>2 DEF SubscriberRun, ClaimEvent, SkipEvent, LookForDuplicate, Submit, FailSubmission,
                CrashSubscriber, Dies, outcome
  <2>3. CASE ClaimEvent(w)
    <3>1. PICK e \in DOMAIN events :
            subscribing'[w] = [event |-> e, linked |-> events[e] \in linked, clear |-> FALSE]
      BY <2>3 DEF ClaimEvent, TypeOK
    <3>2. /\ subscribing'[w].event = e /\ subscribing'[w].clear = FALSE
          /\ subscribing'[w].linked = (events[e] \in linked)
      BY <3>1
    <3>3. ASSUME NEW v \in Subscribers, subscribing'[v] # Null
          PROVE  /\ subscribing'[v].event \in DOMAIN events'
                 /\ subscribing'[v].linked => events'[subscribing'[v].event] \in linked'
                 /\ subscribing'[v].clear => subscribing'[v].linked
      <4>1. CASE v = w
        BY <2>2, <3>2, <4>1
      <4>2. CASE v # w
        BY <1>1, <2>1, <3>3, <4>2
      <4> QED
        BY <4>1, <4>2
    <3> QED
      BY <3>3 DEF SubscribersKnow
  <2>4. CASE LookForDuplicate(w)
    <3>1. subscribing[w] # Null /\ subscribing[w] \in Subscribing /\ subscribing[w].linked
      BY <2>4, JobTypes DEF LookForDuplicate
    <3>2. /\ subscribing'[w].event = subscribing[w].event
          /\ subscribing'[w].linked = subscribing[w].linked
      BY <2>4, <3>1 DEF LookForDuplicate, TypeOK, Subscribing
    <3> QED
      BY <1>1, <2>1, <2>2, <3>1, <3>2 DEF SubscribersKnow
  <2>5. CASE SkipEvent(w) \/ Submit(w) \/ FailSubmission(w) \/ CrashSubscriber(w)
    <3>1. subscribing'[w] = Null
      BY <2>5 DEF SkipEvent, Submit, FailSubmission, CrashSubscriber, TypeOK
    <3> QED
      BY <1>1, <2>1, <3>1 DEF SubscribersKnow
  <2> QED
    BY <1>2, <2>3, <2>4, <2>5 DEF SubscriberRun
<1>3. CASE UNCHANGED subscribing
  BY <1>1, <1>3 DEF SubscribersKnow
<1>4. ASSUME NEW u \in Uploads,
             \/ StoreUpload(u) \/ AnswerDuplicate(u) \/ Enqueue(u)
             \/ RejectEnqueue(u) \/ DeleteFinal(u) \/ CrashUpload(u)
      PROVE  UNCHANGED subscribing
  BY <1>4 DEF StoreUpload, AnswerDuplicate, Enqueue, RejectEnqueue, DeleteFinal, CrashUpload,
              workers
<1>5. ASSUME NEW w \in Readers, ReaderRun(w) \/ CrashReader(w) PROVE UNCHANGED subscribing
  BY <1>5 DEF ReaderRun, ClaimExtraction, ClaimUnderstanding, Claim, Look, Extract, Validate,
              FailReading, CrashReader
<1>6. ASSUME NEW w \in Publishers, PublisherRun(w) \/ CrashPublisher(w)
      PROVE  UNCHANGED subscribing
  BY <1>6 DEF PublisherRun, ClaimPublication, LookForEvent, PublishCandidate,
              FinishPublication, FailPublication, CrashPublisher
<1>7. ASSUME NEW r \in Rows, LinkResource(r) PROVE UNCHANGED subscribing
  BY <1>7 DEF LinkResource, workers
<1> QED
  BY <1>2, <1>3, <1>4, <1>5, <1>6, <1>7 DEF Next, vars

(* Every step keeps what the workers know and hold in order.               *)
LEMMA TellInvStep == ASSUME IInv, TellInv, [Next]_vars PROVE TellInv'
<1> SUFFICES HeldRowsFailed' /\ TasksTell'
  BY SubscribersStep DEF IInv, TellInv
<1>1. CASE UNCHANGED <<candidate, publishing>>
  BY <1>1, TasksKept DEF TellInv, HeldRowsFailed
<1>2. ASSUME NEW u \in Uploads,
             \/ StoreUpload(u) \/ AnswerDuplicate(u) \/ Enqueue(u)
             \/ RejectEnqueue(u) \/ DeleteFinal(u) \/ CrashUpload(u)
      PROVE  UNCHANGED <<candidate, publishing>>
  BY <1>2 DEF StoreUpload, AnswerDuplicate, Enqueue, RejectEnqueue, DeleteFinal, CrashUpload,
              Dies, workers, knowledge
<1>3. ASSUME NEW w \in Readers, ReaderRun(w) \/ CrashReader(w), ~Validate(w)
      PROVE  UNCHANGED <<candidate, publishing>>
  BY <1>3 DEF ReaderRun, ClaimExtraction, ClaimUnderstanding, Claim, Look, Extract,
              FailReading, CrashReader, Dies, knowledge
<1>4. ASSUME NEW w \in Publishers, FailPublication(w) \/ CrashPublisher(w)
      PROVE  UNCHANGED candidate /\ TasksTell'
  <2>1. UNCHANGED candidate
    BY <1>4 DEF FailPublication, CrashPublisher, Dies, knowledge
  <2>2. publishing'[w] = Null /\ \A v \in Publishers \ {w} : publishing'[v] = publishing[v]
    BY <1>4 DEF FailPublication, CrashPublisher, IInv, TypeOK
  <2> QED
    BY <2>1, <2>2, TaskChanged DEF TellInv
<1>5. ASSUME NEW w \in Publishers, ClaimPublication(w) \/ LookForEvent(w) \/ PublishCandidate(w)
      PROVE  UNCHANGED candidate /\ TasksTell'
  BY <1>5, ClaimPublicationTells, LookForEventTells, PublishCandidateTells
     DEF ClaimPublication, LookForEvent, PublishCandidate, knowledge
<1>6. ASSUME NEW w \in Subscribers, SubscriberRun(w) \/ CrashSubscriber(w)
      PROVE  UNCHANGED <<candidate, publishing>>
  BY <1>6 DEF SubscriberRun, ClaimEvent, SkipEvent, LookForDuplicate, Submit, FailSubmission,
              CrashSubscriber, Dies, knowledge
<1>7. ASSUME NEW r \in Rows, LinkResource(r) PROVE UNCHANGED <<candidate, publishing>>
  BY <1>7 DEF LinkResource, workers, knowledge
<1>8. UNCHANGED candidate => HeldRowsFailed'
  BY DEF TellInv, HeldRowsFailed
<1> QED
  BY <1>1, <1>2, <1>3, <1>4, <1>5, <1>6, <1>7, <1>8, ValidateTells, FinishPublicationTells
     DEF Next, vars, PublisherRun

(* What SpreadsheetIntake reads, named.                                    *)
Shown(s) == IF s = "NONE" THEN "UNKNOWN" ELSE IF s \in Waiting THEN "WAITING" ELSE s
Standings == [f \in Files |-> Shown(status[f])]
Documents == [f \in Files |-> IF source[f] \in blobs THEN source[f] ELSE Null]
ReadyRows == {r \in Rows : candidate[r] = "VALIDATED"}
HeldRows == {r \in Rows : candidate[r] = "NEEDS_REVIEW"}
Seen == <<Standings, Documents, artifacts, readings, ReadyRows, HeldRows,
          events, linked, submissions>>

(* A step nobody sees is no step of the intake.                            *)
LEMMA Unseen == ASSUME UNCHANGED Seen PROVE UNCHANGED Intake!vars
  BY DEF Seen, Intake!vars, Standings, Shown, Documents, ReadyRows, HeldRows

(* Whether a row waits follows from the candidates.                        *)
LEMMA RowsSeen == ASSUME UNCHANGED candidate PROVE UNCHANGED <<ReadyRows, HeldRows>>
  BY DEF ReadyRows, HeldRows

(* One job's new status is one file's new standing.                        *)
LEMMA StandingOfOne ==
  ASSUME TypeOK, NEW f \in Files, NEW s, status' = [status EXCEPT ![f] = s]
  PROVE  /\ Standings[f] = Shown(status[f])
         /\ Standings' = [Standings EXCEPT ![f] = Shown(s)]
<1>1. status'[f] = s /\ \A g \in Files \ {f} : status'[g] = status[g]
  BY DEF TypeOK
<1>2. /\ Standings = [g \in Files |-> Shown(status[g])]
      /\ Standings' = [g \in Files |-> Shown(status'[g])]
  BY DEF Standings, Shown
<1> QED
  BY <1>1, <1>2

(* A job that goes on waiting stands as before.                            *)
LEMMA StillWaiting ==
  ASSUME TypeOK, NEW f \in Files, NEW s \in Waiting, status[f] \in Waiting,
         status' = [status EXCEPT ![f] = s]
  PROVE  UNCHANGED Standings
<1>1. Shown(status[f]) = "WAITING" /\ Shown(s) = "WAITING"
  BY DEF Shown, Waiting
<1>2. Standings' = [Standings EXCEPT ![f] = Standings[f]]
  BY <1>1, StandingOfOne
<1> QED
  BY <1>2 DEF Standings

(* enqueueUpload: one upload becomes the document of a new file; storing,  *)
(* refusing, cleaning up and dying are not seen.                           *)
LEMMA UploadSeen ==
  ASSUME IInv, IInv', NEW u \in Uploads,
         \/ StoreUpload(u) \/ AnswerDuplicate(u) \/ Enqueue(u)
         \/ RejectEnqueue(u) \/ DeleteFinal(u) \/ CrashUpload(u)
  PROVE  Intake!Take(FileOf[u], u) \/ UNCHANGED Intake!vars
<1>1. /\ UNCHANGED <<artifacts, readings, candidate, events, linked, submissions>>
      /\ UNCHANGED <<ReadyRows, HeldRows>>
  BY RowsSeen DEF StoreUpload, AnswerDuplicate, Enqueue, RejectEnqueue, DeleteFinal,
     CrashUpload, Dies, knowledge, outcome
<1>2. /\ Documents = [f \in Files |-> source[f]]
      /\ Documents' = [f \in Files |-> source'[f]]
  BY DEF Documents, IInv, Stored, DocumentsHaveTheirBytes
<1>3. CASE Enqueue(u)
  <2> DEFINE f == FileOf[u]
  <2>1. /\ f \in Files /\ status[f] = "NONE" /\ source[f] = Null
        /\ status' = [status EXCEPT ![f] = "QUEUED"]
        /\ source' = [source EXCEPT ![f] = u]
    BY <1>3, ContentsAssumption DEF Enqueue, KeyIsFree, IInv, Stored
  <2> HIDE DEF f
  <2>2. Standings[f] = "UNKNOWN" /\ Standings' = [Standings EXCEPT ![f] = "WAITING"]
    <3>1. Shown("NONE") = "UNKNOWN" /\ Shown("QUEUED") = "WAITING"
      BY DEF Shown, Waiting
    <3> QED
      BY <2>1, <3>1, StandingOfOne DEF IInv
  <2>3. Documents[f] = Null /\ Documents' = [Documents EXCEPT ![f] = u]
    BY <1>2, <2>1 DEF IInv, TypeOK
  <2>4. Intake!Take(f, u)
    BY <1>1, <2>2, <2>3 DEF Intake!Take, Intake!telling, Standings, Shown, Documents,
       ReadyRows, HeldRows
  <2> QED
    BY <2>4 DEF f
<1>4. CASE ~Enqueue(u)
  <2>1. UNCHANGED <<status, source>>
    BY <1>4 DEF StoreUpload, AnswerDuplicate, RejectEnqueue, DeleteFinal, CrashUpload, Dies,
       knowledge
  <2>2. UNCHANGED <<Standings, Documents>>
    BY <1>2, <2>1 DEF Standings, Shown
  <2> QED
    BY <1>1, <2>2, Unseen DEF Seen
<1> QED
  BY <1>3, <1>4

(* What lies in storage is only changed by uploads.                        *)
LEMMA DocumentsSeen == ASSUME UNCHANGED <<source, blobs>> PROVE UNCHANGED Documents
  BY DEF Documents

(* Extraction reads a file once, validation judges its rows once; claims,  *)
(* looks and deaths are not seen.                                          *)
LEMMA ReaderSeen ==
  ASSUME IInv, NEW w \in Readers, ReaderRun(w) \/ CrashReader(w)
  PROVE  \/ UNCHANGED Intake!vars
         \/ \E f \in Files : Intake!Read(f) \/ Intake!Judge(f) \/ Intake!Fail(f)
<1>1. UNCHANGED <<events, linked, submissions, Documents>>
  BY DocumentsSeen DEF ReaderRun, ClaimExtraction, ClaimUnderstanding, Claim, Look, Extract,
     Validate, FailReading, CrashReader, Dies, outcome, intake
<1>2. ASSUME NEW from \in Waiting, NEW to \in Waiting, Claim(w, from, to)
      PROVE  UNCHANGED Intake!vars
  <2>1. PICK f \in Files : status[f] \in Waiting /\ status' = [status EXCEPT ![f] = to]
    BY <1>2 DEF Claim, Claimed, NextJob
  <2>2. UNCHANGED Standings
    BY <2>1, StillWaiting DEF IInv
  <2>3. UNCHANGED <<artifacts, readings, ReadyRows, HeldRows>>
    BY <1>2, RowsSeen DEF Claim
  <2> QED
    BY <1>1, <2>2, <2>3, Unseen DEF Seen
<1>3. CASE Look(w) \/ CrashReader(w)
  <2>1. UNCHANGED <<status, artifacts, readings, candidate>>
    BY <1>3 DEF Look, CrashReader, Dies, knowledge
  <2>2. UNCHANGED <<Standings, ReadyRows, HeldRows>>
    BY <2>1, RowsSeen DEF Standings, Shown
  <2> QED
    BY <1>1, <2>1, <2>2, Unseen DEF Seen
<1>0. PICK f : f = reading[w].job
  OBVIOUS
<1>4. reading[w] # Null =>
        /\ f \in Files /\ ~reading[w].found
        /\ status[f] = IF w \in Extractors THEN "EXTRACTING" ELSE "VALIDATING"
        /\ artifacts[f] = (IF w \in Extractors THEN 0 ELSE 1) /\ readings[f] = 0
  BY <1>0, JobTypes DEF Reading, IInv, HeldByOne, ReaderHolds, Staged, Stage
<1>5. reading[w] # Null => Standings[f] = "WAITING"
  BY <1>4 DEF Standings, Shown, Waiting
<1>6. CASE Extract(w)
  <2>1. /\ f \in Files /\ artifacts[f] = 0 /\ status[f] \in Waiting
        /\ artifacts' = [artifacts EXCEPT ![f] = @ + 1]
        /\ status' = [status EXCEPT ![f] = "UNDERSTANDING"]
        /\ UNCHANGED <<readings, candidate>>
    BY <1>0, <1>4, <1>6 DEF Extract, Waiting
  <2>2. UNCHANGED Standings
    BY <2>1, StillWaiting DEF IInv, Waiting
  <2>3. UNCHANGED <<ReadyRows, HeldRows>>
    BY <2>1, RowsSeen
  <2>4. artifacts' = [artifacts EXCEPT ![f] = 1]
    BY <2>1
  <2>5. Standings[f] = "WAITING"
    BY <1>5, <1>6 DEF Extract
  <2>6. Intake!Read(f)
    BY <1>1, <2>1, <2>2, <2>3, <2>4, <2>5 DEF Intake!Read, Intake!telling, Standings, Shown,
       Documents, ReadyRows, HeldRows
  <2> QED
    BY <2>1, <2>6
<1>7. CASE Validate(w)
  <2>1. /\ f \in Files /\ artifacts[f] = 1 /\ readings[f] = 0 /\ status[f] \in Waiting
        /\ readings' = [readings EXCEPT ![f] = @ + 1]
        /\ candidate' = [r \in Rows |-> IF r \in RowsOf[f] THEN Verdict(r) ELSE candidate[r]]
        /\ status' = [status EXCEPT ![f] = "NEEDS_REVIEW"]
        /\ UNCHANGED artifacts
    BY <1>0, <1>4, <1>7, WorkersAssumption DEF Validate, Waiting
  <2>10. Standings[f] = "WAITING"
    BY <1>5, <1>7 DEF Validate
  <2>2. Standings' = [Standings EXCEPT ![f] = "NEEDS_REVIEW"]
    <3>1. Shown("NEEDS_REVIEW") = "NEEDS_REVIEW"
      BY DEF Shown, Waiting
    <3>2. Standings' = [Standings EXCEPT ![f] = Shown("NEEDS_REVIEW")]
      BY <2>1, StandingOfOne DEF IInv
    <3> QED
      BY <3>1, <3>2
  <2>3. readings' = [readings EXCEPT ![f] = 1]
    BY <2>1
  <2>4. \A r \in RowsOf[f] : r \in Rows /\ candidate[r] = "NONE" /\ candidate'[r] = Verdict(r)
    BY <2>1, RowsOfFile DEF IInv, CandidatesRead
  <2>5. \A r \in Rows : r \notin RowsOf[f] => candidate'[r] = candidate[r]
    BY <2>1
  <2>6. ReadyRows' = ReadyRows \cup (RowsOf[f] \cap Valid)
    BY <2>4, <2>5 DEF ReadyRows, Verdict
  <2>7. HeldRows' = HeldRows \cup (RowsOf[f] \ Valid)
    BY <2>4, <2>5 DEF HeldRows, Verdict
  <2>9. Intake!Judge(f)
    BY <1>1, <2>1, <2>2, <2>3, <2>6, <2>7, <2>10 DEF Intake!Judge, Intake!telling, Standings,
       Shown, Documents, ReadyRows, HeldRows
  <2> QED
    BY <2>1, <2>9
<1>8. CASE FailReading(w)
  <2>1. /\ f \in Files /\ status' = [status EXCEPT ![f] = "FAILED"]
        /\ UNCHANGED <<artifacts, readings, candidate>>
    BY <1>0, <1>4, <1>8 DEF FailReading
  <2>2. Standings[f] # "UNKNOWN" /\ Standings' = [Standings EXCEPT ![f] = "FAILED"]
    <3>1. Shown("FAILED") = "FAILED"
      BY DEF Shown, Waiting
    <3>2. Standings' = [Standings EXCEPT ![f] = Shown("FAILED")]
      BY <2>1, StandingOfOne DEF IInv
    <3>3. Standings[f] # "UNKNOWN"
      BY <1>5, <1>8 DEF FailReading
    <3> QED
      BY <3>1, <3>2, <3>3
  <2>3. UNCHANGED <<ReadyRows, HeldRows>>
    BY <2>1, RowsSeen
  <2>4. Intake!Fail(f)
    BY <1>1, <2>1, <2>2, <2>3 DEF Intake!Fail, Intake!telling, Intake!reading, Standings, Shown,
       Documents, ReadyRows, HeldRows
  <2> QED
    BY <2>1, <2>4
<1> QED
  BY <1>2, <1>3, <1>6, <1>7, <1>8 DEF ReaderRun, ClaimExtraction, ClaimUnderstanding, Waiting

(* A commit tells every row of the file that waits, none of them twice,    *)
(* and the job's status is right about what is left.                       *)
LEMMA AnnounceSeen ==
  ASSUME IInv, TellInv, NEW w \in Publishers, FinishPublication(w)
  PROVE  \E f \in Files : Intake!Announce(f)
<1>0. PICK task, f, made : task = publishing[w] /\ f = task.job /\ made = task.made
  OBVIOUS
<1>1. /\ task # Null /\ task \in Publishing /\ TaskOK(task) /\ TaskTells(task)
      /\ task.todo = {} /\ f \in Files /\ readings[f] = 1 /\ made \in Seq(Rows)
  BY <1>0, JobTypes DEF FinishPublication, Publishing, IInv, Staged, Working, TellInv, TasksTell
<1>2. /\ events' = events \o made
      /\ candidate' = [r \in Rows |-> IF r \in task.marked THEN "PUBLISHED" ELSE candidate[r]]
      /\ status' = [status EXCEPT ![f] = FinalStatus(f, task.marked)]
      /\ UNCHANGED <<artifacts, readings, linked, submissions, Documents>>
  BY <1>0, DocumentsSeen DEF FinishPublication, intake
<1>3. RowsOf[f] \subseteq Rows
  BY <1>1, RowsOfFile
<1>4. /\ task.marked \subseteq RowsOf[f]
      /\ \A r \in task.marked : candidate[r] \in {"VALIDATED", "PUBLISHED"}
      /\ \A r \in RowsOf[f] : candidate[r] = "VALIDATED" => r \in task.marked
  BY <1>0, <1>1 DEF TaskOK, TaskTells
<1>5. ReadyRows' = ReadyRows \ RowsOf[f] /\ UNCHANGED HeldRows
  BY <1>2, <1>3, <1>4 DEF ReadyRows, HeldRows
<1>6. FinalStatus(f, task.marked) =
        IF HeldRows \cap RowsOf[f] = {} THEN "PUBLISHED" ELSE "NEEDS_REVIEW"
  BY <1>3, <1>4 DEF FinalStatus, HeldRows
<1>7. Standings' = [Standings EXCEPT ![f] =
        IF HeldRows \cap RowsOf[f] = {} THEN "PUBLISHED" ELSE "NEEDS_REVIEW"]
  <2>1. Shown("PUBLISHED") = "PUBLISHED" /\ Shown("NEEDS_REVIEW") = "NEEDS_REVIEW"
    BY DEF Shown, Waiting
  <2> QED
    BY <1>1, <1>2, <1>6, <2>1, StandingOfOne DEF IInv
<1>8. Intake!Tells(f)
  <2> DEFINE news == Len(events) + 1 .. Len(events')
  <2>1. events \in Seq(Rows)
    BY DEF IInv, TypeOK
  <2>2. Len(events') = Len(events) + Len(made)
        /\ \A e \in 1 .. Len(events) : events'[e] = events[e]
    BY <1>1, <1>2, <2>1
  <2>3. \A e \in news : e - Len(events) \in DOMAIN made /\ events'[e] = made[e - Len(events)]
    BY <1>1, <1>2, <2>1
  <2>4. \A i \in DOMAIN made : made[i] \in RowsOf[f] \cap Valid
    BY <1>0, <1>1, <1>3, <1>4 DEF TaskOK, IInv, CandidatesRead
  <2>5. \A i, j \in DOMAIN made : made[i] = made[j] => i = j
    BY <1>0, <1>1 DEF TaskTells
  <2>6. \A d, e \in news : events'[d] = events'[e] => d = e
    <3> SUFFICES ASSUME NEW d \in news, NEW e \in news, events'[d] = events'[e]
                 PROVE  d = e
      OBVIOUS
    <3>1. d - Len(events) = e - Len(events)
      BY <2>3, <2>5
    <3> QED
      BY <2>1, <2>2, <3>1
  <2>7. ASSUME NEW r \in ReadyRows \cap RowsOf[f] PROVE \E e \in news : events'[e] = r
    <3>1. r \in Rows /\ r \in task.marked /\ ~HasEvent(r)
      BY <1>4 DEF ReadyRows, IInv, PublicationWhole
    <3>2. PICK i \in DOMAIN made : made[i] = r
      BY <1>0, <1>1, <3>1 DEF TaskOK, Made
    <3>3. Len(events) + i \in news /\ events'[Len(events) + i] = r
      BY <1>1, <1>2, <2>1, <2>2, <3>2
    <3> QED
      BY <3>3
  <2>8. \A e \in news : events'[e] \in RowsOf[f] \cap Valid
    BY <2>3, <2>4
  <2>9. Len(events) <= Len(events')
    BY <1>1, <2>1, <2>2
  <2> QED
    BY <2>2, <2>6, <2>7, <2>8, <2>9 DEF Intake!Tells, ReadyRows
<1>9. Intake!Announce(f)
  BY <1>1, <1>2, <1>3, <1>5, <1>7, <1>8 DEF Intake!Announce, Intake!reading, Standings, Shown,
     Documents, ReadyRows, HeldRows
<1> QED
  BY <1>1, <1>9

(* What publishers do before they commit is not seen, nor is their death.  *)
LEMMA PublisherSeen ==
  ASSUME IInv, TellInv, NEW w \in Publishers, PublisherRun(w) \/ CrashPublisher(w)
  PROVE  \/ UNCHANGED Intake!vars
         \/ \E f \in Files : Intake!Announce(f) \/ Intake!Fail(f)
<1>1. CASE FinishPublication(w)
  BY <1>1, AnnounceSeen
<1>2. CASE ~FinishPublication(w)
  <2>1. /\ UNCHANGED <<artifacts, readings, candidate, events, linked, submissions>>
        /\ UNCHANGED <<Documents, ReadyRows, HeldRows>>
    BY <1>2, DocumentsSeen, RowsSeen DEF PublisherRun, ClaimPublication, LookForEvent,
       PublishCandidate, FailPublication, CrashPublisher, Dies, knowledge, outcome, intake
  <2>2. CASE FailPublication(w)
    <3>0. PICK f : f = publishing[w].job
      OBVIOUS
    <3>1. /\ f \in Files /\ status[f] \in {"NEEDS_REVIEW", "PUBLISHED", "FAILED"}
          /\ status' = [status EXCEPT ![f] = "FAILED"]
      BY <2>2, <3>0, JobTypes DEF FailPublication, Publishing, IInv, Staged
    <3>2. Standings[f] # "UNKNOWN" /\ Standings' = [Standings EXCEPT ![f] = "FAILED"]
      <4>1. Shown("FAILED") = "FAILED" /\ Shown(status[f]) # "UNKNOWN"
        BY <3>1 DEF Shown, Waiting
      <4> QED
        BY <3>1, <4>1, StandingOfOne DEF IInv
    <3>3. Intake!Fail(f)
      BY <2>1, <3>2 DEF Intake!Fail, Intake!telling, Intake!reading, Standings, Shown,
         Documents, ReadyRows, HeldRows
    <3> QED
      BY <3>1, <3>3
  <2>3. CASE ~FailPublication(w)
    <3>1. UNCHANGED status
      BY <1>2, <2>3 DEF PublisherRun, ClaimPublication, StatusKept, LookForEvent,
         PublishCandidate, CrashPublisher, Dies, knowledge
    <3>2. UNCHANGED Standings
      BY <3>1 DEF Standings, Shown
    <3> QED
      BY <2>1, <3>2, Unseen DEF Seen
  <2> QED
    BY <2>2, <2>3
<1> QED
  BY <1>1, <1>2

(* Of a subscriber, the submission is seen: of a told row whose resource   *)
(* is known.                                                               *)
LEMMA SubscriberSeen ==
  ASSUME IInv, TellInv, NEW w \in Subscribers, SubscriberRun(w) \/ CrashSubscriber(w)
  PROVE  UNCHANGED Intake!vars \/ \E e \in DOMAIN events : Intake!Submit(e)
<1>1. /\ UNCHANGED <<status, artifacts, readings, candidate, events, linked>>
      /\ UNCHANGED <<Documents, ReadyRows, HeldRows, Standings>>
  <2>1. UNCHANGED <<status, artifacts, readings, candidate, source, blobs, events, linked>>
    BY DEF SubscriberRun, ClaimEvent, SkipEvent, LookForDuplicate, Submit, FailSubmission,
           CrashSubscriber, Dies, intake, knowledge, outcome
  <2> QED
    BY <2>1, DocumentsSeen, RowsSeen DEF Standings, Shown
<1>2. CASE Submit(w)
  <2> DEFINE e == subscribing[w].event
  <2>1. /\ e \in DOMAIN events /\ events[e] \in linked
        /\ submissions' = Append(submissions, e)
    BY <1>2 DEF Submit, TellInv, SubscribersKnow
  <2> HIDE DEF e
  <2>2. Intake!Submit(e)
    BY <1>1, <2>1 DEF Intake!Submit, Intake!reading, Standings, Shown, Documents, ReadyRows,
       HeldRows
  <2> QED
    BY <2>1, <2>2
<1>3. CASE ~Submit(w)
  <2>1. UNCHANGED submissions
    BY <1>3 DEF SubscriberRun, ClaimEvent, SkipEvent, LookForDuplicate, FailSubmission,
       CrashSubscriber, Dies, outcome
  <2> QED
    BY <1>1, <2>1, Unseen DEF Seen
<1> QED
  BY <1>2, <1>3

(* A resource is given to the price of a row that passed.                  *)
LEMMA LinkSeen == ASSUME IInv, NEW r \in Rows, LinkResource(r) PROVE Intake!Link(r)
<1>1. /\ UNCHANGED <<artifacts, readings, events, submissions>>
      /\ linked' = linked \cup {r}
      /\ UNCHANGED <<Documents, ReadyRows, HeldRows, Standings>>
  BY DocumentsSeen, RowsSeen DEF LinkResource, intake, knowledge, Standings, Shown
<1>2. r \in ReadyRows \/ Intake!Told(r)
  BY DEF LinkResource, ReadyRows, IInv, PublicationWhole, HasEvent, Intake!Told
<1> QED
  BY <1>1, <1>2 DEF Intake!Link, Intake!reading, Standings, Shown, Documents, ReadyRows, HeldRows

(* Every step is a step of SpreadsheetIntake or not seen.                  *)
LEMMA IntakeStep ==
  IInv /\ IInv' /\ TellInv /\ [Next]_vars => [Intake!Next]_(Intake!vars)
<1> SUFFICES ASSUME IInv, IInv', TellInv, [Next]_vars
             PROVE  Intake!Next \/ UNCHANGED Intake!vars
  OBVIOUS
<1>1. ASSUME NEW u \in Uploads,
             \/ StoreUpload(u) \/ AnswerDuplicate(u) \/ Enqueue(u)
             \/ RejectEnqueue(u) \/ DeleteFinal(u) \/ CrashUpload(u)
      PROVE  Intake!Next \/ UNCHANGED Intake!vars
  <2>1. FileOf[u] \in Files
    BY ContentsAssumption
  <2> QED
    BY <1>1, <2>1, UploadSeen DEF Intake!Next
<1>2. ASSUME NEW w \in Readers, ReaderRun(w) \/ CrashReader(w)
      PROVE  Intake!Next \/ UNCHANGED Intake!vars
  BY <1>2, ReaderSeen DEF Intake!Next
<1>3. ASSUME NEW w \in Publishers, PublisherRun(w) \/ CrashPublisher(w)
      PROVE  Intake!Next \/ UNCHANGED Intake!vars
  BY <1>3, PublisherSeen DEF Intake!Next
<1>4. ASSUME NEW w \in Subscribers, SubscriberRun(w) \/ CrashSubscriber(w)
      PROVE  Intake!Next \/ UNCHANGED Intake!vars
  BY <1>4, SubscriberSeen DEF Intake!Next
<1>5. ASSUME NEW r \in Rows, LinkResource(r) PROVE Intake!Next
  BY <1>5, LinkSeen DEF Intake!Next
<1>6. CASE UNCHANGED vars
  <2>1. UNCHANGED <<Documents, ReadyRows, HeldRows, Standings>>
    BY <1>6, DocumentsSeen, RowsSeen DEF vars, Standings, Shown
  <2> QED
    BY <1>6, <2>1, Unseen DEF vars, Seen
<1> QED
  BY <1>1, <1>2, <1>3, <1>4, <1>5, <1>6 DEF Next

(* Before the first upload nothing is known.                               *)
LEMMA IntakeInit == Init => TellInv /\ Intake!Init
<1> SUFFICES ASSUME Init PROVE TellInv /\ Intake!Init
  OBVIOUS
<1>1. TellInv
  BY DEF Init, TellInv, HeldRowsFailed, TasksTell, SubscribersKnow
<1>2. Intake!Init
  BY DEF Init, Intake!Init
<1> QED
  BY <1>1, <1>2

(* Tasks and what subscribers know are right in every reachable state.     *)
LEMMA TellInvariant == Spec => []TellInv
<1>1. Init => TellInv
  BY IntakeInit
<1>2. IInv /\ TellInv /\ [Next]_vars => TellInv'
  BY TellInvStep
<1> QED
  BY <1>1, <1>2, InductiveInvariant, PTL DEF Spec

(* Whatever overlaps, fails or dies among uploads and workers: a file gets *)
(* one document that stays, is read once, its rows are judged once, and an *)
(* announcement is whole and tells no row twice (enqueueUpload,            *)
(* processOnce of the four workers).                                       *)
THEOREM IntakeImplemented == Spec => ImplementsIntake
<1>1. Init => Intake!Init
  BY IntakeInit
<1> QED
  BY <1>1, IntakeStep, InductiveInvariant, TellInvariant, PTL DEF Spec, ImplementsIntake, Intake!Spec

-----------------------------------------------------------------------------
(* Repeats *)

(* What is written (P) and may still be written by holders (H) stays       *)
(* within the runs there are (W).                                          *)
Within(P, H, W) ==
  IsFiniteSet(P) /\ H \subseteq W /\ Cardinality(P) + Cardinality(H) <= Cardinality(W)

(* While nothing is written, all may hold.                                 *)
LEMMA WithinAtFirst ==
  ASSUME NEW W, IsFiniteSet(W), NEW H \in SUBSET W PROVE Within({}, H, W)
<1>1. Cardinality(H) <= Cardinality(W) /\ Cardinality(H) \in Nat /\ Cardinality({}) = 0
  BY FS_Subset, FS_CardinalityType, FS_EmptySet
<1> QED
  BY <1>1, FS_EmptySet DEF Within

(* Letting go writes nothing.                                              *)
LEMMA WithinShrinks ==
  ASSUME NEW W, IsFiniteSet(W), NEW P, NEW H, Within(P, H, W), NEW J \in SUBSET H
  PROVE  Within(P, J, W)
<1>1. IsFiniteSet(H)
  BY FS_Subset DEF Within
<1>2. IsFiniteSet(J) /\ Cardinality(J) <= Cardinality(H)
  BY <1>1, FS_Subset
<1>3. /\ Cardinality(J) \in Nat /\ Cardinality(H) \in Nat
      /\ Cardinality(P) \in Nat /\ Cardinality(W) \in Nat
  BY <1>1, <1>2, FS_CardinalityType DEF Within
<1> QED
  BY <1>2, <1>3 DEF Within

(* A holder that writes one holds no more.                                 *)
LEMMA WithinMoves ==
  ASSUME NEW W, IsFiniteSet(W), NEW P, NEW H, Within(P, H, W),
         NEW w \in H, NEW J \in SUBSET (H \ {w}), NEW x, x \notin P
  PROVE  Within(P \cup {x}, J, W)
<1>1. IsFiniteSet(H) /\ IsFiniteSet(P) /\ H \subseteq W
  BY FS_Subset DEF Within
<1>2. IsFiniteSet(H \ {w}) /\ Cardinality(H \ {w}) = Cardinality(H) - 1
  BY <1>1, FS_RemoveElement
<1>3. IsFiniteSet(J) /\ Cardinality(J) <= Cardinality(H \ {w})
  BY <1>2, FS_Subset
<1>4. IsFiniteSet(P \cup {x}) /\ Cardinality(P \cup {x}) = Cardinality(P) + 1
  BY <1>1, FS_AddElement
<1>5. /\ Cardinality(J) \in Nat /\ Cardinality(H) \in Nat
      /\ Cardinality(P) \in Nat /\ Cardinality(W) \in Nat
  BY <1>1, <1>3, FS_CardinalityType
<1> QED
  BY <1>1, <1>2, <1>3, <1>4, <1>5 DEF Within

(* A publisher that has made, or may still make, an event of the row; a    *)
(* subscriber that found no submission of the event.                       *)
Announces(task, r) == Made(task, r) \/ (r \in task.todo /\ ~(task.row = r /\ task.found))
Announcers(r) == {w \in Publishers : publishing[w] # Null /\ Announces(publishing[w], r)}
Submitters(e) == {w \in Subscribers :
  subscribing[w] # Null /\ subscribing[w].clear /\ subscribing[w].event = e}

EventsWithin == \A r \in Rows : Within(EventsOf(r), Announcers(r), Publishers)
SubmissionsWithin == \A e \in Nat : Within(SubmissionsOf(e), Submitters(e), Subscribers)

(* A publisher that only lets go of rows leaves the bound of each alone.   *)
LEMMA AnnouncersShrink ==
  ASSUME EventsWithin, NEW r \in Rows, NEW w \in Publishers, UNCHANGED events,
         \A v \in Publishers \ {w} : publishing'[v] = publishing[v],
         publishing'[w] # Null /\ Announces(publishing'[w], r) =>
           publishing[w] # Null /\ Announces(publishing[w], r)
  PROVE  Within(EventsOf(r), Announcers(r), Publishers)'
<1>1. Announcers(r)' \subseteq Announcers(r) /\ EventsOf(r)' = EventsOf(r)
  BY DEF Announcers, Announces, Made, EventsOf
<1>2. Within(EventsOf(r), Announcers(r)', Publishers)
  BY <1>1, WithinShrinks, WorkersAssumption DEF EventsWithin
<1> QED
  BY <1>1, <1>2 DEF Within

(* Only rows without an event are claimed.                                 *)
LEMMA ClaimWithin ==
  ASSUME IInv, EventsWithin, NEW w \in Publishers, ClaimPublication(w) PROVE EventsWithin'
<1> SUFFICES ASSUME NEW r \in Rows PROVE Within(EventsOf(r), Announcers(r), Publishers)'
  BY DEF EventsWithin
<1>1. PICK f \in Files :
        publishing' = [publishing EXCEPT ![w] =
             [job |-> f, todo |-> {q \in RowsOf[f] : candidate[q] = "VALIDATED"},
              row |-> Null, found |-> FALSE, made |-> <<>>, marked |-> {}]]
  BY DEF ClaimPublication
<1>2. /\ publishing'[w] =
             [job |-> f, todo |-> {q \in RowsOf[f] : candidate[q] = "VALIDATED"},
              row |-> Null, found |-> FALSE, made |-> <<>>, marked |-> {}]
      /\ \A v \in Publishers \ {w} : publishing'[v] = publishing[v]
  BY <1>1 DEF IInv, TypeOK
<1>3. UNCHANGED events
  BY DEF ClaimPublication, outcome
<1>4. Announces(publishing'[w], r) => candidate[r] = "VALIDATED"
  BY <1>2 DEF Announces, Made
<1>5. CASE candidate[r] = "VALIDATED"
  <2>1. EventsOf(r)' = {} /\ Announcers(r)' \in SUBSET Publishers
    BY <1>3, <1>5 DEF IInv, PublicationWhole, HasEvent, EventsOf, Announcers
  <2> QED
    BY <2>1, WithinAtFirst, WorkersAssumption DEF Within
<1>6. CASE candidate[r] # "VALIDATED"
  BY <1>2, <1>3, <1>4, <1>6, AnnouncersShrink
<1> QED
  BY <1>5, <1>6

(* Looking at a row, and marking it, give no new right to announce it.     *)
LEMMA LookForEventWithin ==
  ASSUME IInv, EventsWithin, NEW w \in Publishers, LookForEvent(w) PROVE EventsWithin'
<1> DEFINE task == publishing[w]
<1>1. PICK q \in task.todo :
        publishing' = [publishing EXCEPT ![w] = [@ EXCEPT !.row = q, !.found = HasEvent(q)]]
  BY DEF LookForEvent
<1>2. task # Null /\ task \in Publishing /\ task.row = Null
  BY JobTypes DEF IInv, LookForEvent
<1>3. /\ publishing'[w].todo = task.todo /\ publishing'[w].made = task.made
      /\ \A v \in Publishers \ {w} : publishing'[v] = publishing[v]
  BY <1>1, <1>2 DEF IInv, TypeOK, Publishing
<1>4. UNCHANGED events
  BY DEF LookForEvent, outcome
<1>5. ASSUME NEW r \in Rows, Announces(publishing'[w], r) PROVE Announces(task, r)
  BY <1>2, <1>3, <1>5, NullAssumption DEF Announces, Made
<1> QED
  BY <1>2, <1>3, <1>4, <1>5, AnnouncersShrink DEF EventsWithin

(* Marking a row announces it at most where the publisher already might.   *)
LEMMA PublishCandidateWithin ==
  ASSUME IInv, EventsWithin, NEW w \in Publishers, PublishCandidate(w) PROVE EventsWithin'
<1> DEFINE task == publishing[w]
<1>1. /\ task # Null /\ task \in Publishing /\ task.row # Null
      /\ publishing'[w].todo = task.todo \ {task.row}
      /\ publishing'[w].made = IF task.found THEN task.made ELSE Append(task.made, task.row)
      /\ \A v \in Publishers \ {w} : publishing'[v] = publishing[v]
  BY MarkedTask DEF IInv
<1>2. task.made \in Seq(Rows) /\ task.row \in task.todo
  BY <1>1 DEF Publishing, IInv, Working, TaskOK
<1>3. UNCHANGED events
  BY DEF PublishCandidate, outcome
<1>4. ASSUME NEW r \in Rows, Announces(publishing'[w], r) PROVE Announces(task, r)
  <2>1. CASE Made(publishing'[w], r) /\ ~Made(task, r)
    <3>1. ~task.found /\ r = task.row
      BY <1>1, <1>2, <2>1 DEF Made
    <3> QED
      BY <1>2, <3>1 DEF Announces
  <2>2. CASE r \in task.todo \ {task.row}
    BY <2>2 DEF Announces
  <2> QED
    BY <1>1, <1>4, <2>1, <2>2 DEF Announces
<1> QED
  BY <1>1, <1>3, <1>4, AnnouncersShrink DEF EventsWithin

Places(s, r) == {e \in DOMAIN s : s[e] = r}

(* The places of a row in two sequences, one after the other.              *)
LEMMA PlacesAfter ==
  ASSUME NEW s \in Seq(Rows), NEW t \in Seq(Rows), NEW r
  PROVE  /\ Places(s \o t, r) = Places(s, r) \cup {Len(s) + i : i \in Places(t, r)}
         /\ \A i \in Places(t, r) : Len(s) + i \notin Places(s, r)
<1> DEFINE both == s \o t
<1>1. /\ DOMAIN both = 1 .. Len(s) + Len(t) /\ Len(s) \in Nat /\ Len(t) \in Nat
      /\ DOMAIN s = 1 .. Len(s) /\ DOMAIN t = 1 .. Len(t)
  OBVIOUS
<1>2. \A e \in DOMAIN s : both[e] = s[e]
  OBVIOUS
<1>3. \A i \in DOMAIN t : both[Len(s) + i] = t[i]
  OBVIOUS
<1> HIDE DEF both
<1>4. ASSUME NEW e \in Places(both, r)
      PROVE  e \in Places(s, r) \cup {Len(s) + i : i \in Places(t, r)}
  <2>1. CASE e \in DOMAIN s
    BY <1>2, <2>1 DEF Places
  <2>2. CASE e \notin DOMAIN s
    <3>1. e - Len(s) \in DOMAIN t /\ e = Len(s) + (e - Len(s))
      BY <1>1, <2>2 DEF Places
    <3>2. e - Len(s) \in Places(t, r)
      BY <1>3, <3>1 DEF Places
    <3> QED
      BY <3>1, <3>2
  <2> QED
    BY <2>1, <2>2
<1>5. Places(s, r) \subseteq Places(both, r)
  BY <1>1, <1>2 DEF Places
<1>6. ASSUME NEW i \in Places(t, r)
      PROVE  Len(s) + i \in Places(both, r) /\ Len(s) + i \notin Places(s, r)
  BY <1>1, <1>3 DEF Places
<1> QED
  BY <1>4, <1>5, <1>6 DEF both

(* A commit adds one event of each row it made one of.                     *)
LEMMA CommittedPlaces ==
  ASSUME NEW s \in Seq(Rows), NEW t \in Seq(Rows), NEW r, NEW i \in DOMAIN t, t[i] = r,
         \A j \in DOMAIN t : t[i] = t[j] => i = j
  PROVE  Places(s \o t, r) = Places(s, r) \cup {Len(s) + i} /\ Len(s) + i \notin Places(s, r)
<1>1. Places(t, r) = {i}
  BY DEF Places
<1>2. {Len(s) + j : j \in Places(t, r)} = {Len(s) + i}
  BY <1>1
<1> QED
  BY <1>1, <1>2, PlacesAfter

(* And none of the others.                                                 *)
LEMMA OtherPlaces ==
  ASSUME NEW s \in Seq(Rows), NEW t \in Seq(Rows), NEW r, \A i \in DOMAIN t : t[i] # r
  PROVE  Places(s \o t, r) = Places(s, r)
<1>1. Places(t, r) = {}
  BY DEF Places
<1>2. {Len(s) + j : j \in Places(t, r)} = {}
  BY <1>1
<1>3. Places(s \o t, r) = Places(s, r) \cup {Len(s) + j : j \in Places(t, r)}
  BY PlacesAfter
<1>4. Places(s, r) \cup {} = Places(s, r)
  OBVIOUS
<1> QED
  BY <1>2, <1>3, <1>4

(* A commit turns the publisher's right to announce a row into an event.   *)
LEMMA FinishWithin ==
  ASSUME IInv, TellInv, EventsWithin, NEW w \in Publishers, FinishPublication(w)
  PROVE  EventsWithin'
<1> SUFFICES ASSUME NEW r \in Rows PROVE Within(EventsOf(r), Announcers(r), Publishers)'
  BY DEF EventsWithin
<1>1. PICK task, made : task = publishing[w] /\ made = task.made
  OBVIOUS
<1>2. /\ task # Null /\ task \in Publishing /\ made \in Seq(Rows) /\ events \in Seq(Rows)
      /\ \A i, j \in DOMAIN made : made[i] = made[j] => i = j
      /\ events' = events \o made /\ task.todo = {}
  BY <1>1, JobTypes
     DEF FinishPublication, Publishing, IInv, TypeOK, TellInv, TasksTell, TaskTells
<1>8. /\ events \in Seq(Rows) /\ made \in Seq(Rows)
      /\ \A i, j \in DOMAIN made : made[i] = made[j] => i = j
  BY <1>2
<1>9. EventsOf(r) = Places(events, r) /\ EventsOf(r)' = Places(events \o made, r)
  <2>1. events' = events \o made
    BY <1>2
  <2> QED
    BY <2>1, Zenon DEF EventsOf, Places
<1>3. publishing'[w] = Null /\ \A v \in Publishers \ {w} : publishing'[v] = publishing[v]
  BY DEF FinishPublication, IInv, TypeOK
<1>4. Announcers(r)' \subseteq Announcers(r) \ {w}
  BY <1>3 DEF Announcers, Announces, Made
<1>5. Within(EventsOf(r), Announcers(r), Publishers) /\ IsFiniteSet(Publishers)
  BY WorkersAssumption DEF EventsWithin
<1>6. CASE Made(task, r)
  <2>1. w \in Announcers(r)
    BY <1>1, <1>2, <1>6 DEF Announcers, Announces
  <2>2. PICK i \in DOMAIN made : made[i] = r
    BY <1>1, <1>6 DEF Made
  <2> DEFINE x == Len(events) + i
  <2>4. Places(events \o made, r) = Places(events, r) \cup {x} /\ x \notin Places(events, r)
    BY <1>8, <2>2, CommittedPlaces
  <2> HIDE DEF x
  <2>5. x \notin EventsOf(r) /\ EventsOf(r)' = EventsOf(r) \cup {x}
    BY <1>9, <2>4
  <2>3. Within(EventsOf(r) \cup {x}, Announcers(r)', Publishers)
    BY <1>4, <1>5, <2>1, <2>5, WithinMoves
  <2> QED
    BY <2>3, <2>5 DEF Within
<1>7. CASE ~Made(task, r)
  <2>3. \A i \in DOMAIN made : made[i] # r
    BY <1>1, <1>7 DEF Made
  <2>4. Places(events \o made, r) = Places(events, r)
    BY <1>8, <2>3, OtherPlaces
  <2>1. EventsOf(r)' = EventsOf(r)
    BY <1>9, <2>4
  <2>2. Within(EventsOf(r), Announcers(r)', Publishers)
    BY <1>4, <1>5, WithinShrinks
  <2> QED
    BY <2>1, <2>2 DEF Within
<1> QED
  BY <1>6, <1>7

(* Each step of a publisher keeps the bound.                               *)
LEMMA PublisherWithin ==
  ASSUME IInv, TellInv, EventsWithin, NEW w \in Publishers, PublisherRun(w) \/ CrashPublisher(w)
  PROVE  EventsWithin'
<1>1. CASE FailPublication(w) \/ CrashPublisher(w)
  <2>1. /\ publishing'[w] = Null /\ \A v \in Publishers \ {w} : publishing'[v] = publishing[v]
        /\ UNCHANGED events
    BY <1>1 DEF FailPublication, CrashPublisher, Dies, outcome, IInv, TypeOK
  <2> QED
    BY <2>1, AnnouncersShrink DEF EventsWithin
<1> QED
  BY <1>1, ClaimWithin, LookForEventWithin, PublishCandidateWithin, FinishWithin DEF PublisherRun

(* A look that finds no submission, and a submission after it.             *)
LEMMA SubscriberWithin ==
  ASSUME TypeOK, SubmissionsWithin, NEW w \in Subscribers, SubscriberRun(w) \/ CrashSubscriber(w)
  PROVE  SubmissionsWithin'
<1> SUFFICES ASSUME NEW e \in Nat PROVE Within(SubmissionsOf(e), Submitters(e), Subscribers)'
  BY DEF SubmissionsWithin
<1>1. Within(SubmissionsOf(e), Submitters(e), Subscribers) /\ IsFiniteSet(Subscribers)
  BY WorkersAssumption DEF SubmissionsWithin
<1>2. \A v \in Subscribers \ {w} : subscribing'[v] = subscribing[v]
  BY DEF SubscriberRun, ClaimEvent, SkipEvent, LookForDuplicate, Submit, FailSubmission,
         CrashSubscriber, TypeOK
<1>3. ASSUME UNCHANGED submissions, Submitters(e)' \subseteq Submitters(e)
      PROVE  Within(SubmissionsOf(e), Submitters(e), Subscribers)'
  <2>1. SubmissionsOf(e)' = SubmissionsOf(e)
    BY <1>3 DEF SubmissionsOf
  <2>2. Within(SubmissionsOf(e), Submitters(e)', Subscribers)
    BY <1>1, <1>3, WithinShrinks
  <2> QED
    BY <2>1, <2>2 DEF Within
<1>4. CASE ClaimEvent(w) \/ SkipEvent(w) \/ FailSubmission(w) \/ CrashSubscriber(w)
  <2>1. UNCHANGED submissions
    BY <1>4 DEF ClaimEvent, SkipEvent, FailSubmission, CrashSubscriber, Dies, outcome
  <2>2. subscribing'[w] = Null \/ ~subscribing'[w].clear
    BY <1>4 DEF ClaimEvent, SkipEvent, FailSubmission, CrashSubscriber, TypeOK
  <2>3. Submitters(e)' \subseteq Submitters(e)
    BY <1>2, <2>2 DEF Submitters
  <2> QED
    BY <1>3, <2>1, <2>3
<1>5. CASE LookForDuplicate(w)
  <2>1. subscribing[w] # Null /\ subscribing[w] \in Subscribing /\ UNCHANGED submissions
    BY <1>5, JobTypes DEF LookForDuplicate, outcome
  <2>2. subscribing'[w].event = subscribing[w].event
    BY <1>5, <2>1 DEF LookForDuplicate, TypeOK, Subscribing
  <2>3. CASE subscribing[w].event = e
    <3>1. SubmissionsOf(e)' = {}
      BY <1>5, <2>1, <2>3 DEF LookForDuplicate, HasSubmission, SubmissionsOf
    <3>2. Submitters(e)' \in SUBSET Subscribers
      BY DEF Submitters
    <3> QED
      BY <1>1, <3>1, <3>2, WithinAtFirst DEF Within
  <2>4. CASE subscribing[w].event # e
    <3>1. Submitters(e)' \subseteq Submitters(e)
      BY <1>2, <2>2, <2>4 DEF Submitters
    <3> QED
      BY <1>3, <2>1, <3>1
  <2> QED
    BY <2>3, <2>4
<1>6. CASE Submit(w)
  <2>1. PICK d : d = subscribing[w].event
    OBVIOUS
  <2>2. /\ subscribing[w] # Null /\ subscribing[w].clear /\ d \in Nat
        /\ submissions \in Seq(Nat) /\ submissions' = Append(submissions, d)
        /\ subscribing'[w] = Null
    BY <1>6, <2>1, JobTypes DEF Submit, TypeOK, Subscribing
  <2>3. Submitters(e)' \subseteq Submitters(e) \ {w}
    BY <1>2, <2>2 DEF Submitters
  <2>4. CASE d = e
    <3>1. w \in Submitters(e)
      BY <2>1, <2>2, <2>4 DEF Submitters
    <3>2. /\ SubmissionsOf(e)' = SubmissionsOf(e) \cup {Len(submissions) + 1}
          /\ Len(submissions) + 1 \notin SubmissionsOf(e)
      BY <2>2, <2>4 DEF SubmissionsOf
    <3>3. Within(SubmissionsOf(e) \cup {Len(submissions) + 1}, Submitters(e)', Subscribers)
      BY <1>1, <2>3, <3>1, <3>2, WithinMoves
    <3> QED
      BY <3>2, <3>3 DEF Within
  <2>5. CASE d # e
    <3>1. SubmissionsOf(e)' = SubmissionsOf(e)
      BY <2>2, <2>5 DEF SubmissionsOf
    <3>2. Within(SubmissionsOf(e), Submitters(e)', Subscribers)
      BY <1>1, <2>3, WithinShrinks
    <3> QED
      BY <3>1, <3>2 DEF Within
  <2> QED
    BY <2>4, <2>5
<1> QED
  BY <1>4, <1>5, <1>6 DEF SubscriberRun

(* Every step keeps both bounds.                                           *)
LEMMA WithinStep ==
  ASSUME IInv, TellInv, EventsWithin, SubmissionsWithin, [Next]_vars
  PROVE  EventsWithin' /\ SubmissionsWithin'
<1>1. ASSUME UNCHANGED <<publishing, events>> PROVE EventsWithin'
  BY <1>1 DEF EventsWithin, EventsOf, Announcers, Announces, Made
<1>2. ASSUME UNCHANGED <<subscribing, submissions>> PROVE SubmissionsWithin'
  BY <1>2 DEF SubmissionsWithin, SubmissionsOf, Submitters
<1>3. ASSUME NEW u \in Uploads,
             \/ StoreUpload(u) \/ AnswerDuplicate(u) \/ Enqueue(u)
             \/ RejectEnqueue(u) \/ DeleteFinal(u) \/ CrashUpload(u)
      PROVE  UNCHANGED <<publishing, events, subscribing, submissions>>
  BY <1>3 DEF StoreUpload, AnswerDuplicate, Enqueue, RejectEnqueue, DeleteFinal, CrashUpload,
              Dies, workers, outcome
<1>4. ASSUME NEW w \in Readers, ReaderRun(w) \/ CrashReader(w)
      PROVE  UNCHANGED <<publishing, events, subscribing, submissions>>
  BY <1>4 DEF ReaderRun, ClaimExtraction, ClaimUnderstanding, Claim, Look, Extract, Validate,
              FailReading, CrashReader, Dies, outcome
<1>5. ASSUME NEW w \in Publishers, PublisherRun(w) \/ CrashPublisher(w)
      PROVE  EventsWithin' /\ UNCHANGED <<subscribing, submissions>>
  <2>1. UNCHANGED <<subscribing, submissions>>
    BY <1>5 DEF PublisherRun, ClaimPublication, LookForEvent, PublishCandidate,
                FinishPublication, FailPublication, CrashPublisher, Dies, outcome
  <2> QED
    BY <1>5, <2>1, PublisherWithin
<1>6. ASSUME NEW w \in Subscribers, SubscriberRun(w) \/ CrashSubscriber(w)
      PROVE  SubmissionsWithin' /\ UNCHANGED <<publishing, events>>
  <2>1. UNCHANGED <<publishing, events>>
    BY <1>6 DEF SubscriberRun, ClaimEvent, SkipEvent, LookForDuplicate, Submit, FailSubmission,
                CrashSubscriber, Dies, outcome
  <2> QED
    BY <1>6, <2>1, SubscriberWithin DEF IInv
<1>7. ASSUME NEW r \in Rows, LinkResource(r)
      PROVE  UNCHANGED <<publishing, events, subscribing, submissions>>
  BY <1>7 DEF LinkResource, workers
<1>8. UNCHANGED vars => UNCHANGED <<publishing, events, subscribing, submissions>>
  BY DEF vars
<1> QED
  BY <1>1, <1>2, <1>3, <1>4, <1>5, <1>6, <1>7, <1>8 DEF Next

(* However many runs overlap, fail or die, a row has at most as many       *)
(* events, and an event at most as many submissions, as runs of the stage  *)
(* may overlap; without overlap there is one (claimNextJob of the          *)
(* publication worker, claimNextEvent and processOnce of the subscription).*)
THEOREM RepeatsBounded == Spec => []RepeatsBoundedByOverlap
<1>1. Init => EventsWithin /\ SubmissionsWithin
  <2> SUFFICES ASSUME Init PROVE EventsWithin /\ SubmissionsWithin
    OBVIOUS
  <2>1. \A r \in Rows : EventsOf(r) = {} /\ Announcers(r) \in SUBSET Publishers
    BY DEF Init, EventsOf, Announcers
  <2>2. \A e \in Nat : SubmissionsOf(e) = {} /\ Submitters(e) \in SUBSET Subscribers
    BY DEF Init, SubmissionsOf, Submitters
  <2>3. EventsWithin
    BY <2>1, WithinAtFirst, WorkersAssumption DEF EventsWithin
  <2>4. SubmissionsWithin
    BY <2>2, WithinAtFirst, WorkersAssumption DEF SubmissionsWithin
  <2> QED
    BY <2>3, <2>4
<1>2. IInv /\ TellInv /\ EventsWithin /\ SubmissionsWithin /\ [Next]_vars
        => EventsWithin' /\ SubmissionsWithin'
  BY WithinStep
<1>3. IInv /\ EventsWithin /\ SubmissionsWithin => RepeatsBoundedByOverlap
  <2>1. ASSUME NEW P, NEW H, NEW W, IsFiniteSet(W), Within(P, H, W)
        PROVE  Cardinality(P) <= Cardinality(W)
    <3>1. IsFiniteSet(P) /\ IsFiniteSet(H)
      BY <2>1, FS_Subset DEF Within
    <3>2. Cardinality(P) \in Nat /\ Cardinality(H) \in Nat /\ Cardinality(W) \in Nat
      BY <2>1, <3>1, FS_CardinalityType
    <3> QED
      BY <2>1, <3>2 DEF Within
  <2> SUFFICES ASSUME IInv, EventsWithin, SubmissionsWithin PROVE RepeatsBoundedByOverlap
    OBVIOUS
  <2>2. \A r \in Rows : Cardinality(EventsOf(r)) <= Cardinality(Publishers)
    BY <2>1, WorkersAssumption DEF EventsWithin
  <2>3. DOMAIN events \subseteq Nat
    BY DEF IInv, TypeOK
  <2>4. \A e \in DOMAIN events : Cardinality(SubmissionsOf(e)) <= Cardinality(Subscribers)
    BY <2>1, <2>3, WorkersAssumption DEF SubmissionsWithin
  <2> QED
    BY <2>2, <2>4 DEF RepeatsBoundedByOverlap
<1> QED
  BY <1>1, <1>2, <1>3, InductiveInvariant, TellInvariant, PTL DEF Spec

=============================================================================
