--------------------------- MODULE ProgressEntries ---------------------------
(***************************************************************************)
(* The actuals of one project: who reports, corrects, verifies, accepts    *)
(* and attests a quantity, and what the rows then prove                    *)
(* (progress.service.ts, progress-authority.service.ts,                    *)
(* progress-semantic-authority.policy.ts).  Rows are never deleted; a      *)
(* correction is a new row that supersedes an old one.                     *)
(*                                                                         *)
(* Each handler is one READ COMMITTED transaction that takes row locks one *)
(* by one and decides once, on what it reads under them.  So a request is  *)
(* a sequence of TakeLock steps, the decision being part of one of them,   *)
(* and one step that commits.  An insert into progress_reports or          *)
(* progress_audit_events takes a KEY SHARE lock on the project row through *)
(* its foreign key, and waits while somebody holds it FOR UPDATE.          *)
(*                                                                         *)
(* The project is in execution and its plan is locked (ExecutionGate), the *)
(* baseline does not change, positions (Holders, MayCombine) are fixed, a  *)
(* report has one entry, and a client attests the context it reads when it *)
(* asks.  The audit trail of refusals, whose command ids live in a name    *)
(* space of their own, is left out.                                        *)
(*                                                                         *)
(* Operators whose name ends in Bug are a neighbour's mistaken form; no    *)
(* other definition uses them.                                             *)
(***************************************************************************)
EXTENDS Integers, Sequences, FiniteSets

CONSTANTS
  People,       \* accounts
  Holders,      \* [kind of act -> accounts whose position gives the authority]
  MayCombine,   \* [policy -> accounts whose position may combine responsibilities]
  Items,        \* work items of the active baseline
  Commands,     \* command ids
  Slots,        \* requests in flight at one time
  MaxRecords,   \* bound on entries, events and requests in flight together
  Null

ASSUME HoldersAssumption ==
  Holders \in [{"SUBMIT", "CORRECT", "VERIFY", "ACCEPT"} -> SUBSET People]
ASSUME PolicyAssumption == MayCombine \in [{"VERIFY", "ACCEPT"} -> SUBSET People]
ASSUME BoundAssumption == MaxRecords \in Nat
ASSUME NullAssumption == Null \notin {"SUBMITTED", "VERIFIED", "ACCEPTED"}

VARIABLES
  entries,   \* progress entries, in the order they were written
  events,    \* successful audit events of verification, acceptance, attestation
  request    \* what each slot is working on, or Null

vars == <<entries, events, request>>

----------------------------------------------------------------------------
(* Shape of the state.                                                     *)

Effective == {"SUBMITTED", "VERIFIED", "ACCEPTED"}
Entry == [item : Items, by : People, command : Commands,
          parent : Nat, status : Effective \cup {"RETURNED"}]
Event == [act : {"VERIFY", "ACCEPT", "ATTEST"}, command : Commands,
          by : People, entry : Nat, context : SUBSET Nat]
Ask == [kind : {"SUBMIT", "CORRECT", "VERIFY", "ACCEPT", "ATTEST"},
        command : Commands, by : People, item : Items, entry : Nat,
        context : SUBSET Nat]
Request == [ask : Ask, taken : 0..3, seen : Effective \cup {Null}]

Init == entries = <<>> /\ events = {} /\ request = [r \in Slots |-> Null]

Ids == 1..Len(entries)
Superseded(e) == \E f \in Ids : entries[f].parent = e

(* All entries of the work item; their content never changes, so naming    *)
(* them is as good as the digest of it.                                    *)
ContextOfRootsBug(item) == {e \in Ids : entries[e].item = item /\ entries[e].parent = 0}
Context(item) == {e \in Ids : entries[e].item = item}

----------------------------------------------------------------------------
(* Row locks.                                                              *)

ProjectForUpdate == [on |-> "PROJECT", key |-> 0, mode |-> "UPDATE"]
ProjectShared == [on |-> "PROJECT", key |-> 0, mode |-> "SHARE"]
EntryForUpdate(e) == [on |-> "ENTRY", key |-> e, mode |-> "UPDATE"]
ItemForUpdate(i) == [on |-> "ITEM", key |-> i, mode |-> "UPDATE"]

Conflict(k, l) == k.on = l.on /\ k.key = l.key /\ "UPDATE" \in {k.mode, l.mode}

(* The locks of a request in the order it takes them.  The last one of a   *)
(* correction and of a transition comes from a foreign key.                *)
LocksCorrectUnlockedBug(q) ==
  CASE q.kind = "SUBMIT" -> <<ProjectShared, ItemForUpdate(q.item)>>
    [] q.kind = "CORRECT" -> <<ItemForUpdate(q.item), ProjectShared>>
    [] q.kind \in {"VERIFY", "ACCEPT"} -> <<EntryForUpdate(q.entry), ProjectShared>>
    [] q.kind = "ATTEST" ->
         <<ProjectForUpdate, EntryForUpdate(q.entry), ItemForUpdate(q.item)>>
LocksVerifyUnlockedBug(q) ==
  CASE q.kind = "SUBMIT" -> <<ProjectShared, ItemForUpdate(q.item)>>
    [] q.kind = "CORRECT" ->
         <<EntryForUpdate(q.entry), ItemForUpdate(q.item), ProjectShared>>
    [] q.kind \in {"VERIFY", "ACCEPT"} -> <<ProjectShared>>
    [] q.kind = "ATTEST" ->
         <<ProjectForUpdate, EntryForUpdate(q.entry), ItemForUpdate(q.item)>>
Locks(q) ==
  CASE q.kind = "SUBMIT" -> <<ProjectShared, ItemForUpdate(q.item)>>
    [] q.kind = "CORRECT" ->
         <<EntryForUpdate(q.entry), ItemForUpdate(q.item), ProjectShared>>
    [] q.kind \in {"VERIFY", "ACCEPT"} -> <<EntryForUpdate(q.entry), ProjectShared>>
    [] q.kind = "ATTEST" ->
         <<ProjectForUpdate, EntryForUpdate(q.entry), ItemForUpdate(q.item)>>

Held(r) ==
  IF request[r] = Null THEN {}
  ELSE {Locks(request[r].ask)[n] : n \in 1..request[r].taken}
Waiting(r) == request[r] # Null /\ request[r].taken < Len(Locks(request[r].ask))
Wanted(r) == Locks(request[r].ask)[request[r].taken + 1]
Blockers(r) ==
  {q \in Slots \ {r} : \E k \in Held(q) : Conflict(k, Wanted(r))}

----------------------------------------------------------------------------
(* What a handler asks of the rows it reads.                               *)

Reported(command) == \E e \in Ids : entries[e].command = command
Acted(command) == \E v \in events : v.command = command
Verifiers(e) == {v.by : v \in {w \in events : w.act = "VERIFY" /\ w.entry = e}}

(* An attestation asks for the authority and the policy of a verification. *)
AskedAs(kind) == IF kind = "ATTEST" THEN "VERIFY" ELSE kind

SeparateDutiesOnePolicyBug(act, by, others) ==
  by \notin others \/ \E policy \in DOMAIN MayCombine : by \in MayCombine[policy]
SeparateDuties(act, by, others) ==
  by \notin others \/ by \in MayCombine[AskedAs(act)]

MayCorrect(q) ==
  /\ ~Reported(q.command)
  /\ ~Superseded(q.entry)
  /\ entries[q.entry].status \in Effective

MayVerify(q) ==
  /\ ~Acted(q.command)
  /\ SeparateDuties(q.kind, q.by, {entries[q.entry].by})
  /\ ~Superseded(q.entry)
  /\ entries[q.entry].status = "SUBMITTED"

MayAccept(q) ==
  /\ ~Acted(q.command)
  /\ SeparateDuties(q.kind, q.by, {entries[q.entry].by} \cup Verifiers(q.entry))
  /\ ~Superseded(q.entry)
  /\ entries[q.entry].status = "VERIFIED"

MayAttest(q) ==
  /\ ~Acted(q.command)
  /\ ~Superseded(q.entry)
  /\ entries[q.entry].status \in {"VERIFIED", "ACCEPTED"}
  /\ q.context = Context(q.item)
  /\ SeparateDuties(q.kind, q.by, {entries[q.entry].by})

(* What the handler must find when it holds n of its locks.                *)
UnusedReportsBug(command) == ~Reported(command)
UnusedReports(command) == ~Reported(command) /\ ~Acted(command)
ChecksBeforeLocksBug(q, n) ==
  CASE n = 0 /\ q.kind \in {"SUBMIT", "CORRECT"} -> UnusedReports(q.command)
    [] n = 1 /\ q.kind = "CORRECT" -> MayCorrect(q)
    [] n = 1 /\ q.kind = "VERIFY" -> MayVerify(q)
    [] n = 1 /\ q.kind = "ACCEPT" -> MayAccept(q)
    [] n = 0 /\ q.kind = "ATTEST" -> MayAttest(q)
    [] OTHER -> TRUE
Checks(q, n) ==
  CASE n = 0 /\ q.kind \in {"SUBMIT", "CORRECT"} -> UnusedReports(q.command)
    [] n = 1 /\ q.kind = "CORRECT" -> MayCorrect(q)
    [] n = 1 /\ q.kind = "VERIFY" -> MayVerify(q)
    [] n = 1 /\ q.kind = "ACCEPT" -> MayAccept(q)
    [] n = 3 /\ q.kind = "ATTEST" -> MayAttest(q)
    [] OTHER -> TRUE

----------------------------------------------------------------------------
(* The course of a request.                                                *)

Answer(r) == request' = [request EXCEPT ![r] = Null]

Begin(r, q) ==
  /\ request[r] = Null
  /\ Checks(q, 0)
  /\ request' = [request EXCEPT ![r] = [ask |-> q, taken |-> 0, seen |-> Null]]
  /\ UNCHANGED <<entries, events>>

Room == Len(entries) + Cardinality(events)
          + Cardinality({r \in Slots : request[r] # Null}) < MaxRecords

Submit(r, command, by, item) ==
  /\ Room
  /\ Begin(r, [kind |-> "SUBMIT", command |-> command, by |-> by, item |-> item,
               entry |-> 0, context |-> {}])

Act(r, kind, command, by, e) ==
  /\ Room
  /\ Begin(r, [kind |-> kind, command |-> command, by |-> by,
               item |-> entries[e].item, entry |-> e,
               context |-> IF kind = "ATTEST" THEN Context(entries[e].item) ELSE {}])

Granted(r) == Waiting(r) /\ Blockers(r) = {}

(* The next lock is granted, and what the handler then reads lets it go on. *)
Proceed(r) ==
  /\ Granted(r)
  /\ LET x == request[r] IN
     /\ Checks(x.ask, x.taken + 1)
     /\ request' = [request EXCEPT ![r] =
          [ask |-> x.ask, taken |-> x.taken + 1,
           seen |-> IF x.ask.kind = "CORRECT" /\ x.taken = 0
                    THEN entries[x.ask.entry].status ELSE x.seen]]
  /\ UNCHANGED <<entries, events>>

Refuse(r) ==
  /\ Granted(r)
  /\ ~Checks(request[r].ask, request[r].taken + 1)
  /\ Answer(r)
  /\ UNCHANGED <<entries, events>>

Ready(r) == request[r] # Null /\ request[r].taken = Len(Locks(request[r].ask))

(* The unique indexes on the command and on the superseded entry.          *)
UniqueReport(q) ==
  ~Reported(q.command) /\ (q.kind = "CORRECT" => ~Superseded(q.entry))
UniqueEvent(q) == ~Acted(q.command)

NewEntrySelfBug(q) == [item |-> q.item, by |-> q.by, command |-> q.command,
                       parent |-> Len(entries) + 1, status |-> "SUBMITTED"]
NewEntry(q) == [item |-> q.item, by |-> q.by, command |-> q.command,
                parent |-> q.entry, status |-> "SUBMITTED"]

CommitSubmit(r) ==
  /\ Ready(r) /\ request[r].ask.kind = "SUBMIT"
  /\ UniqueReport(request[r].ask)
  /\ entries' = Append(entries, NewEntry(request[r].ask))
  /\ Answer(r)
  /\ UNCHANGED events

(* Only an entry nobody verified is returned; the history of the others    *)
(* keeps the status they had.                                              *)
CommitCorrect(r) ==
  /\ Ready(r) /\ request[r].ask.kind = "CORRECT"
  /\ UniqueReport(request[r].ask)
  /\ LET q == request[r].ask IN
     entries' = Append(IF request[r].seen = "SUBMITTED"
                       THEN [entries EXCEPT ![q.entry].status = "RETURNED"]
                       ELSE entries, NewEntry(q))
  /\ Answer(r)
  /\ UNCHANGED events

EventOf(q) == [act |-> q.kind, command |-> q.command, by |-> q.by,
               entry |-> q.entry, context |-> q.context]

CommitTransition(r) ==
  /\ Ready(r) /\ request[r].ask.kind \in {"VERIFY", "ACCEPT"}
  /\ UniqueEvent(request[r].ask)
  /\ LET q == request[r].ask IN
     /\ entries' = [entries EXCEPT ![q.entry].status =
                      IF q.kind = "VERIFY" THEN "VERIFIED" ELSE "ACCEPTED"]
     /\ events' = events \cup {EventOf(q)}
  /\ Answer(r)

CommitAttest(r) ==
  /\ Ready(r) /\ request[r].ask.kind = "ATTEST"
  /\ UniqueEvent(request[r].ask)
  /\ events' = events \cup {EventOf(request[r].ask)}
  /\ Answer(r)
  /\ UNCHANGED entries

(* The insert meets a unique index: the request is answered from what the  *)
(* other one left.                                                         *)
Collide(r) ==
  /\ Ready(r)
  /\ IF request[r].ask.kind \in {"SUBMIT", "CORRECT"}
     THEN ~UniqueReport(request[r].ask) ELSE ~UniqueEvent(request[r].ask)
  /\ Answer(r)
  /\ UNCHANGED <<entries, events>>

(* The transaction is rolled back: a connection is lost, a timeout strikes, *)
(* or PostgreSQL breaks a deadlock.                                        *)
Abort(r) ==
  /\ request[r] # Null
  /\ Answer(r)
  /\ UNCHANGED <<entries, events>>

Step(r) ==
  \/ Proceed(r) \/ Refuse(r) \/ Collide(r) \/ Abort(r)
  \/ CommitSubmit(r) \/ CommitCorrect(r) \/ CommitTransition(r) \/ CommitAttest(r)

Next == \E r \in Slots :
  \/ \E command \in Commands, by \in Holders["SUBMIT"], item \in Items :
       Submit(r, command, by, item)
  \/ \E kind \in {"CORRECT", "VERIFY", "ACCEPT", "ATTEST"} :
       \E command \in Commands, by \in Holders[AskedAs(kind)], e \in Ids :
         Act(r, kind, command, by, e)
  \/ Step(r)

Spec == Init /\ [][Next]_vars

----------------------------------------------------------------------------
(* Properties.                                                             *)

(* The state keeps its shape: corrections point back, and what a request   *)
(* or an event names exists.                                               *)
TypeOK ==
  /\ entries \in Seq(Entry)
  /\ \A e \in Ids : entries[e].parent < e
  /\ events \subseteq Event
  /\ \A v \in events : v.entry \in Ids
  /\ request \in [Slots -> Request \cup {Null}]
  /\ \A r \in Slots : request[r] # Null =>
       LET q == request[r].ask IN
       IF q.kind = "SUBMIT" THEN q.entry = 0
       ELSE q.entry \in Ids /\ q.item = entries[q.entry].item

(* Status and audit trail tell one story, however corrections and          *)
(* transitions of one entry interleave: one verification and one           *)
(* acceptance stand behind each status that claims them, and none behind   *)
(* one that does not.                                                      *)
TrailMatchesStatus ==
  /\ \A e \in Ids :
       /\ entries[e].status \in {"VERIFIED", "ACCEPTED"} <=>
            \E v \in events : v.act = "VERIFY" /\ v.entry = e
       /\ entries[e].status = "ACCEPTED" <=>
            \E v \in events : v.act = "ACCEPT" /\ v.entry = e
  /\ \A v, w \in events :
       v.entry = w.entry /\ v.act = w.act /\ v.act # "ATTEST" => v = w

(* Nobody vouches for a quantity he recorded, nor accepts one he verified, *)
(* unless the policy of that very act lets his position combine the two.   *)
FourEyes ==
  \A v \in events : v.by \notin MayCombine[AskedAs(v.act)] =>
    /\ v.by # entries[v.entry].by
    /\ v.act = "ACCEPT" => v.by \notin Verifiers(v.entry)

(* A command repeated or raced writes at most one entry and at most one    *)
(* event, and an entry has at most one correction.                         *)
OneReportOneAct ==
  /\ \A e, f \in Ids : e # f =>
       /\ entries[e].command # entries[f].command
       /\ entries[e].parent = entries[f].parent => entries[e].parent = 0
  /\ \A v, w \in events : v.command = w.command => v = w

(* One id may still bear an entry and an event, since an act does not ask  *)
(* whether a report used its id.  A report does ask the reverse: an id     *)
(* that an act used is good for no other, except for a report that is      *)
(* already past the question.                                              *)
Reporting(command) ==
  \E r \in Slots : /\ request[r] # Null
                   /\ request[r].ask.kind \in {"SUBMIT", "CORRECT"}
                   /\ request[r].ask.command = command
Spent(command) == Acted(command) /\ ~Reporting(command)
CommandsSpent ==
  /\ []OneReportOneAct
  /\ [][\A k \in Commands : Spent(k) =>
          Spent(k)' /\ (Reported(k)' => Reported(k))]_vars

(* What readers show as PROVEN, an attestation whose context is still the  *)
(* present one, is a current entry that was verified.                      *)
Proven(e) ==
  \E v \in events :
    v.act = "ATTEST" /\ v.entry = e /\ v.context = Context(entries[e].item)
ProvenIsCurrent ==
  \A e \in Ids : Proven(e) =>
    ~Superseded(e) /\ entries[e].status \in {"VERIFIED", "ACCEPTED"}

(* Once superseded, an entry is history: its status does not move and      *)
(* nothing more is said about it.                                          *)
SupersededIsFrozen ==
  [][\A e \in Ids : Superseded(e) =>
       /\ entries'[e] = entries[e]
       /\ \A v \in events' \ events : v.entry # e]_vars

(* An attestation speaks of the entries that stand when it is committed.   *)
AttestedWhatStood ==
  [][\A v \in events' \ events : v.act = "ATTEST" =>
       /\ v.context = Context(entries[v.entry].item)
       /\ ~Superseded(v.entry)]_vars

(* The transactions are serialisable: each request that is not refused     *)
(* takes effect in one step, by somebody entitled to it, on what stands at *)
(* that step, whatever it read before under which locks.                   *)
Ledger == INSTANCE ProgressLedger
ImplementsLedger == Ledger!Spec

(* Requests that wait for each other.                                      *)
Deadlocked(r) ==
  \E S \in SUBSET Slots :
     r \in S /\ \A s \in S : Waiting(s) /\ Blockers(s) \cap S # {}

(* What the acceptance test of the race between an attestation and a       *)
(* correction says: it completes without deadlock.                         *)
CorrectionNeverDeadlocks ==
  \A r \in Slots : request[r] # Null /\ request[r].ask.kind = "CORRECT" => ~Deadlocked(r)

=============================================================================
