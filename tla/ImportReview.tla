---------------------------- MODULE ImportReview ----------------------------
(***************************************************************************)
(* One imported price list under review: rows are given a resource, turned *)
(* down, taken back and reopened, kept as private prices and proposed to   *)
(* the community (basic-price-row-resolution.service.ts, and submitBatch,  *)
(* submitPrivatePrice, keepBatchPrivate of the import and private-asset    *)
(* services).  The uploader owns the batch and works in several tabs.      *)
(*                                                                         *)
(* A request is one transaction.  Decisions on a row run READ COMMITTED:   *)
(* every read sees what is committed then.  Compensating and reopening run *)
(* SERIALIZABLE: they read the snapshot of their first statement, and fail *)
(* when they lock or write a record somebody changed since, or when one of *)
(* their kind committed meanwhile (each counts the rows the other writes). *)
(* Decisions lock row, then batch; submitting and keeping lock batch, then *)
(* rows.  A deadlock ends as an Abort.                                     *)
(*                                                                         *)
(* Every row has a readable price and a proven unit; nothing outside this  *)
(* batch uses its resources; dates, region and source are stated and do    *)
(* not change.  A bulk acceptance is taken row by row.  Left out: the two  *)
(* confirmations that only raise a row's version, and hiding a batch.      *)
(*                                                                         *)
(* Operators whose name ends in Bug are a neighbour's mistaken form; no    *)
(* other definition uses them.                                             *)
(***************************************************************************)
EXTENDS Integers, Sequences

CONSTANTS
  Rows,          \* rows of the batch, named by their number in the source
  Known,         \* resources the catalog knew before
  Slots,         \* requests in flight at one time
  MaxVersion,    \* [row -> bound on its version]
  Null

ASSUME RowsAssumption == Rows \subseteq Nat
ASSUME KnownAssumption == Known \cap Rows = {}
ASSUME BoundAssumption == MaxVersion \in [Rows -> Nat]
ASSUME NullAssumption == Null \notin Rows \cup Known

VARIABLES
  db,       \* what is committed
  request   \* what each slot is working on, or Null

vars == <<db, request>>

----------------------------------------------------------------------------
(* Shape of the state.                                                     *)

(* A resource admitted for a row is named by the row: its one sighting     *)
(* binds the row for good.                                                 *)
Resources == Rows \cup Known

Mutable == {"NEEDS_REVIEW", "READY_FOR_REVIEW"}
Closed == {"SUBMITTED", "PARTIALLY_SUBMITTED"}

Mapping == [resource : Resources, bulk : BOOLEAN, withdrawn : BOOLEAN]
Proposal == [door : {"BATCH", "DETAIL"}, resource : Resources]

(* NEEDS_REVIEW with a resource is an identity collision.  The last        *)
(* proposal is the one the row points at.                                  *)
Row == [status : {"NEEDS_REVIEW", "READY_FOR_SUBMISSION", "REJECTED", "SUBMISSION_CREATED"},
        version : Nat, resource : Resources \cup {Null},
        mappings : Seq(Mapping), proposals : Seq(Proposal)]

Database == [batch : Mutable \cup Closed,
             row : [Rows -> Row],
             catalog : [Resources -> {"NONE", "ACTIVE", "RETIRED"}],
             price : [Rows -> Resources \cup {Null}]]   \* private price of a row

Deciding == {"RESOLVE", "ACCEPT", "ADMIT", "REJECT"}
Undoing == {"COMPENSATE", "REOPEN"}
WholeBatch == {"SUBMIT", "KEEP"}

Question == [kind : Deciding \cup Undoing \cup WholeBatch \cup {"DETAIL"},
        row : Rows \cup {Null}, version : Nat, resource : Resources \cup {Null}]

Stages == {"ASKED", "STARTED", "LOCKED", "COUNTED", "READ"}
Begun == Stages \ {"ASKED", "STARTED"}

Request == [ask : Question, stage : Stages,
            snapshot : Database \cup {Null},          \* of Undoing
            overtaken : SUBSET {"BATCH", "PEER"},     \* what changed since
            todo : SUBSET Rows, locked : SUBSET Rows, \* of WholeBatch
            row : Row \cup {Null},                    \* the row it will leave
            flag : BOOLEAN,                           \* pending rows; or: retire
            batch : Mutable \cup {Null}]              \* the status it will write

Init ==
  /\ db = [batch |-> "NEEDS_REVIEW",
           row |-> [r \in Rows |-> [status |-> "NEEDS_REVIEW", version |-> 0,
                                    resource |-> Null, mappings |-> <<>>,
                                    proposals |-> <<>>]],
           catalog |-> [c \in Resources |-> IF c \in Known THEN "ACTIVE" ELSE "NONE"],
           price |-> [r \in Rows |-> Null]]
  /\ request = [s \in Slots |-> Null]

----------------------------------------------------------------------------
(* Locks.                                                                  *)

At(s, kinds, stages) ==
  request[s] # Null /\ request[s].ask.kind \in kinds /\ request[s].stage \in stages

HoldsRowUnlockedBug(s, r) == At(s, Deciding \cup Undoing, Begun) /\ request[s].ask.row = r
HoldsRow(s, r) ==
  \/ At(s, Deciding \cup Undoing, Begun) /\ request[s].ask.row = r
  \/ At(s, WholeBatch, Begun) /\ r \in request[s].locked
RowFree(s, r) == \A t \in Slots \ {s} : ~HoldsRow(t, r)
BatchFree(s) == \A t \in Slots \ {s} : ~At(t, WholeBatch, Begun)
PriceFreeUnlockedBug(s, r) == r \in Rows
PriceFree(s, r) ==
  \A t \in Slots \ {s} : ~(At(t, {"DETAIL"}, Begun) /\ request[t].ask.row = r)

(* A compensation holds the resource; who writes a reference to it shares  *)
(* it until he commits.                                                    *)
Exclusive(s, c) ==
  At(s, {"COMPENSATE"}, {"COUNTED"}) /\ db.row[request[s].ask.row].resource = c
Shares(s, c) == At(s, Deciding, {"COUNTED", "READ"}) /\ request[s].row.resource = c
ReferenceFree(s, C) == \A t \in Slots \ {s}, c \in C : ~Exclusive(t, c)
ResourceFree(s, c) == \A t \in Slots \ {s} : ~Exclusive(t, c) /\ ~Shares(t, c)

----------------------------------------------------------------------------
(* Requests.                                                               *)

Goes(s, x) == request' = [request EXCEPT ![s] = x] /\ UNCHANGED db

(* A client sends the version of the row it looks at.                      *)
Ask(s, kind, r, c) ==
  /\ request[s] = Null
  /\ Goes(s, [ask |-> [kind |-> kind, row |-> r, resource |-> c,
                       version |-> IF r = Null THEN 0 ELSE db.row[r].version],
              stage |-> "ASKED", snapshot |-> Null, overtaken |-> {},
              todo |-> {}, locked |-> {}, row |-> Null, flag |-> FALSE,
              batch |-> Null])

(* The page offers an action on what the row shows; sent for another state *)
(* it could not succeed, as every way into that state raises the version.  *)
Shows(r, status) == db.row[r].status = status /\ db.row[r].version < MaxVersion[r]

AskResolve(s, r, c) ==
  Shows(r, "NEEDS_REVIEW") /\ db.catalog[c] = "ACTIVE" /\ Ask(s, "RESOLVE", r, c)
AskAdmit(s, r) == Shows(r, "NEEDS_REVIEW") /\ Ask(s, "ADMIT", r, r)
AskReject(s, r) == Shows(r, "NEEDS_REVIEW") /\ Ask(s, "REJECT", r, Null)
AskCompensate(s, r) == Shows(r, "READY_FOR_SUBMISSION") /\ Ask(s, "COMPENSATE", r, Null)
AskReopen(s, r) == Shows(r, "REJECTED") /\ Ask(s, "REOPEN", r, Null)
AskDetail(s, r) == db.price[r] # Null /\ Ask(s, "DETAIL", r, Null)

(* Bulk acceptance picks its rows before its transaction begins: pending   *)
(* ones without a collision whose decision nobody took back.               *)
AskAccept(s, r, c) ==
  /\ Shows(r, "NEEDS_REVIEW") /\ db.catalog[c] = "ACTIVE"
  /\ db.batch \in Mutable /\ db.row[r].resource = Null
  /\ \A n \in DOMAIN db.row[r].mappings : ~db.row[r].mappings[n].withdrawn
  /\ Ask(s, "ACCEPT", r, c)

(* Refused, overtaken, victim of a deadlock or lost: no effect.            *)
End(s) == request[s] # Null /\ Goes(s, Null)

(* Who reads an older snapshot will meet what is committed now.            *)
Told(x, new, peer) ==
  IF x = Null \/ x.snapshot = Null THEN x
  ELSE [x EXCEPT !.overtaken = @
          \cup (IF new.batch # db.batch THEN {"BATCH"} ELSE {})
          \cup (IF peer THEN {"PEER"} ELSE {})]
Commit(s, new) ==
  /\ db' = new
  /\ request' = [t \in Slots |->
       IF t = s THEN Null ELSE Told(request[t], new, request[s].ask.kind \in Undoing)]

----------------------------------------------------------------------------
(* Decisions on a row: resolveRow, acceptMachineProvenRows,                *)
(* admitResourceForRow, rejectRow.                                         *)

MayDecideUnseenBug(q) ==
  /\ db.row[q.row].status = "NEEDS_REVIEW"
  /\ q.kind \in {"RESOLVE", "ACCEPT"} => db.catalog[q.resource] = "ACTIVE"
  /\ q.kind = "ADMIT" => db.catalog[q.row] = "NONE"
MayDecide(q) ==
  /\ db.row[q.row].version = q.version
  /\ db.row[q.row].status = "NEEDS_REVIEW"
  /\ q.kind \in {"RESOLVE", "ACCEPT"} => db.catalog[q.resource] = "ACTIVE"
  /\ q.kind = "ADMIT" => db.catalog[q.row] = "NONE"

Clash(q) == \E o \in Rows \ {q.row} :
  /\ db.row[o].resource = q.resource
  /\ db.row[o].status \in {"READY_FOR_SUBMISSION", "NEEDS_REVIEW"}

(* Every decision raises the version.                                      *)
Turned(x, status, resource, mappings) ==
  [status |-> status, version |-> x.version + 1, resource |-> resource,
   mappings |-> mappings, proposals |-> x.proposals]
Given(x, q, status) ==
  Turned(x, status, q.resource,
         Append(x.mappings, [resource |-> q.resource, withdrawn |-> FALSE,
                             bulk |-> q.kind = "ACCEPT"]))
Decided(q) ==
  LET x == db.row[q.row] IN
  IF q.kind = "REJECT" THEN Turned(x, "REJECTED", x.resource, x.mappings)
  ELSE Given(x, q, IF Clash(q) THEN "NEEDS_REVIEW" ELSE "READY_FOR_SUBMISSION")

Decide(s) ==
  /\ At(s, Deciding, {"ASKED"})
  /\ LET x == request[s] IN
     /\ RowFree(s, x.ask.row) /\ MayDecide(x.ask)
     /\ Goes(s, [x EXCEPT !.stage = "LOCKED", !.row = Decided(x.ask)])

Pending(rows) == \E r \in rows : db.row[r].status = "NEEDS_REVIEW"

(* Written, the row counts as what it will be.                             *)
CountPending(s) ==
  /\ At(s, Deciding, {"LOCKED"})
  /\ LET x == request[s] IN
     /\ ReferenceFree(s, {x.ask.resource})
     /\ Goes(s, [x EXCEPT !.stage = "COUNTED",
                 !.flag = x.row.status = "NEEDS_REVIEW" \/ Pending(Rows \ {x.ask.row})])

NextStatus(batch, pending) ==
  LET next == IF pending THEN "NEEDS_REVIEW" ELSE "READY_FOR_REVIEW"
  IN IF batch \in Mutable \ {next} THEN next ELSE Null

ReadBatch(s) ==
  /\ At(s, Deciding, {"COUNTED"})
  /\ LET x == request[s] IN
     Goes(s, [x EXCEPT !.stage = "READ", !.batch = NextStatus(db.batch, x.flag)])

NewBatch(x) == IF x.batch = Null THEN db.batch ELSE x.batch

CommitDecision(s) ==
  /\ At(s, Deciding, {"READ"})
  /\ request[s].batch # Null => BatchFree(s)
  /\ LET x == request[s] IN
     Commit(s, [batch |-> NewBatch(x), price |-> db.price,
                row |-> [db.row EXCEPT ![x.ask.row] = x.row],
                catalog |-> [db.catalog EXCEPT ![x.ask.row] =
                               IF x.ask.kind = "ADMIT" THEN "ACTIVE" ELSE @]])

----------------------------------------------------------------------------
(* Taking back: compensateOwnDecision, reopenRejectedRow.                  *)

Start(s) ==
  /\ At(s, Undoing, {"ASKED"})
  /\ Goes(s, [request[s] EXCEPT !.stage = "STARTED", !.snapshot = db])

Standing(x) == {n \in DOMAIN x.mappings : ~x.mappings[n].withdrawn}
Unused(d, r) == d.price[r] = Null /\ d.row[r].proposals = <<>>

MayCompensate(d, q) ==
  LET x == d.row[q.row] IN
  /\ d.batch \in Mutable
  /\ x.version = q.version /\ x.status = "READY_FOR_SUBMISSION" /\ Unused(d, q.row)
  /\ \E n \in Standing(x) : Standing(x) = {n} /\ x.mappings[n].resource = x.resource

MayReopen(d, q) ==
  LET x == d.row[q.row] IN
  /\ d.batch \in Mutable
  /\ x.version = q.version /\ x.status = "REJECTED" /\ Unused(d, q.row)
  /\ x.resource = Null

Withdrawn(x) ==
  Turned(x, "NEEDS_REVIEW", Null,
         [n \in DOMAIN x.mappings |-> [x.mappings[n] EXCEPT !.withdrawn = TRUE]])
Reopened(x) == Turned(x, "NEEDS_REVIEW", x.resource, x.mappings)

TakeBack(s) ==
  /\ At(s, Undoing, {"STARTED"})
  /\ LET x == request[s]
         old == x.snapshot.row[x.ask.row] IN
     /\ RowFree(s, x.ask.row) /\ db.row[x.ask.row] = old
     /\ IF x.ask.kind = "COMPENSATE" THEN MayCompensate(x.snapshot, x.ask)
                                     ELSE MayReopen(x.snapshot, x.ask)
     /\ Goes(s, [x EXCEPT !.stage = "LOCKED", !.batch = NextStatus(x.snapshot.batch, TRUE),
                 !.row = IF x.ask.kind = "COMPENSATE" THEN Withdrawn(old) ELSE Reopened(old)])

(* Does anybody but row r use the resource?                                *)
UsedElsewhere(d, c, r) ==
  \/ \E o \in Rows \ {r} :
       \/ d.row[o].resource = c
       \/ \E n \in DOMAIN d.row[o].mappings : d.row[o].mappings[n].resource = c
  \/ \E o \in Rows : d.price[o] = c
  \/ \E o \in Rows : \E n \in DOMAIN d.row[o].proposals : d.row[o].proposals[n].resource = c

LockResource(s) ==
  /\ At(s, {"COMPENSATE"}, {"LOCKED"})
  /\ LET x == request[s]
         c == x.snapshot.row[x.ask.row].resource IN
     /\ ResourceFree(s, c)
     /\ db.catalog[c] = x.snapshot.catalog[c] /\ x.snapshot.catalog[c] = "ACTIVE"
     /\ Goes(s, [x EXCEPT !.stage = "COUNTED",
                 !.flag = c = x.ask.row /\ ~UsedElsewhere(x.snapshot, c, x.ask.row)])

CommitUndoing(s) ==
  /\ At(s, {"COMPENSATE"}, {"COUNTED"}) \/ At(s, {"REOPEN"}, {"LOCKED"})
  /\ "PEER" \notin request[s].overtaken
  /\ request[s].batch # Null => BatchFree(s) /\ "BATCH" \notin request[s].overtaken
  /\ LET x == request[s] IN
     Commit(s, [batch |-> NewBatch(x), price |-> db.price,
                row |-> [db.row EXCEPT ![x.ask.row] = x.row],
                catalog |-> [db.catalog EXCEPT ![x.ask.row] =
                               IF x.flag THEN "RETIRED" ELSE @]])

----------------------------------------------------------------------------
(* The whole batch: submitBatch, keepBatchPrivate.                         *)

Ready(kind, r) ==
  /\ db.row[r].status = "READY_FOR_SUBMISSION"
  /\ kind = "SUBMIT" => db.row[r].proposals = <<>>

LockBatch(s) ==
  /\ At(s, WholeBatch, {"ASKED"})
  /\ BatchFree(s) /\ db.batch \in Mutable
  /\ LET x == request[s] IN
     Goes(s, [x EXCEPT !.stage = "LOCKED", !.todo = {r \in Rows : Ready(x.ask.kind, r)}])

(* A row that stopped being ready while the lock was awaited is passed over. *)
LockRow(s) ==
  /\ At(s, WholeBatch, {"LOCKED"})
  /\ \E r \in request[s].todo :
       LET x == request[s] IN
       /\ RowFree(s, r)
       /\ Goes(s, [x EXCEPT !.todo = @ \ {r},
                   !.locked = IF Ready(x.ask.kind, r) THEN @ \cup {r} ELSE @])

CountUndecided(s) ==
  /\ At(s, {"SUBMIT"}, {"LOCKED"})
  /\ request[s].todo = {} /\ request[s].locked # {}
  /\ Goes(s, [request[s] EXCEPT !.stage = "COUNTED", !.flag = Pending(Rows)])

ProposedAsRowBug(x, door, c) ==
  [x EXCEPT !.status = "SUBMISSION_CREATED",
            !.proposals = Append(@, [door |-> door, resource |-> x.resource])]
Proposed(x, door, c) ==
  [x EXCEPT !.status = "SUBMISSION_CREATED",
            !.proposals = Append(@, [door |-> door, resource |-> c])]

CommitSubmit(s) ==
  /\ At(s, {"SUBMIT"}, {"COUNTED"})
  /\ LET rows == request[s].locked
         rejected == \E r \in Rows : db.row[r].status = "REJECTED" IN
     /\ \A r \in rows : db.row[r].resource # Null
     /\ ReferenceFree(s, {db.row[r].resource : r \in rows})
     /\ Commit(s, [
          batch |-> IF request[s].flag THEN db.batch
                    ELSE IF rejected THEN "PARTIALLY_SUBMITTED" ELSE "SUBMITTED",
          row |-> [r \in Rows |->
                     IF r \in rows THEN Proposed(db.row[r], "BATCH", db.row[r].resource)
                     ELSE db.row[r]],
          catalog |-> db.catalog, price |-> db.price])

(* One publisher has one private price of a resource here: a second row    *)
(* is held back.                                                           *)
Priced(chosen) == {r \in chosen :
  /\ db.price[r] = Null
  /\ \A o \in Rows : db.price[o] # db.row[r].resource
  /\ \A o \in chosen : o < r /\ db.price[o] = Null => db.row[o].resource # db.row[r].resource}

CommitKeep(s) ==
  /\ At(s, {"KEEP"}, {"LOCKED"}) /\ request[s].todo = {}
  /\ LET q == request[s].ask
         chosen == IF q.row = Null THEN request[s].locked ELSE {q.row} IN
     /\ chosen # {} /\ chosen \subseteq request[s].locked
     /\ q.row # Null => db.row[q.row].version = q.version
     /\ \A r \in Priced(chosen) : db.row[r].resource # Null
     /\ ReferenceFree(s, {db.row[r].resource : r \in Priced(chosen)})
     /\ Commit(s, [batch |-> db.batch, row |-> db.row, catalog |-> db.catalog,
                   price |-> [r \in Rows |-> IF r \in Priced(chosen)
                                             THEN db.row[r].resource ELSE db.price[r]]])

----------------------------------------------------------------------------
(* A private price proposed on its own: submitPrivatePrice.                *)

LockPrice(s) ==
  /\ At(s, {"DETAIL"}, {"ASKED"})
  /\ LET x == request[s] IN
     /\ PriceFree(s, x.ask.row)
     /\ db.row[x.ask.row].proposals = <<>>
     /\ Goes(s, [x EXCEPT !.stage = "LOCKED"])

CommitDetail(s) ==
  /\ At(s, {"DETAIL"}, {"LOCKED"})
  /\ LET r == request[s].ask.row IN
     /\ RowFree(s, r) /\ ReferenceFree(s, {db.price[r]})
     /\ Commit(s, [batch |-> db.batch, catalog |-> db.catalog, price |-> db.price,
                   row |-> [db.row EXCEPT ![r] = Proposed(@, "DETAIL", db.price[r])]])

----------------------------------------------------------------------------
Step(s) ==
  \/ Decide(s) \/ CountPending(s) \/ ReadBatch(s) \/ CommitDecision(s)
  \/ Start(s) \/ TakeBack(s) \/ LockResource(s) \/ CommitUndoing(s)
  \/ LockBatch(s) \/ LockRow(s) \/ CountUndecided(s) \/ CommitSubmit(s) \/ CommitKeep(s)
  \/ LockPrice(s) \/ CommitDetail(s)
  \/ End(s)

Next == \E s \in Slots :
  \/ \E r \in Rows, c \in Resources : AskResolve(s, r, c) \/ AskAccept(s, r, c)
  \/ \E r \in Rows :
       AskAdmit(s, r) \/ AskReject(s, r) \/ AskCompensate(s, r) \/ AskReopen(s, r) \/ AskDetail(s, r)
  \/ \E r \in Rows \cup {Null} : Ask(s, "KEEP", r, Null)
  \/ Ask(s, "SUBMIT", Null, Null)
  \/ Step(s)

Spec == Init /\ [][Next]_vars

----------------------------------------------------------------------------
(* Properties.                                                             *)

(* Every record and request keeps its shape, and no version passes its     *)
(* bound although two requests may have seen the one before.               *)
TypeOK ==
  /\ db \in Database
  /\ \A r \in Rows : db.row[r].version <= MaxVersion[r]
  /\ request \in [Slots -> Request \cup {Null}]

(* A row's resource is the one its last standing decision named, a row is  *)
(* without one only when all were taken back, and what a batch submission  *)
(* proposed is what was decided.                                           *)
IdentityHasItsDecision ==
  \A r \in Rows :
    LET x == db.row[r]
        last == Len(x.mappings) IN
    /\ IF x.resource = Null THEN Standing(x) = {}
       ELSE last \in Standing(x) /\ x.mappings[last].resource = x.resource
    /\ x.status = "READY_FOR_SUBMISSION" => x.resource # Null
    /\ \A n \in DOMAIN x.proposals :
         x.proposals[n].door = "BATCH" => x.proposals[n].resource = x.resource

(* A bulk acceptance, which picks its rows before it locks them, never     *)
(* decides again a row whose decision its reviewer has taken back.         *)
WithdrawnConsentStands ==
  \A r \in Rows : \A m, n \in DOMAIN db.row[r].mappings :
    m < n /\ db.row[r].mappings[m].withdrawn => ~db.row[r].mappings[n].bulk

(* The record of decisions explains the rows, whatever overlaps.           *)
DecisionsStand == IdentityHasItsDecision /\ WithdrawnConsentStands

(* Pressed twice or in two tabs, each door proposes a row once, and a      *)
(* resource gets one private price of this source.                         *)
OffersOnce ==
  /\ \A r \in Rows : \A m, n \in DOMAIN db.row[r].proposals :
       db.row[r].proposals[m].door = db.row[r].proposals[n].door => m = n
  /\ \A r, o \in Rows : db.price[r] = db.price[o] /\ db.price[r] # Null => r = o

(* A submitted row is neither decided again nor reopened, by requests that *)
(* saw it before it was submitted either.                                  *)
SubmittedRowRests ==
  [][\A r \in Rows : db.row[r].status = "SUBMISSION_CREATED" =>
       /\ db'.row[r].status = "SUBMISSION_CREATED"
       /\ db'.row[r].version = db.row[r].version
       /\ db'.row[r].resource = db.row[r].resource]_vars

(* However the transactions overlap, each has its effect on rows and       *)
(* private prices in one step, on rows that stand as it needs them: the    *)
(* page that looked before, the choice of rows before their locks, and the *)
(* batch that is locked row by row notwithstanding.                        *)
Book == INSTANCE ReviewBook WITH
  status <- [r \in Rows |-> db.row[r].status],
  resource <- [r \in Rows |-> db.row[r].resource],
  turn <- [r \in Rows |-> db.row[r].version],
  offers <- [r \in Rows |->
               {db.row[r].proposals[n] : n \in DOMAIN db.row[r].proposals}],
  price <- db.price
ImplementsBook == Book!Spec

=============================================================================
