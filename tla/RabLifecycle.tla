---------------------------- MODULE RabLifecycle ----------------------------
(***************************************************************************)
(* The Working Draft of one project, from its first row to the approved    *)
(* baseline: the handlers of project/, project-ahsp/ and ahsp/ that write  *)
(* a BOQ row, the RabDocument, a ProjectBaseline or Project.deletedAt.     *)
(*                                                                         *)
(* Every one of these handlers is one PostgreSQL transaction that starts   *)
(* with SELECT ... FOR UPDATE on the project's row, so for each other they *)
(* are atomic.  The lock command is the exception that matters: it holds   *)
(* that row too, but asks row by row what the Basic Price and AHSP         *)
(* authorities say now (READ COMMITTED), and those are written by          *)
(* transactions that never touch the project's row.  It is therefore       *)
(* modelled statement by statement, the others in one step.                *)
(*                                                                         *)
(* Abstractions.  A FOLDER or NOTE row carries no money and is left out:   *)
(* a row is a WORK_ITEM.  The whole resource set of an AHSP is one         *)
(* resource and a "price" is a Basic Price row together with its value and *)
(* its unit adaptation: a change of any of them is another price.  Region, *)
(* pricing date and publication provenance only ever refuse; a refusal     *)
(* writes nothing and is Refuse.  An occurrence is immutable, so its       *)
(* content, a Basis, stands for its id.                                    *)
(*                                                                         *)
(* Operators whose name ends in Bug are a neighbour's mistaken form; no    *)
(* other definition uses them.                                             *)
(***************************************************************************)
EXTENDS Integers, Sequences, FiniteSets

CONSTANTS
  Items,         \* logical BOQ rows (WORK_ITEM)
  Users,         \* accounts, each with at most one request in flight
  Owners,        \* the primary OWNER assignment of the project
  Approvers,     \* holders of a position with RAB_APPROVAL authority
  Versions,      \* version numbers of the one AHSP
  Prices,        \* Basic Prices, see above
  Quantities,    \* volumes a client or a document states, in halves of a unit
  ManualPrices,  \* unit prices a client states, in cents
  HalfCost,      \* kernel cost of half a unit, in tenths of a cent
  Null,          \* database NULL
  Undefined      \* a key a request body does not have

ASSUME RolesAssumption == Owners \subseteq Users /\ Approvers \subseteq Users
ASSUME VersionsAssumption == Versions \subseteq Nat \ {0}
ASSUME MoneyAssumption ==
  /\ Quantities \subseteq Nat \ {0}
  /\ ManualPrices \subseteq Nat
  /\ HalfCost \in [Versions -> [Prices -> Nat]]

VARIABLES
  rows,       \* the WORK_ITEMs of the Working Draft structure
  rab,        \* its RabDocument
  baselines,  \* approvers of the project's baselines, by version number
  deleted,    \* Project.deletedAt is set
  admitted,   \* users with a request that has passed ProjectAccessGuard
  market,     \* what the Basic Price authority answers
  versions,   \* status of each AHSP version
  lockTx      \* the lock command's transaction, or Null

draft == <<rows, rab, baselines>>
authorities == <<market, versions>>
vars == <<rows, rab, baselines, deleted, admitted, market, versions, lockTx>>

-----------------------------------------------------------------------------
(* Data *)

VersionStatus == {"ABSENT", "DRAFT", "PUBLISHED", "SUPERSEDED", "ARCHIVED"}

Basis == [version : Versions, price : Prices \cup {Null}]

Row == [quantity  : Nat,
        unit      : BOOLEAN,            \* the row still has its unit
        unitPrice : Nat \cup {Null},    \* cents
        lineTotal : Nat \cup {Null},    \* cents
        origin    : {"MANUAL_CLIENT", "SERVER_COST_KERNEL", Null},
        version   : Versions \cup {Null},
        working   : Basis \cup {Null},
        calc      : Basis \cup {Null}]

Market == {m \in [usable : SUBSET Prices, chosen : Prices \cup {Null}] :
             m.chosen # Null => m.chosen \in m.usable}

(* One row of a PUT /boq/draft body.  "unit" says that the key is there,   *)
(* "sameWork" that name, WBS code, ancestors and item type are unchanged.  *)
Submission == [quantity  : Quantities \cup {Undefined},
               unit      : BOOLEAN,
               sameWork  : BOOLEAN,
               unitPrice : ManualPrices \cup {Null, Undefined}]

ASSUME NullAssumption ==
  /\ Null \notin Nat \cup Users \cup Prices \cup Basis
  /\ Null \notin {"MANUAL_CLIENT", "SERVER_COST_KERNEL"}
  /\ Undefined \notin Nat
  /\ Null # Undefined

NoRows == [i \in {} |-> 0]
NoRab == [status |-> "NONE", total |-> Null, lockedBy |-> Null]
NoQuantity == 0

Partial(S, T) == UNION {[D -> T] : D \in SUBSET S}

TypeOK ==
  /\ DOMAIN rows \subseteq Items /\ rows \in [DOMAIN rows -> Row]
  /\ rab.status \in {"NONE", "DRAFT", "LOCKED", "APPROVED"}
  /\ rab.total # Null =>
       DOMAIN rab.total \subseteq Items /\ rab.total \in [DOMAIN rab.total -> Nat]
  /\ rab.lockedBy \in Users \cup {Null}
  /\ rab = [status |-> rab.status, total |-> rab.total, lockedBy |-> rab.lockedBy]
  /\ baselines \in Seq(Users)
  /\ deleted \in BOOLEAN
  /\ admitted \subseteq Users
  /\ market \in Market
  /\ versions \in [Versions -> VersionStatus]
  /\ lockTx # Null =>
       lockTx \in [holder   : Users,
                   priced   : SUBSET Items,
                   done     : SUBSET Items,
                   findings : BOOLEAN,
                   offered  : SUBSET (Prices \cup {Null}),
                   lawful   : SUBSET Versions]

-----------------------------------------------------------------------------
(* The cost kernel.  Money is rounded half up to cents, once, where it is  *)
(* written; the line total is rounded from the exact product, not from the *)
(* rounded unit price.                                                     *)

CentsBug(tenths) == (tenths - 5) \div 10
Cents(tenths) == (tenths + 5) \div 10

KernelUnitPrice(b) == Cents(2 * HalfCost[b.version][b.price])
KernelLineTotal(b, q) == Cents(q * HalfCost[b.version][b.price])

(* calculateCostKernel's refusals that the model's data can meet.          *)
Calculable(r, b) ==
  /\ r.unit
  /\ r.version = b.version
  /\ b.price # Null
  /\ r.quantity > 0

(* getPersistedCalculation: the money on the row is what the kernel makes  *)
(* of the occurrence the row was calculated from.                          *)
Reproves(r) ==
  /\ r.origin = "SERVER_COST_KERNEL"
  /\ r.calc # Null
  /\ Calculable(r, r.calc)
  /\ r.unitPrice = KernelUnitPrice(r.calc)
  /\ r.lineTotal = KernelLineTotal(r.calc, r.quantity)

(* A client's line, exact and as the column stores it.                     *)
ManualTenths(q, p) == 5 * q * p

-----------------------------------------------------------------------------
(* The lifecycle authority and the project row's lock *)

CanEditLockedBug == baselines = <<>>
CanEditApprovedBug == rab.status # "LOCKED"
CanEditDraft ==
  /\ baselines = <<>>
  /\ rab.status \notin {"LOCKED", "APPROVED"}

(* A handler of u runs: its guard let it through and nobody holds the row. *)
RunsUnguardedBug(u) == lockTx = Null
Runs(u) == u \in admitted /\ lockTx = Null
Answers(u) == admitted' = admitted \ {u}

Priced(rs) == \A i \in DOMAIN rs : rs[i].unitPrice # Null
LineSum(rs) == [i \in DOMAIN rs |-> 10 * rs[i].lineTotal]

(* updateMany on the DRAFT document, or a new one.                         *)
StateTotal(t) == rab' = [rab EXCEPT !.status = "DRAFT", !.total = t]

-----------------------------------------------------------------------------
(* Requests *)

(* ProjectAccessGuard reads deletedAt and the assignment before the        *)
(* handler's transaction starts.                                           *)
Admit(u) ==
  /\ ~deleted
  /\ u \notin admitted
  /\ admitted' = admitted \cup {u}
  /\ UNCHANGED <<draft, deleted, authorities, lockTx>>

(* A refusal, an idempotent replay or a read: nothing is written.          *)
Refuse(u) ==
  /\ Runs(u)
  /\ Answers(u)
  /\ UNCHANGED <<draft, deleted, authorities, lockTx>>

-----------------------------------------------------------------------------
(* PUT /boq/draft: replace the rows with those of the body *)

(* The checks made before anything is deleted: a row priced by the server  *)
(* is in the body, with no unitPrice key and with no changed fact.  A      *)
(* quantity or a unit the body does not have is not a changed one.         *)
ServerRowsOmittedBug(body) ==
  \A i \in DOMAIN rows \cap DOMAIN body : rows[i].origin = "SERVER_COST_KERNEL" =>
    /\ body[i].unitPrice = Undefined
    /\ body[i].quantity \in {Undefined, rows[i].quantity}
    /\ body[i].unit => rows[i].unit
    /\ body[i].sameWork

ServerRowsProtected(body) ==
  \A i \in DOMAIN rows : rows[i].origin = "SERVER_COST_KERNEL" =>
    /\ i \in DOMAIN body
    /\ body[i].unitPrice = Undefined
    /\ body[i].quantity \in {Undefined, rows[i].quantity}
    /\ body[i].unit => rows[i].unit
    /\ body[i].sameWork

(* The row written for s when no row has its id.                           *)
FreshRow(s) ==
  LET q == IF s.quantity = Undefined THEN NoQuantity ELSE s.quantity
      p == IF s.unitPrice = Undefined THEN Null ELSE s.unitPrice
  IN  [quantity  |-> q,
       unit      |-> s.unit,
       unitPrice |-> p,
       lineTotal |-> IF p = Null THEN Null ELSE Cents(ManualTenths(q, p)),
       origin    |-> IF p = Null THEN Null ELSE "MANUAL_CLIENT",
       version   |-> Null,
       working   |-> Null,
       calc      |-> Null]

(* The row written for s over the existing row r: the AHSP association     *)
(* survives when the work facts do, server money always.                   *)
ReplacedRow(r, s) ==
  LET new  == FreshRow(s)
      kept == s.sameWork /\ s.unit = r.unit
      bound == [new EXCEPT !.version = IF kept THEN r.version ELSE Null,
                           !.working = IF kept THEN r.working ELSE Null]
  IN  IF r.origin = "SERVER_COST_KERNEL"
      THEN [bound EXCEPT !.unitPrice = r.unitPrice, !.lineTotal = r.lineTotal,
                         !.origin = r.origin, !.calc = r.calc]
      ELSE bound

SavedRows(body) ==
  [i \in DOMAIN body |-> IF i \in DOMAIN rows THEN ReplacedRow(rows[i], body[i])
                                              ELSE FreshRow(body[i])]

(* The subtotal adds server lines as stored and manual lines unrounded.    *)
SavedSumManualBug(rs) ==
  [i \in DOMAIN rs |-> IF rs[i].origin = "MANUAL_CLIENT"
                       THEN ManualTenths(rs[i].quantity, rs[i].unitPrice)
                       ELSE 0]
SavedSum(rs) ==
  [i \in DOMAIN rs |-> IF rs[i].origin = "MANUAL_CLIENT"
                       THEN ManualTenths(rs[i].quantity, rs[i].unitPrice)
                       ELSE 10 * rs[i].lineTotal]

SaveDraft(u) ==
  /\ Runs(u) /\ CanEditDraft
  /\ \E body \in Partial(Items, Submission) :
       /\ ServerRowsProtected(body)
       /\ rows' = SavedRows(body)
       /\ IF Priced(rows')
          THEN StateTotal(SavedSum(rows'))
          ELSE rab' = [rab EXCEPT !.total = Null]
  /\ Answers(u)
  /\ UNCHANGED <<baselines, deleted, authorities, lockTx>>

-----------------------------------------------------------------------------
(* Setup and import *)

(* POST initiate: fills an empty draft; asks no lifecycle question and     *)
(* leaves the RabDocument alone.                                           *)
InitiateSetup(u) ==
  /\ Runs(u)
  /\ DOMAIN rows = {}
  /\ \E body \in Partial(Items, [quantity : Quantities \cup {Undefined},
                                 unit : BOOLEAN, sameWork : {TRUE},
                                 unitPrice : ManualPrices \cup {Undefined}]) :
       rows' = [i \in DOMAIN body |-> FreshRow(body[i])]
  /\ Answers(u)
  /\ UNCHANGED <<rab, baselines, deleted, authorities, lockTx>>

(* BOQ import approve: replace every row by the document's, unpriced.  The *)
(* RabDocument is left alone.                                              *)
ApproveImport(u) ==
  /\ Runs(u) /\ CanEditDraft
  /\ \E quantity \in Partial(Items, Quantities) :
       rows' = [i \in DOMAIN quantity |->
                  FreshRow([quantity |-> quantity[i], unit |-> TRUE,
                            sameWork |-> TRUE, unitPrice |-> Undefined])]
  /\ Answers(u)
  /\ UNCHANGED <<rab, baselines, deleted, authorities, lockTx>>

-----------------------------------------------------------------------------
(* AHSP selection and calculation of one row *)

EligibleVersion(v) == versions[v] \in {"DRAFT", "PUBLISHED"}

NewestEligible(v) ==
  /\ EligibleVersion(v)
  /\ \A w \in Versions : w > v => ~EligibleVersion(w)

(* selectForBoqItem: a new occurrence, resolved now, becomes the row's     *)
(* working one.  An unresolved price is recorded as such.                  *)
SelectAhsp(u, i, v) ==
  /\ Runs(u) /\ CanEditDraft
  /\ i \in DOMAIN rows
  /\ rows[i].unit
  /\ NewestEligible(v)
  /\ rows' = [rows EXCEPT ![i] =
                [@ EXCEPT !.version = v,
                          !.working = [version |-> v, price |-> market.chosen]]]
  /\ Answers(u)
  /\ UNCHANGED <<rab, baselines, deleted, authorities, lockTx>>

CalculatedRow(r) ==
  [r EXCEPT !.unitPrice = KernelUnitPrice(r.working),
            !.lineTotal = KernelLineTotal(r.working, r.quantity),
            !.origin = "SERVER_COST_KERNEL",
            !.calc = r.working,
            !.working = Null]

(* persistBoqItemCalculation: the selected price is re-read and must still *)
(* be usable; whether it would still be the one selected is not asked.     *)
PersistCalculation(u, i) ==
  /\ Runs(u) /\ CanEditDraft
  /\ i \in DOMAIN rows
  /\ rows[i].version # Null /\ rows[i].working # Null
  /\ versions[rows[i].version] # "SUPERSEDED"
  /\ Calculable(rows[i], rows[i].working)
  /\ rows[i].working.price \in market.usable
  /\ rows' = [rows EXCEPT ![i] = CalculatedRow(@)]
  /\ StateTotal(IF \A j \in DOMAIN rows \ {i} : rows[j].unitPrice # Null
                THEN LineSum(rows') ELSE Null)
  /\ Answers(u)
  /\ UNCHANGED <<baselines, deleted, authorities, lockTx>>

-----------------------------------------------------------------------------
(* The lock command, statement by statement *)

(* The project row is taken and the draft is read.  "offered" and "lawful" *)
(* are history: every answer of the two authorities since this moment.     *)
BeginLock(u) ==
  /\ Runs(u)
  /\ rab.status = "DRAFT"
  /\ DOMAIN rows # {}
  /\ lockTx' = [holder |-> u, priced |-> {}, done |-> {}, findings |-> FALSE,
                offered |-> {market.chosen},
                lawful |-> {v \in Versions : EligibleVersion(v)}]
  /\ UNCHANGED <<draft, deleted, admitted, authorities>>

(* One row: origin, pending work, re-proof, and the price the authority    *)
(* would choose now.                                                       *)
RowStandsPendingBug(r) == Reproves(r) /\ market.chosen = r.calc.price
RowStandsStaleBug(r) == Reproves(r) /\ r.working = Null

RowStands(r) ==
  /\ Reproves(r)
  /\ r.working = Null
  /\ market.chosen = r.calc.price

CheckPrice(i) ==
  /\ lockTx # Null
  /\ i \in DOMAIN rows \ lockTx.priced
  /\ lockTx.priced = lockTx.done
  /\ lockTx' = [lockTx EXCEPT
                  !.priced = @ \cup {i},
                  !.done = IF RowStands(rows[i]) THEN @ ELSE @ \cup {i},
                  !.findings = @ \/ ~RowStands(rows[i])]
  /\ UNCHANGED <<draft, deleted, admitted, authorities>>

(* Then its AHSP version: still eligible, not necessarily the newest.      *)
CheckVersion(i) ==
  /\ lockTx # Null
  /\ i \in lockTx.priced \ lockTx.done
  /\ lockTx' = [lockTx EXCEPT
                  !.done = @ \cup {i},
                  !.findings = @ \/ ~EligibleVersion(rows[i].version)]
  /\ UNCHANGED <<draft, deleted, admitted, authorities>>

RowsCheckedFoundBug ==
  lockTx # Null /\ lockTx.done = DOMAIN rows /\ ~lockTx.findings

RowsChecked == lockTx # Null /\ lockTx.done = DOMAIN rows

CommitLock ==
  /\ RowsChecked
  /\ ~lockTx.findings /\ rab.total # Null
  /\ rab' = [rab EXCEPT !.status = "LOCKED", !.lockedBy = lockTx.holder]
  /\ lockTx' = Null
  /\ Answers(lockTx.holder)
  /\ UNCHANGED <<rows, baselines, deleted, authorities>>

RefuseLock ==
  /\ RowsChecked
  /\ lockTx.findings \/ rab.total = Null
  /\ lockTx' = Null
  /\ Answers(lockTx.holder)
  /\ UNCHANGED <<draft, deleted, authorities>>

LockStep ==
  \/ \E i \in Items : CheckPrice(i) \/ CheckVersion(i)
  \/ CommitLock
  \/ RefuseLock

-----------------------------------------------------------------------------
(* Approval and discard *)

(* approveLockedRab: the status and the baseline in one transaction.       *)
ApproveRab(u) ==
  /\ Runs(u)
  /\ u \in Approvers
  /\ rab.status = "LOCKED" /\ rab.lockedBy # Null
  /\ baselines = <<>>
  /\ rab' = [rab EXCEPT !.status = "APPROVED"]
  /\ baselines' = Append(baselines, u)
  /\ Answers(u)
  /\ UNCHANGED <<rows, deleted, authorities, lockTx>>

(* discardDraftProject re-reads deletedAt and the lifecycle under the lock.*)
DiscardProject(u) ==
  /\ Runs(u)
  /\ u \in Owners
  /\ ~deleted
  /\ CanEditDraft
  /\ deleted' = TRUE
  /\ Answers(u)
  /\ UNCHANGED <<draft, authorities, lockTx>>

-----------------------------------------------------------------------------
(* The authorities, written by transactions that take no project row *)

Witness(newMarket, newVersions) ==
  lockTx' = IF lockTx = Null THEN Null
            ELSE [lockTx EXCEPT
                    !.offered = @ \cup {newMarket.chosen},
                    !.lawful = @ \cup {v \in Versions :
                                         newVersions[v] \in {"DRAFT", "PUBLISHED"}}]

(* Publication, supersession, promotion or correction of a Basic Price may *)
(* change what the resolution chooses to any other answer.                 *)
MoveMarket ==
  /\ \E m \in Market \ {market} : market' = m
  /\ Witness(market', versions)
  /\ UNCHANGED <<draft, deleted, admitted, versions>>

(* createVersion: the next version of a private AHSP retires the versions  *)
(* before it that are not published.                                       *)
CreateAhspVersion(v) ==
  /\ versions[v] = "ABSENT"
  /\ \A w \in Versions : w < v => versions[w] # "ABSENT"
  /\ versions' = [w \in Versions |->
                    IF w = v THEN "DRAFT"
                    ELSE IF versions[w] = "DRAFT" THEN "SUPERSEDED"
                    ELSE versions[w]]
  /\ Witness(market, versions')
  /\ UNCHANGED <<draft, deleted, admitted, market>>

(* retireVersion: a published or already retired version is refused.       *)
RetireAhspVersion(v, status) ==
  /\ versions[v] = "DRAFT"
  /\ versions' = [versions EXCEPT ![v] = status]
  /\ Witness(market, versions')
  /\ UNCHANGED <<draft, deleted, admitted, market>>

-----------------------------------------------------------------------------
(* A project is created with one empty Working Draft structure.            *)
Init ==
  /\ rows = NoRows
  /\ rab = NoRab
  /\ baselines = <<>>
  /\ deleted = FALSE
  /\ admitted = {}
  /\ market \in Market
  /\ versions \in [Versions -> {"ABSENT", "PUBLISHED"}]
  /\ \A v, w \in Versions : v < w /\ versions[v] = "ABSENT" => versions[w] = "ABSENT"
  /\ lockTx = Null

Handler(u) ==
  \/ Refuse(u)
  \/ SaveDraft(u)
  \/ InitiateSetup(u)
  \/ ApproveImport(u)
  \/ \E i \in Items, v \in Versions : SelectAhsp(u, i, v)
  \/ \E i \in Items : PersistCalculation(u, i)
  \/ BeginLock(u)
  \/ ApproveRab(u)
  \/ DiscardProject(u)

Environment ==
  \/ MoveMarket
  \/ \E v \in Versions :
       \/ CreateAhspVersion(v)
       \/ \E status \in {"SUPERSEDED", "ARCHIVED"} : RetireAhspVersion(v, status)

Next ==
  \/ \E u \in Users : Admit(u) \/ Handler(u)
  \/ LockStep
  \/ Environment

Spec == Init /\ [][Next]_vars

(* The statements of an open transaction are run to its end.               *)
FairSpec == Spec /\ WF_vars(LockStep)

-----------------------------------------------------------------------------
(* Properties *)

Frozen == rab.status \in {"LOCKED", "APPROVED"}
ServerRow(r) == r.origin = "SERVER_COST_KERNEL"

(* What is locked or approved has at least one row; every row is priced by *)
(* the server, re-provable from its own occurrence and without pending     *)
(* work; and the stated total is the total of exactly these lines.  The    *)
(* lock checks none of the total but that it is there, and initiateSetup   *)
(* asks no lifecycle question: both rest on what every other handler did.  *)
FrozenRowsProven ==
  Frozen =>
    /\ DOMAIN rows # {}
    /\ \A i \in DOMAIN rows : Reproves(rows[i]) /\ rows[i].working = Null
    /\ rab.total = LineSum(rows)

(* Once one row is priced by the server, a stated total is the total of a  *)
(* completely priced draft: of its lines, to the rounding of manual ones.  *)
(* (persistBoqItemCalculation's and saveDraftBoq's NULL-total rule.)       *)
TotalTrueOncePriced ==
  (\E i \in DOMAIN rows : ServerRow(rows[i])) =>
    \/ rab.total = Null
    \/ /\ DOMAIN rab.total = DOMAIN rows
       /\ \A i \in DOMAIN rows :
            rows[i].unitPrice # Null /\ Cents(rab.total[i]) = rows[i].lineTotal

(* approveLockedRab never leaves half of what it does, and never does it   *)
(* twice: APPROVED is the same fact as having one baseline.                *)
ApprovedIffBaseline ==
  /\ rab.status = "APPROVED" <=> baselines # <<>>
  /\ Len(baselines) <= 1

(* Money the server put on a row leaves it in two ways only: a calculation *)
(* of the row's own working occurrence replaces it, or an import replaces  *)
(* the whole draft by rows nobody has priced.                              *)
ServerMoneyStep ==
  \A i \in DOMAIN rows : ServerRow(rows[i]) =>
    \/ /\ i \in DOMAIN rows'
       /\ rows'[i].unitPrice = rows[i].unitPrice
       /\ rows'[i].lineTotal = rows[i].lineTotal
       /\ rows'[i].calc = rows[i].calc
       /\ ServerRow(rows'[i])
    \/ /\ i \in DOMAIN rows'
       /\ ServerRow(rows'[i])
       /\ rows'[i].calc = rows[i].working
       /\ Reproves(rows'[i])
    \/ \A j \in DOMAIN rows' : rows'[j].origin = Null /\ rows'[j].version = Null
ServerMoneyOnlyByKernel == [][ServerMoneyStep]_vars

(* A freeze names, for every row, a price the authority did choose and a   *)
(* version that was eligible at some instant of the lock's transaction.    *)
FreezeStep ==
  rab.status # "LOCKED" /\ rab'.status = "LOCKED" =>
    \A i \in DOMAIN rows : /\ rows[i].calc.price \in lockTx.offered
                           /\ rows[i].version \in lockTx.lawful
FreezeStandsOnAnswers == [][FreezeStep]_vars

(* After a discard only the requests that were already past the guard can  *)
(* still write; when they are answered the project is at rest for good.    *)
DeletedProjectRests ==
  [][deleted /\ admitted = {} => UNCHANGED <<draft, deleted, admitted>>]_vars

(* The project row is always given back: no sequence of findings leaves    *)
(* the lock command without an end.                                        *)
LockCommandEnds == lockTx # Null ~> lockTx = Null

(* The abstract budget this module implements.                             *)
Freeze == INSTANCE RabFreeze WITH
  Lines <- Items, People <- Users,
  phase <- CASE rab.status = "LOCKED" -> "SEALED"
             [] rab.status = "APPROVED" -> "OFFICIAL"
             [] OTHER -> "OPEN",
  lines <- [i \in DOMAIN rows |->
              [money |-> rows[i].lineTotal,
               proven |-> Reproves(rows[i]) /\ rows[i].working = Null]],
  total <- rab.total,
  sealer <- rab.lockedBy

(* Every step of the handlers is an edit of an open budget, its sealing,   *)
(* its becoming official, or nothing to it.                                *)
ImplementsFreeze == Freeze!Spec

-----------------------------------------------------------------------------
(* What comments and messages of the source say and its code does not do   *)

(* "Only editable, never-locked project drafts may be deleted"             *)
(* (project.service.ts:772).                                               *)
DeletedNeverOfficial == deleted => ~Frozen

=============================================================================
