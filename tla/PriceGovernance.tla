-------------------------- MODULE PriceGovernance --------------------------
(***************************************************************************)
(* How a submitted price becomes catalog truth of one workspace: human     *)
(* review, publication by a second human, correction, withdrawal and       *)
(* restatement in the shared catalog, and which prices are offered for a   *)
(* given day (reality-intake/price-submission-review.service.ts and        *)
(* basic-price/basic-price-{publication,promotion}.service.ts,             *)
(* basic-price-currentness.ts).                                            *)
(*                                                                         *)
(* A decision on a review starts with SELECT ... FOR UPDATE on the review, *)
(* a publication, withdrawal or promotion on the price it moves, and each  *)
(* re-reads under that lock what it decides on: one step.  Only whether    *)
(* the actor is an active human is asked before, and may be stale.  The    *)
(* SLA check takes no lock: it reads in one statement and writes in a      *)
(* later transaction, two steps; no two checks overlap.                    *)
(*                                                                         *)
(* A price is born of one submission (sourceSubmissionId is unique), so    *)
(* both have one identity.  Its two publication axes are written together: *)
(* "VERIFIED" is UNPUBLISHED+VERIFIED, "PUBLISHED" is PUBLISHED+PUBLISHED. *)
(* Values, units and the wording of reasons are left out, a price's        *)
(* resource and region are its Context.  Prices a workspace keeps private  *)
(* are another asset family and not modelled.                              *)
(*                                                                         *)
(* Operators whose name ends in Bug are a neighbour's mistaken form; no    *)
(* other definition uses them.                                             *)
(***************************************************************************)
EXTENDS Integers, Sequences

CONSTANTS
  Prices,        \* submissions, and the Basic Prices they become
  FromEvents,    \* those that knowledge events carry; people propose the others
  Humans,        \* accounts of the workspace
  Reviewers,     \* holders of the permission to decide on reviews
  Publishers,    \* holders of the permission to publish
  MayLeave,      \* those who may be deactivated and reactivated
  ContextOf,     \* resource and region of each price
  LastDay,       \* bound of the calendar
  StatedDays,    \* the days sources state for prices and withdrawals
  EscalateAge,   \* days until an open review is escalated (7 in the code)
  ExpireAge,     \* days until it expires (30 in the code)
  Null           \* database NULL

ASSUME CalendarAssumption ==
  /\ LastDay \in Nat /\ EscalateAge \in Nat /\ ExpireAge \in Nat
  /\ EscalateAge <= ExpireAge /\ StatedDays \subseteq 0 .. LastDay
ASSUME PricesAssumption == FromEvents \subseteq Prices
ASSUME HumansAssumption == MayLeave \cup Reviewers \cup Publishers \subseteq Humans
ASSUME NullAssumption == Null \notin Prices /\ Null \notin Humans /\ Null \notin Nat

VARIABLES
  today,       \* the server's clock, in days
  active,      \* humans whose account, membership and profile are ACTIVE
  late,        \* others, with a request that found them active before
  submission,  \* PriceSubmission with the effective date of its revision
  review,      \* its PriceSubmissionReview
  accepts,     \* deciders of the ACCEPT decisions of that review, in order
  price,       \* the BasicPrice born of it
  shared,      \* author of its promotion to a shared descendant, or Null
  audits,      \* BasicPricePublicationAudit, append-only
  slaTurn      \* the transition an SLA check has read and not yet written

vars == <<today, active, late, submission, review, accepts, price, shared, audits, slaTurn>>
governance == <<price, shared, audits>>
desk == <<submission, review, accepts>>
clock == <<today, slaTurn>>

-----------------------------------------------------------------------------
(* Data *)

Days == 0 .. LastDay

Submission == [status : {"NONE", "SUBMITTED", "UNDER_REVIEW", "NEEDS_CORRECTION",
                         "VERIFIED", "REJECTED"},
               effective : Days \cup {Null}]

Review == [sla : {"NONE", "OPEN", "ESCALATED", "EXPIRED", "RESOLVED"},
           opened : Days, resolved : BOOLEAN]     \* resolvedAt is set

NoPrice == [status |-> "NONE"]
Price == {NoPrice} \cup [status : {"VERIFIED", "PUBLISHED"}, effective : Days,
                         supersedes : Prices \cup {Null}]

(* at is the instant the record governs from: createdAt, and effectiveAt   *)
(* for a withdrawal.                                                       *)
Audit == [price : Prices, action : {"PUBLISH", "SUPERSEDED", "WITHDRAWN"},
          actor : Humans, at : Days]

Published(p) == price[p].status = "PUBLISHED"
SuccessorsOf(p) == {q \in Prices : price[q] # NoPrice /\ price[q].supersedes = p}
Recorded(p, action) == \E a \in audits : a.price = p /\ a.action = action
InForce(p, action, day) ==
  \E a \in audits : a.price = p /\ a.action = action /\ a.at <= day

-----------------------------------------------------------------------------
(* Submission and review *)

(* A price proposed from an import batch or from a private price: the      *)
(* review is opened in the same transaction.                               *)
Propose(p, day) ==
  /\ p \notin FromEvents
  /\ submission[p].status = "NONE"
  /\ submission' = [submission EXCEPT ![p] = [status |-> "UNDER_REVIEW", effective |-> day]]
  /\ review' = [review EXCEPT ![p] = [sla |-> "OPEN", opened |-> today, resolved |-> FALSE]]
  /\ UNCHANGED <<clock, active, late, accepts, governance>>

(* A published knowledge event: the price it carries has no date (the      *)
(* understanding worker stores none) and nobody opens its review yet.      *)
SubmitFromEvent(p) ==
  /\ p \in FromEvents
  /\ submission[p].status = "NONE"
  /\ submission' = [submission EXCEPT ![p].status = "SUBMITTED"]
  /\ UNCHANGED <<clock, active, late, review, accepts, governance>>

OpenReview(p) ==
  /\ submission[p].status = "SUBMITTED" /\ review[p].sla = "NONE"
  /\ submission' = [submission EXCEPT ![p].status = "UNDER_REVIEW"]
  /\ review' = [review EXCEPT ![p] = [sla |-> "OPEN", opened |-> today, resolved |-> FALSE]]
  /\ UNCHANGED <<clock, active, late, accepts, governance>>

(* A decision, publication, withdrawal or promotion by h: the account,     *)
(* membership and profile were ACTIVE when the handler asked.              *)
ActsAs(h) ==
  /\ h \in active \cup late
  /\ late' = late \ {h}
  /\ UNCHANGED <<clock, active>>

Actionable(p) == review[p].sla \in {"OPEN", "ESCALATED"}

Resolved(r) == [r EXCEPT !.sla = "RESOLVED", !.resolved = TRUE]

(* Acceptance bears a price only where no ACCEPT and no price exist yet.   *)
AcceptableUndatedBug(p) ==
  /\ accepts[p] = << >> /\ price[p] = NoPrice
  /\ submission[p].status = "UNDER_REVIEW" /\ Actionable(p)
AcceptableReopenedBug(p) == Actionable(p) /\ submission[p].effective # Null
Acceptable(p) ==
  /\ accepts[p] = << >> /\ price[p] = NoPrice
  /\ submission[p].status = "UNDER_REVIEW"
  /\ Actionable(p)
  /\ submission[p].effective # Null

Accept(p, h) ==
  /\ ActsAs(h)
  /\ Acceptable(p)
  /\ accepts' = [accepts EXCEPT ![p] = Append(@, h)]
  /\ review' = [review EXCEPT ![p] = Resolved(@)]
  /\ submission' = [submission EXCEPT ![p].status = "VERIFIED"]
  /\ price' = [price EXCEPT ![p] = [status |-> "VERIFIED",
                                    effective |-> submission[p].effective,
                                    supersedes |-> Null]]
  /\ UNCHANGED <<shared, audits>>

(* REJECT resolves the review, REQUEST_CORRECTION leaves it open; neither  *)
(* looks at the submission's status.                                       *)
Decline(p, h, status) ==
  /\ ActsAs(h)
  /\ Actionable(p)
  /\ submission' = [submission EXCEPT ![p].status = status]
  /\ review' = IF status = "REJECTED"
               THEN [review EXCEPT ![p] = Resolved(@)]
               ELSE review
  /\ UNCHANGED <<accepts, governance>>

(* The SLA check looks at the unresolved review opened first, and only at  *)
(* that one.                                                               *)
Unresolved == {p \in Prices : Actionable(p) /\ ~review[p].resolved}

SlaDue(p) ==
  LET age == today - review[p].opened
  IN  IF age >= ExpireAge THEN "EXPIRED"
      ELSE IF age >= EscalateAge /\ review[p].sla = "OPEN" THEN "ESCALATED"
      ELSE Null

ReadSla(p) ==
  /\ slaTurn = Null
  /\ p \in Unresolved /\ \A q \in Unresolved : review[p].opened <= review[q].opened
  /\ SlaDue(p) # Null
  /\ slaTurn' = [price |-> p, to |-> SlaDue(p)]
  /\ UNCHANGED <<today, active, late, desk, governance>>

ApplySla ==
  /\ slaTurn # Null
  /\ review' = [review EXCEPT ![slaTurn.price].sla = slaTurn.to]
  /\ slaTurn' = Null
  /\ UNCHANGED <<today, active, late, submission, accepts, governance>>

-----------------------------------------------------------------------------
(* Publication *)

(* The one ACCEPT decision is by a human who is still active and is not    *)
(* the publisher.                                                          *)
LadderCompleteBug(p, h) == Len(accepts[p]) = 1 /\ accepts[p][1] \in active
LadderComplete(p, h) ==
  /\ Len(accepts[p]) = 1
  /\ accepts[p][1] \in active
  /\ accepts[p][1] # h

(* The price a publication claims to correct: published, of the same       *)
(* resource and region, and not corrected before.                          *)
MayCorrectForkBug(p, old) == Published(old) /\ ContextOf[old] = ContextOf[p]
MayCorrect(p, old) ==
  /\ Published(old)
  /\ ContextOf[old] = ContextOf[p]
  /\ SuccessorsOf(old) = {}

Publish(p, h, old) ==
  /\ ActsAs(h)
  /\ price[p].status = "VERIFIED"
  /\ LadderComplete(p, h)
  /\ old # Null => old # p /\ MayCorrect(p, old)
  /\ price' = [price EXCEPT ![p].status = "PUBLISHED", ![p].supersedes = old]
  /\ audits' = audits
       \cup {[price |-> p, action |-> "PUBLISH", actor |-> h, at |-> today]}
       \cup {[price |-> q, action |-> "SUPERSEDED", actor |-> h, at |-> today] :
               q \in {old} \ {Null}}
  /\ UNCHANGED <<desk, shared>>

(* Withdrawal states its own day, earlier or later than today; a second    *)
(* one writes nothing.                                                     *)
Withdraw(p, h, day) ==
  /\ ActsAs(h)
  /\ Published(p)
  /\ ~ Recorded(p, "WITHDRAWN")
  /\ audits' = audits
       \cup {[price |-> p, action |-> "WITHDRAWN", actor |-> h, at |-> day]}
  /\ UNCHANGED <<desk, price, shared>>

(* The shared descendant copies the origin's dates and money; a corrected  *)
(* price is not promoted, and a promoted one not twice.                    *)
Promotable(p) == Published(p) /\ shared[p] = Null /\ SuccessorsOf(p) = {}

Promote(p, h) ==
  /\ ActsAs(h)
  /\ Promotable(p)
  /\ shared' = [shared EXCEPT ![p] = h]
  /\ UNCHANGED <<desk, price, audits>>

-----------------------------------------------------------------------------
(* What is offered for a day: lawful, applicable and current prices *)

(* A correction counts from the day it was recorded; one whose record is   *)
(* missing counts on every day.                                            *)
CorrectedByStrictBug(p, day) ==
  \E a \in audits : a.price = p /\ a.action = "SUPERSEDED" /\ a.at < day
CorrectedByAbsoluteBug(p, day) == SuccessorsOf(p) # {}
CorrectedBy(p, day) ==
  \/ InForce(p, "SUPERSEDED", day)
  \/ SuccessorsOf(p) # {} /\ ~ Recorded(p, "SUPERSEDED")

Current(p, day) == ~ CorrectedBy(p, day) /\ ~ InForce(p, "WITHDRAWN", day)

(* What the workspace is offered, and what others are offered: the shared  *)
(* descendants, each of which follows its origin.                          *)
Offered(day) ==
  {p \in Prices : Published(p) /\ price[p].effective <= day /\ Current(p, day)}
OfferedToOthers(day) ==
  {p \in Prices : shared[p] # Null /\ price[p].effective <= day /\ Current(p, day)}

-----------------------------------------------------------------------------
(* The people who decide come and go; a request of theirs may remain.      *)
Deactivate(h) ==
  /\ h \in active \cap MayLeave
  /\ active' = active \ {h}
  /\ late' \in {late, late \cup {h}}
  /\ UNCHANGED <<clock, desk, governance>>

Reactivate(h) ==
  /\ h \in MayLeave \ active
  /\ active' = active \cup {h}
  /\ late' = late \ {h}
  /\ UNCHANGED <<clock, desk, governance>>

NextDay ==
  /\ today < LastDay
  /\ today' = today + 1
  /\ UNCHANGED <<active, late, desk, governance, slaTurn>>

Init ==
  /\ today = 0
  /\ active = Humans
  /\ late = {}
  /\ submission = [p \in Prices |-> [status |-> "NONE", effective |-> Null]]
  /\ review = [p \in Prices |-> [sla |-> "NONE", opened |-> 0, resolved |-> FALSE]]
  /\ accepts = [p \in Prices |-> << >>]
  /\ price = [p \in Prices |-> NoPrice]
  /\ shared = [p \in Prices |-> Null]
  /\ audits = {}
  /\ slaTurn = Null

Next ==
  \/ \E p \in Prices :
       \/ \E day \in StatedDays : Propose(p, day)
       \/ SubmitFromEvent(p)
       \/ OpenReview(p)
       \/ ReadSla(p)
       \/ \E h \in Reviewers :
            \/ Accept(p, h)
            \/ \E status \in {"REJECTED", "NEEDS_CORRECTION"} : Decline(p, h, status)
       \/ \E h \in Publishers :
            \/ \E old \in Prices \cup {Null} : Publish(p, h, old)
            \/ \E day \in StatedDays : Withdraw(p, h, day)
            \/ Promote(p, h)
  \/ \E h \in Humans : Deactivate(h) \/ Reactivate(h)
  \/ ApplySla
  \/ NextDay

Spec == Init /\ [][Next]_vars

-----------------------------------------------------------------------------
(* Properties *)

TypeOK ==
  /\ today \in Days
  /\ active \subseteq Humans
  /\ late \subseteq Humans \ active
  /\ submission \in [Prices -> Submission]
  /\ review \in [Prices -> Review]
  /\ accepts \in [Prices -> Seq(Humans)]
  /\ price \in [Prices -> Price]
  /\ shared \in [Prices -> Humans \cup {Null}]
  /\ audits \subseteq Audit
  /\ slaTurn \in {Null} \cup [price : Prices, to : {"ESCALATED", "EXPIRED"}]

(* One human acceptance and one price, or neither: whatever reviewers,     *)
(* resubmissions and late SLA writes do to a review, it never bears a      *)
(* second price nor a price nobody accepted.                               *)
OneAcceptanceOnePrice ==
  \A p \in Prices : /\ Len(accepts[p]) <= 1
                    /\ accepts[p] = << >> <=> price[p] = NoPrice

(* The two-human ladder of the Owner Lock: what is published was published *)
(* once, by a human other than the one who accepted it.                    *)
Publications(p) == {a \in audits : a.price = p /\ a.action = "PUBLISH"}
TwoHumanLadder ==
  \A p \in Prices :
    IF Published(p)
    THEN \E a \in Publications(p) : Publications(p) = {a} /\ accepts[p][1] # a.actor
    ELSE Publications(p) = {}

(* Corrections form chains: a published price has at most one successor,   *)
(* which is published, of the same resource and region, and recorded on    *)
(* its predecessor; no price corrects itself through others.               *)
OneSuccessor ==
  \A p, q \in Prices : q \in SuccessorsOf(p) =>
    /\ Published(p) /\ Published(q) /\ ContextOf[p] = ContextOf[q]
    /\ SuccessorsOf(p) = {q}
CorrectionsRecorded ==
  \A p \in Prices : SuccessorsOf(p) # {} <=> Recorded(p, "SUPERSEDED")
NoCycle ==
  \A S \in (SUBSET Prices) \ {{}} :
    \E q \in S : price[q] = NoPrice \/ price[q].supersedes \notin S
CorrectionsFormChains == OneSuccessor /\ CorrectionsRecorded /\ NoCycle

(* Corrected money is not on offer today, in the workspace or elsewhere.   *)
CorrectedNotOfferedToday ==
  \A p \in Offered(today) \cup OfferedToOthers(today) : SuccessorsOf(p) = {}

(* What was offered for a past day stays offered for that day: only a      *)
(* withdrawal that dates itself so early takes a price out of it.  Later   *)
(* corrections do not rewrite earlier answers.                             *)
AnswersNotRewritten ==
  [][\A day \in Days : day < today =>
       \A p \in Prices :
         \/ InForce(p, "WITHDRAWN", day)'
         \/ /\ p \in Offered(day) => p \in Offered(day)'
            /\ p \in OfferedToOthers(day) => p \in OfferedToOthers(day)']_vars

(* The catalog a reader sees, answer by answer: the dates of the audit     *)
(* records, the successor links and the two publication axes come to the   *)
(* steps of PriceCatalog and nothing else, whatever reviews, late SLA      *)
(* writes and people who come and go do meanwhile.                         *)
Catalog == INSTANCE PriceCatalog WITH
  acceptor <- [p \in Prices |-> IF accepts[p] = << >> THEN Null ELSE accepts[p][1]],
  from <- [p \in Prices |-> IF price[p] = NoPrice THEN Null ELSE price[p].effective],
  published <- {p \in Prices : Published(p)},
  replaced <- {p \in Prices : SuccessorsOf(p) # {}},
  withdrawn <- {p \in Prices : Recorded(p, "WITHDRAWN")},
  lent <- {p \in Prices : shared[p] # Null},
  answer <- [d \in Days |-> Offered(d)]
ImplementsCatalog == Catalog!Spec

=============================================================================
