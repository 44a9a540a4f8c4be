----------------------- MODULE PriceGovernanceProofs -----------------------
(* Theorems about PriceGovernance, for every value of its constants.       *)
EXTENDS PriceGovernance, TLAPS

-----------------------------------------------------------------------------
(* The inductive invariant *)

(* A price not yet published corrects nothing, and only published prices   *)
(* are restated elsewhere.                                                 *)
PricesOK ==
  \A p \in Prices :
    /\ price[p].status = "VERIFIED" => price[p].supersedes = Null
    /\ shared[p] # Null => Published(p)

(* A publication or correction is recorded on the day it happens.          *)
RecordsPast == \A a \in audits : a.action # "WITHDRAWN" => a.at <= today

(* What a step relies on: a correction points at a published price, which  *)
(* is why publishing never closes a cycle.                                 *)
IInv ==
  /\ TypeOK
  /\ PricesOK
  /\ RecordsPast
  /\ OneAcceptanceOnePrice
  /\ TwoHumanLadder
  /\ CorrectionsFormChains

-----------------------------------------------------------------------------
(* What the steps do to prices and records *)

(* Steps of the desk, the SLA check, the calendar and the staff.           *)
Quiet ==
  /\ UNCHANGED <<accepts, governance>>
  /\ today' \in {today, today + 1}

(* Every step is quiet, an acceptance or one act of governance.            *)
LEMMA StepKinds ==
  ASSUME [Next]_vars
  PROVE  \/ Quiet
         \/ \E p \in Prices, h \in Reviewers : Accept(p, h)
         \/ \E p \in Prices, h \in Publishers :
              \/ \E old \in Prices \cup {Null} : Publish(p, h, old)
              \/ \E day \in StatedDays : Withdraw(p, h, day)
              \/ Promote(p, h)
<1>1. ASSUME NEW p \in Prices, NEW day, Propose(p, day) PROVE Quiet
  BY <1>1 DEF Propose, Quiet, clock
<1>2. ASSUME NEW p \in Prices, SubmitFromEvent(p) \/ OpenReview(p) \/ ReadSla(p)
      PROVE  Quiet
  BY <1>2 DEF SubmitFromEvent, OpenReview, ReadSla, Quiet, clock, desk
<1>3. ASSUME NEW p \in Prices, NEW h, NEW status, Decline(p, h, status)
      PROVE  Quiet
  BY <1>3 DEF Decline, ActsAs, Quiet, clock
<1>4. ASSUME NEW h, Deactivate(h) \/ Reactivate(h) PROVE Quiet
  BY <1>4 DEF Deactivate, Reactivate, Quiet, clock, desk
<1>5. ApplySla \/ NextDay \/ UNCHANGED vars => Quiet
  BY DEF ApplySla, NextDay, vars, Quiet, desk, governance
<1> QED
  BY <1>1, <1>2, <1>3, <1>4, <1>5 DEF Next

(* A resolved review is a review.                                          *)
LEMMA ResolvedType == ASSUME NEW r \in Review PROVE Resolved(r) \in Review
  BY DEF Review, Resolved

(* A submission keeps its shape whatever status it gets.                   *)
LEMMA SubmissionStatusType ==
  ASSUME NEW s \in Submission,
         NEW status \in {"SUBMITTED", "UNDER_REVIEW", "NEEDS_CORRECTION", "VERIFIED", "REJECTED"}
  PROVE  [s EXCEPT !.status = status] \in Submission
  BY DEF Submission

(* A review keeps its shape whatever the SLA check writes.                 *)
LEMMA ReviewSlaType ==
  ASSUME NEW r \in Review, NEW sla \in {"ESCALATED", "EXPIRED"}
  PROVE  [r EXCEPT !.sla = sla] \in Review
  BY DEF Review

(* Every step keeps the types.                                             *)
LEMMA TypeOfStep == IInv /\ [Next]_vars => TypeOK'
<1> SUFFICES ASSUME IInv, [Next]_vars PROVE TypeOK'
  OBVIOUS
<1> USE DEF IInv
<1>1. ASSUME NEW p \in Prices, NEW day \in StatedDays, Propose(p, day) PROVE TypeOK'
  BY <1>1, CalendarAssumption
     DEF Propose, TypeOK, Submission, Review, Days, clock, governance
<1>2. ASSUME NEW p \in Prices, SubmitFromEvent(p) PROVE TypeOK'
  BY <1>2 DEF SubmitFromEvent, TypeOK, Submission, Days, clock, governance
<1>3. ASSUME NEW p \in Prices, OpenReview(p) PROVE TypeOK'
  <2>1. submission' \in [Prices -> Submission]
    BY <1>3, SubmissionStatusType DEF OpenReview, TypeOK
  <2>2. review' \in [Prices -> Review]
    BY <1>3 DEF OpenReview, TypeOK, Review
  <2> QED
    BY <1>3, <2>1, <2>2 DEF OpenReview, TypeOK, clock, governance
<1>4. ASSUME NEW p \in Prices, ReadSla(p) PROVE TypeOK'
  BY <1>4 DEF ReadSla, SlaDue, TypeOK, desk, governance
<1>5. ASSUME ApplySla PROVE TypeOK'
  <2>1. slaTurn.price \in Prices /\ slaTurn.to \in {"ESCALATED", "EXPIRED"}
    BY <1>5 DEF ApplySla, TypeOK
  <2> QED
    BY <1>5, <2>1, ReviewSlaType DEF ApplySla, TypeOK, governance
<1>6. ASSUME NEW p \in Prices, NEW h \in Reviewers, Accept(p, h) PROVE TypeOK'
  <2>1. h \in Humans
    BY HumansAssumption
  <2>2. submission[p].effective \in Days
    BY <1>6 DEF Accept, Acceptable, TypeOK, Submission
  <2>3. price' \in [Prices -> Price]
    BY <1>6, <2>2 DEF Accept, TypeOK, Price
  <2>4. accepts' \in [Prices -> Seq(Humans)]
    BY <1>6, <2>1 DEF Accept, TypeOK
  <2>5. review' \in [Prices -> Review]
    BY <1>6, ResolvedType DEF Accept, TypeOK
  <2>6. submission' \in [Prices -> Submission]
    BY <1>6, SubmissionStatusType DEF Accept, TypeOK
  <2> QED
    BY <1>6, <2>3, <2>4, <2>5, <2>6 DEF Accept, ActsAs, TypeOK, clock
<1>7. ASSUME NEW p \in Prices, NEW h \in Reviewers,
             NEW status \in {"REJECTED", "NEEDS_CORRECTION"}, Decline(p, h, status)
      PROVE TypeOK'
  <2>1. review' \in [Prices -> Review]
    BY <1>7, ResolvedType DEF Decline, TypeOK
  <2>2. submission' \in [Prices -> Submission]
    BY <1>7, SubmissionStatusType DEF Decline, TypeOK
  <2> QED
    BY <1>7, <2>1, <2>2 DEF Decline, ActsAs, TypeOK, clock, governance
<1>8. ASSUME NEW p \in Prices, NEW h \in Publishers, NEW old \in Prices \cup {Null},
             Publish(p, h, old)
      PROVE TypeOK'
  <2>1. h \in Humans /\ today \in Days
    BY HumansAssumption DEF TypeOK
  <2>2. price[p] # NoPrice
    BY <1>8 DEF Publish, NoPrice
  <2> DEFINE published == [price[p] EXCEPT !.status = "PUBLISHED", !.supersedes = old]
  <2>5. published \in Price
    <3>1. price[p] \in Price \ {NoPrice}
      BY <2>2 DEF TypeOK
    <3> QED
      BY <3>1 DEF Price
  <2>6. price' = [price EXCEPT ![p] = published]
    BY <1>8 DEF Publish
  <2>3. price' \in [Prices -> Price]
    <3> HIDE DEF published
    <3> QED
      BY <2>5, <2>6 DEF TypeOK
  <2>4. audits' \subseteq Audit
    BY <1>8, <2>1 DEF Publish, TypeOK, Audit
  <2> QED
    BY <1>8, <2>3, <2>4 DEF Publish, ActsAs, TypeOK, clock, desk
<1>9. ASSUME NEW p \in Prices, NEW h \in Publishers, NEW day \in StatedDays,
             Withdraw(p, h, day)
      PROVE TypeOK'
  <2>1. h \in Humans /\ day \in Days
    BY HumansAssumption, CalendarAssumption DEF Days
  <2>2. audits' \subseteq Audit
    BY <1>9, <2>1 DEF Withdraw, TypeOK, Audit
  <2> QED
    BY <1>9, <2>2 DEF Withdraw, ActsAs, TypeOK, clock, desk
<1>10. ASSUME NEW p \in Prices, NEW h \in Publishers, Promote(p, h) PROVE TypeOK'
  <2>1. shared' \in [Prices -> Humans \cup {Null}]
    BY <1>10, HumansAssumption DEF Promote, TypeOK
  <2> QED
    BY <1>10, <2>1 DEF Promote, ActsAs, TypeOK, clock, desk
<1>11. ASSUME NEW h \in Humans, Deactivate(h) \/ Reactivate(h) PROVE TypeOK'
  BY <1>11 DEF Deactivate, Reactivate, TypeOK, clock, desk, governance
<1>12. ASSUME NextDay PROVE TypeOK'
  BY <1>12, CalendarAssumption DEF NextDay, TypeOK, Days, desk, governance
<1>13. ASSUME UNCHANGED vars PROVE TypeOK'
  BY <1>13 DEF vars, TypeOK
<1> QED
  BY <1>1, <1>2, <1>3, <1>4, <1>5, <1>6, <1>7, <1>8, <1>9, <1>10, <1>11, <1>12, <1>13
     DEF Next

-----------------------------------------------------------------------------
(* Each step keeps the invariant *)

(* The invariant without the types, which TypeOfStep keeps.                *)
GInv ==
  PricesOK /\ RecordsPast /\ OneAcceptanceOnePrice /\ TwoHumanLadder
    /\ CorrectionsFormChains

(* Quiet steps touch nothing the invariant speaks of, but let time pass.   *)
LEMMA QuietKeeps == ASSUME IInv, Quiet PROVE GInv'
<1>1. UNCHANGED <<accepts, price, shared, audits>>
  BY DEF Quiet, governance
<1>2. RecordsPast'
  BY <1>1 DEF IInv, RecordsPast, Quiet, TypeOK, Days, Audit
<1>3. PricesOK' /\ OneAcceptanceOnePrice'
  BY <1>1 DEF IInv, PricesOK, OneAcceptanceOnePrice, Published
<1>4. TwoHumanLadder'
  BY <1>1 DEF IInv, TwoHumanLadder, Published, Publications
<1>5. CorrectionsFormChains'
  BY <1>1 DEF IInv, CorrectionsFormChains, OneSuccessor, CorrectionsRecorded, NoCycle,
     SuccessorsOf, Published, Recorded
<1> QED
  BY <1>2, <1>3, <1>4, <1>5 DEF GInv

(* acceptPriceSubmissionReview bears a price that corrects nothing and     *)
(* that nothing corrects.                                                  *)
LEMMA AcceptKeeps ==
  ASSUME IInv, NEW p \in Prices, NEW h \in Reviewers, Accept(p, h)
  PROVE  GInv'
<1> DEFINE born == [status |-> "VERIFIED", effective |-> submission[p].effective,
                    supersedes |-> Null]
<1>1. /\ price[p] = NoPrice /\ accepts[p] = << >>
      /\ price' = [price EXCEPT ![p] = born]
      /\ accepts' = [accepts EXCEPT ![p] = Append(@, h)]
      /\ UNCHANGED <<shared, audits, today>>
  BY DEF Accept, Acceptable, ActsAs, clock
<1>2. price \in [Prices -> Price] /\ accepts \in [Prices -> Seq(Humans)] /\ h \in Humans
  BY HumansAssumption DEF IInv, TypeOK
<1>3. /\ price'[p] = born /\ accepts'[p] = Append(accepts[p], h)
      /\ \A q \in Prices \ {p} : price'[q] = price[q] /\ accepts'[q] = accepts[q]
  BY <1>1, <1>2
<1>4. born # NoPrice /\ born.status = "VERIFIED" /\ born.supersedes = Null
  BY DEF NoPrice
<1>5. ~Published(p) /\ ~Published(p)'
  BY <1>1, <1>3, <1>4 DEF Published, NoPrice
<1>6. \A q \in Prices : Published(q)' <=> Published(q)
  BY <1>3, <1>5 DEF Published
<1>7. \A q \in Prices : SuccessorsOf(q)' = SuccessorsOf(q)
  BY <1>1, <1>3, <1>4, NullAssumption DEF SuccessorsOf
<1>8. PricesOK'
  BY <1>1, <1>3, <1>4, <1>6 DEF IInv, PricesOK
<1>9. RecordsPast'
  BY <1>1 DEF IInv, RecordsPast
<1>10. OneAcceptanceOnePrice'
  <2>1. accepts'[p] = <<h>>
    BY <1>1, <1>2, <1>3
  <2>2. Len(<<h>>) <= 1 /\ <<h>> # << >>
    OBVIOUS
  <2>3. Len(accepts'[p]) <= 1 /\ accepts'[p] # << >> /\ price'[p] # NoPrice
    BY <1>3, <1>4, <2>1, <2>2
  <2>4. ASSUME NEW q \in Prices \ {p}
        PROVE  Len(accepts'[q]) <= 1 /\ (accepts'[q] = << >> <=> price'[q] = NoPrice)
    BY <1>3 DEF IInv, OneAcceptanceOnePrice
  <2> QED
    BY <2>3, <2>4 DEF OneAcceptanceOnePrice
<1>11. TwoHumanLadder'
  <2>1. \A q \in Prices : Published(q)' => accepts'[q] = accepts[q]
    BY <1>3, <1>5
  <2>2. \A q \in Prices : Publications(q)' = Publications(q)
    BY <1>1 DEF Publications
  <2> QED
    BY <1>6, <2>1, <2>2 DEF IInv, TwoHumanLadder
<1>12. OneSuccessor'
  BY <1>6, <1>7 DEF IInv, CorrectionsFormChains, OneSuccessor
<1>13. CorrectionsRecorded'
  BY <1>1, <1>7 DEF IInv, CorrectionsFormChains, CorrectionsRecorded, Recorded
<1>14. NoCycle'
  <2> SUFFICES ASSUME NEW S \in (SUBSET Prices) \ {{}}
               PROVE  \E q \in S : price'[q] = NoPrice \/ price'[q].supersedes \notin S
    BY DEF NoCycle
  <2>1. CASE p \in S
    BY <1>3, <1>4, <2>1, NullAssumption
  <2>2. CASE p \notin S
    BY <1>3, <2>2 DEF IInv, CorrectionsFormChains, NoCycle
  <2> QED
    BY <2>1, <2>2
<1> QED
  BY <1>8, <1>9, <1>10, <1>11, <1>12, <1>13, <1>14 DEF GInv, CorrectionsFormChains

(* withdraw adds a record that no correction or publication is read from.  *)
LEMMA WithdrawKeeps ==
  ASSUME IInv, NEW p \in Prices, NEW h \in Publishers, NEW day \in StatedDays,
         Withdraw(p, h, day)
  PROVE  GInv'
<1> DEFINE record == [price |-> p, action |-> "WITHDRAWN", actor |-> h, at |-> day]
<1>1. audits' = audits \cup {record} /\ UNCHANGED <<accepts, price, shared, today>>
  BY DEF Withdraw, ActsAs, clock, desk
<1>2. record.action = "WITHDRAWN"
  OBVIOUS
<1>3. PricesOK' /\ RecordsPast' /\ OneAcceptanceOnePrice'
  BY <1>1, <1>2 DEF IInv, PricesOK, RecordsPast, OneAcceptanceOnePrice, Published
<1>4. \A q : Publications(q)' = Publications(q)
  BY <1>1, <1>2 DEF Publications
<1>5. TwoHumanLadder'
  BY <1>1, <1>4 DEF IInv, TwoHumanLadder, Published, Publications
<1>6. \A q : Recorded(q, "SUPERSEDED")' <=> Recorded(q, "SUPERSEDED")
  BY <1>1, <1>2 DEF Recorded
<1>7. CorrectionsFormChains'
  BY <1>1, <1>6 DEF IInv, CorrectionsFormChains, OneSuccessor, CorrectionsRecorded,
     NoCycle, SuccessorsOf, Published
<1> QED
  BY <1>3, <1>5, <1>7 DEF GInv

(* promoteToSharedCatalog only restates what is published.                 *)
LEMMA PromoteKeeps ==
  ASSUME IInv, NEW p \in Prices, NEW h, Promote(p, h)
  PROVE  GInv'
<1>1. /\ Published(p) /\ shared' = [shared EXCEPT ![p] = h]
      /\ UNCHANGED <<accepts, price, audits, today>>
  BY DEF Promote, Promotable, ActsAs, clock, desk
<1>2. PricesOK' /\ RecordsPast' /\ OneAcceptanceOnePrice'
  BY <1>1 DEF IInv, TypeOK, PricesOK, RecordsPast, OneAcceptanceOnePrice, Published
<1>3. TwoHumanLadder'
  BY <1>1 DEF IInv, TwoHumanLadder, Published, Publications
<1>4. CorrectionsFormChains'
  BY <1>1 DEF IInv, CorrectionsFormChains, OneSuccessor, CorrectionsRecorded, NoCycle,
     SuccessorsOf, Published, Recorded
<1> QED
  BY <1>2, <1>3, <1>4 DEF GInv

(* publish moves one verified price, which nothing corrects yet, and       *)
(* records it; the price it corrects gains its only successor and record.  *)
LEMMA PublishKeeps ==
  ASSUME IInv, NEW p \in Prices, NEW h \in Publishers, NEW old \in Prices \cup {Null},
         Publish(p, h, old)
  PROVE  GInv'
<1> DEFINE published == [price |-> p, action |-> "PUBLISH", actor |-> h, at |-> today]
           corrected(q) == [price |-> q, action |-> "SUPERSEDED", actor |-> h, at |-> today]
<1>1. /\ price[p].status = "VERIFIED" /\ LadderComplete(p, h)
      /\ price' = [price EXCEPT ![p].status = "PUBLISHED", ![p].supersedes = old]
      /\ audits' = audits \cup {published} \cup {corrected(q) : q \in {old} \ {Null}}
      /\ UNCHANGED <<accepts, shared, today>>
  BY DEF Publish, ActsAs, clock, desk
<1>2. old # Null => /\ old \in Prices \ {p} /\ Published(old)
                    /\ ContextOf[old] = ContextOf[p] /\ SuccessorsOf(old) = {}
  BY DEF Publish, MayCorrect
<1>3. price \in [Prices -> Price]
  BY DEF IInv, TypeOK
<1>4. price[p] \in Price \ {NoPrice} /\ price[p].supersedes = Null
  BY <1>1, <1>3 DEF IInv, PricesOK, NoPrice
<1>5. /\ price'[p].status = "PUBLISHED" /\ price'[p].supersedes = old
      /\ \A q \in Prices \ {p} : price'[q] = price[q]
  BY <1>1, <1>3, <1>4 DEF Price
<1>6. price'[p] # NoPrice
  BY <1>5 DEF NoPrice
<1>7. ~Published(p) /\ Published(p)' /\ \A q \in Prices \ {p} : Published(q)' <=> Published(q)
  BY <1>1, <1>5 DEF Published
<1>8. \A q \in Prices : SuccessorsOf(q)' = IF q = old THEN {p} ELSE SuccessorsOf(q)
  <2>1. \A q \in Prices : p \notin SuccessorsOf(q)
    BY <1>4, NullAssumption DEF SuccessorsOf
  <2>2. \A q, r \in Prices : r # p => (r \in SuccessorsOf(q)' <=> r \in SuccessorsOf(q))
    BY <1>5 DEF SuccessorsOf
  <2>3. \A q \in Prices : p \in SuccessorsOf(q)' <=> q = old
    BY <1>5, <1>6 DEF SuccessorsOf
  <2>4. \A q \in Prices : SuccessorsOf(q) \subseteq Prices /\ SuccessorsOf(q)' \subseteq Prices
    BY DEF SuccessorsOf
  <2>5. ASSUME NEW q \in Prices, q = old PROVE SuccessorsOf(q)' = {p}
    BY <1>2, <2>2, <2>3, <2>4, <2>5, NullAssumption
  <2>6. ASSUME NEW q \in Prices, q # old PROVE SuccessorsOf(q)' = SuccessorsOf(q)
    <3>1. \A r \in Prices : r \in SuccessorsOf(q)' <=> r \in SuccessorsOf(q)
      BY <2>1, <2>2, <2>3, <2>6
    <3> QED
      BY <2>4, <3>1
  <2> QED
    BY <2>5, <2>6
<1>9. SuccessorsOf(p) = {} /\ old # p
  BY <1>2, <1>7, NullAssumption DEF IInv, CorrectionsFormChains, OneSuccessor, SuccessorsOf
<1>10. PricesOK'
  BY <1>1, <1>5, <1>7 DEF IInv, PricesOK
<1>11. RecordsPast'
  BY <1>1 DEF IInv, RecordsPast, TypeOK, Days
<1>12. OneAcceptanceOnePrice'
  BY <1>1, <1>4, <1>5, <1>6 DEF IInv, OneAcceptanceOnePrice
<1>13. TwoHumanLadder'
  <2>1. Publications(p) = {}
    BY <1>7 DEF IInv, TwoHumanLadder
  <2>2. Publications(p)' = {published}
    <3>1. \A a \in audits' : a.price = p /\ a.action = "PUBLISH" <=> a = published
      BY <1>1, <2>1 DEF Publications
    <3> QED
      BY <1>1, <3>1 DEF Publications
  <2>3. accepts'[p][1] # published.actor
    BY <1>1 DEF LadderComplete
  <2>4. \A q \in Prices \ {p} : Publications(q)' = Publications(q)
    BY <1>1 DEF Publications
  <2> QED
    BY <1>1, <1>7, <2>2, <2>3, <2>4 DEF IInv, TwoHumanLadder
<1>14. OneSuccessor'
  <2> SUFFICES ASSUME NEW q \in Prices, NEW r \in Prices, r \in SuccessorsOf(q)'
               PROVE  /\ Published(q)' /\ Published(r)' /\ ContextOf[q] = ContextOf[r]
                      /\ SuccessorsOf(q)' = {r}
    BY DEF OneSuccessor
  <2>1. CASE q = old
    <3>1. old # Null /\ r = p
      BY <1>8, <2>1, NullAssumption
    <3> QED
      BY <1>2, <1>7, <1>8, <2>1, <3>1
  <2>2. CASE q # old
    <3>1. r \in SuccessorsOf(q) /\ SuccessorsOf(q)' = SuccessorsOf(q)
      BY <1>8, <2>2
    <3>2. /\ Published(q) /\ Published(r) /\ ContextOf[q] = ContextOf[r]
          /\ SuccessorsOf(q) = {r}
      BY <3>1 DEF IInv, CorrectionsFormChains, OneSuccessor
    <3> QED
      BY <1>7, <3>1, <3>2
  <2> QED
    BY <2>1, <2>2
<1>15. CorrectionsRecorded'
  <2>1. ASSUME NEW q \in Prices, q = old PROVE Recorded(q, "SUPERSEDED")'
    <3>1. corrected(q) \in audits'
      BY <1>1, <2>1, NullAssumption
    <3>2. corrected(q).price = q /\ corrected(q).action = "SUPERSEDED"
      OBVIOUS
    <3> QED
      BY <3>1, <3>2 DEF Recorded
  <2>2. ASSUME NEW q \in Prices, q # old
        PROVE  Recorded(q, "SUPERSEDED")' <=> Recorded(q, "SUPERSEDED")
    BY <1>1, <2>2 DEF Recorded
  <2> QED
    BY <1>8, <2>1, <2>2 DEF IInv, CorrectionsFormChains, CorrectionsRecorded
<1>16. NoCycle'
  <2> SUFFICES ASSUME NEW S \in (SUBSET Prices) \ {{}}
               PROVE  \E q \in S : price'[q] = NoPrice \/ price'[q].supersedes \notin S
    BY DEF NoCycle
  <2>1. CASE S = {p}
    BY <1>5, <1>9, <2>1
  <2>2. CASE S # {p}
    <3>1. S \ {p} \in (SUBSET Prices) \ {{}}
      BY <2>2
    <3>2. PICK q \in S \ {p} : price[q] = NoPrice \/ price[q].supersedes \notin S \ {p}
      BY <3>1 DEF IInv, CorrectionsFormChains, NoCycle
    <3>3. price[q] = NoPrice \/ price[q].supersedes # p
      BY <1>9, <3>2 DEF SuccessorsOf
    <3> QED
      BY <1>5, <3>2, <3>3
  <2> QED
    BY <2>1, <2>2
<1> QED
  BY <1>10, <1>11, <1>12, <1>13, <1>14, <1>15, <1>16 DEF GInv, CorrectionsFormChains

(* Every step keeps the invariant.                                         *)
LEMMA StepKeeps == IInv /\ [Next]_vars => IInv'
<1> SUFFICES ASSUME IInv, [Next]_vars PROVE IInv'
  OBVIOUS
<1>1. TypeOK'
  BY TypeOfStep
<1>2. GInv'
  BY StepKinds, QuietKeeps, AcceptKeeps, PublishKeeps, WithdrawKeeps, PromoteKeeps
<1> QED
  BY <1>1, <1>2 DEF IInv, GInv

(* An empty catalog satisfies the invariant.                               *)
LEMMA InitInv == Init => IInv
<1> SUFFICES ASSUME Init PROVE IInv
  OBVIOUS
<1>1. TypeOK
  BY CalendarAssumption DEF Init, TypeOK, Days, Submission, Review, Price
<1>2. \A p \in Prices : price[p] = NoPrice /\ shared[p] = Null /\ accepts[p] = << >>
  BY DEF Init
<1>3. \A p \in Prices : SuccessorsOf(p) = {} /\ ~Published(p)
  <2>1. \A p \in Prices : SuccessorsOf(p) = {}
    BY <1>2 DEF SuccessorsOf
  <2>2. NoPrice.status # "PUBLISHED"
    BY DEF NoPrice
  <2> QED
    BY <1>2, <2>1, <2>2 DEF Published
<1>4. audits = {}
  BY DEF Init
<1>5. PricesOK /\ RecordsPast
  BY <1>2, <1>4 DEF PricesOK, RecordsPast, NoPrice
<1>6. OneAcceptanceOnePrice
  <2>1. Len(<< >>) <= 1
    OBVIOUS
  <2> QED
    BY <1>2, <2>1 DEF OneAcceptanceOnePrice
<1>7. TwoHumanLadder
  BY <1>3, <1>4 DEF TwoHumanLadder, Publications
<1>8. OneSuccessor /\ CorrectionsRecorded
  BY <1>3, <1>4 DEF OneSuccessor, CorrectionsRecorded, Recorded
<1>9. NoCycle
  BY <1>2 DEF NoCycle
<1> QED
  BY <1>1, <1>5, <1>6, <1>7, <1>8, <1>9 DEF IInv, CorrectionsFormChains

(* The strengthening every theorem below rests on.                         *)
THEOREM InductiveInvariant == Spec => []IInv
<1> QED
  BY InitInv, StepKeeps, PTL DEF Spec

-----------------------------------------------------------------------------
(* Theorems *)

(* Reviews, prices, corrections and records are always well formed.        *)
THEOREM TypeCorrect == Spec => []TypeOK
<1>1. IInv => TypeOK
  BY DEF IInv
<1> QED
  BY <1>1, InductiveInvariant, PTL

(* acceptPriceSubmissionReview: at most one ACCEPT, exactly as many prices.*)
THEOREM AcceptedOnce == Spec => []OneAcceptanceOnePrice
<1>1. IInv => OneAcceptanceOnePrice
  BY DEF IInv
<1> QED
  BY <1>1, InductiveInvariant, PTL

(* publish: two different humans behind every published price.             *)
THEOREM PublishedByTwo == Spec => []TwoHumanLadder
<1>1. IInv => TwoHumanLadder
  BY DEF IInv
<1> QED
  BY <1>1, InductiveInvariant, PTL

(* Supersession: chains without forks or cycles, for any number of prices. *)
THEOREM CorrectionChains == Spec => []CorrectionsFormChains
<1>1. IInv => CorrectionsFormChains
  BY DEF IInv
<1> QED
  BY <1>1, InductiveInvariant, PTL

(* basicPriceCurrentnessWhere: what was corrected is not offered today.    *)
THEOREM CorrectedIsGone == Spec => []CorrectedNotOfferedToday
<1>1. ASSUME IInv, NEW p \in Prices, SuccessorsOf(p) # {} PROVE ~Current(p, today)
  <2>1. PICK a \in audits : a.price = p /\ a.action = "SUPERSEDED"
    BY <1>1 DEF IInv, CorrectionsFormChains, CorrectionsRecorded, Recorded
  <2>2. a.at <= today
    BY <1>1, <2>1 DEF IInv, RecordsPast
  <2> QED
    BY <2>1, <2>2 DEF Current, CorrectedBy, InForce
<1>2. IInv => CorrectedNotOfferedToday
  BY <1>1 DEF CorrectedNotOfferedToday, Offered, OfferedToOthers
<1> QED
  BY <1>2, InductiveInvariant, PTL

(* A step records corrections as of today only, and leaves what a          *)
(* published price says alone.                                             *)
LEMMA RecordsOfStep ==
  ASSUME IInv, [Next]_vars, NEW p \in Prices, Published(p)
  PROVE  /\ \A a \in audits' \ audits : a.action = "SUPERSEDED" => a.at = today
         /\ Published(p)' /\ price'[p] = price[p]
         /\ shared[p] # Null => shared'[p] = shared[p]
<1>1. CASE Quiet
  BY <1>1 DEF Quiet, governance, Published
<1>2. ASSUME NEW q \in Prices, NEW h \in Reviewers, Accept(q, h)
      PROVE  UNCHANGED <<audits, shared>> /\ price'[p] = price[p]
  <2>1. p # q
    BY <1>2 DEF Accept, Acceptable, Published, NoPrice
  <2> QED
    BY <1>2, <2>1 DEF Accept, IInv, TypeOK
<1>3. ASSUME NEW q \in Prices, NEW h \in Publishers, NEW old \in Prices \cup {Null},
             Publish(q, h, old)
      PROVE  /\ \A a \in audits' \ audits : a.action = "SUPERSEDED" => a.at = today
             /\ UNCHANGED shared /\ price'[p] = price[p]
  <2>1. p # q
    BY <1>3 DEF Publish, Published
  <2> QED
    BY <1>3, <2>1 DEF Publish, IInv, TypeOK
<1>4. ASSUME NEW q \in Prices, NEW h \in Publishers, NEW day \in StatedDays,
             Withdraw(q, h, day)
      PROVE  /\ \A a \in audits' \ audits : a.action = "SUPERSEDED" => a.at = today
             /\ UNCHANGED <<shared, price>>
  BY <1>4 DEF Withdraw
<1>5. ASSUME NEW q \in Prices, NEW h \in Publishers, Promote(q, h)
      PROVE  /\ UNCHANGED <<audits, price>>
             /\ shared[p] # Null => shared'[p] = shared[p]
  BY <1>5 DEF Promote, Promotable, IInv, TypeOK
<1> QED
  BY StepKinds, <1>1, <1>2, <1>3, <1>4, <1>5 DEF Published

(* What stands as current for a past day stands after the step, unless a   *)
(* withdrawal reaches that day.                                            *)
LEMMA PastStands ==
  ASSUME IInv, IInv', [Next]_vars, NEW p \in Prices, Published(p),
         NEW day \in Days, day < today, Current(p, day), ~InForce(p, "WITHDRAWN", day)'
  PROVE  Current(p, day)'
<1>1. day \in Int /\ today \in Int /\ ~(today <= day)
  BY DEF IInv, TypeOK, Days
<1>2. ~InForce(p, "SUPERSEDED", day)'
  <2> SUFFICES ASSUME NEW a \in audits', a.price = p, a.action = "SUPERSEDED", a.at <= day
               PROVE  FALSE
    BY DEF InForce
  <2>1. CASE a \in audits
    BY <2>1 DEF Current, CorrectedBy, InForce
  <2>2. CASE a \notin audits
    BY <1>1, <2>2, RecordsOfStep
  <2> QED
    BY <2>1, <2>2
<1>3. SuccessorsOf(p)' # {} => Recorded(p, "SUPERSEDED")'
  BY DEF IInv, CorrectionsFormChains, CorrectionsRecorded
<1> QED
  BY <1>2, <1>3 DEF Current, CorrectedBy

(* basicPriceCurrentnessWhere: later corrections, publications and         *)
(* promotions leave what was offered for a past day on offer for it.       *)
THEOREM HistoryStands == Spec => AnswersNotRewritten
<1> DEFINE Stands(day, p) ==
      \/ InForce(p, "WITHDRAWN", day)'
      \/ /\ p \in Offered(day) => p \in Offered(day)'
         /\ p \in OfferedToOthers(day) => p \in OfferedToOthers(day)'
<1>1. ASSUME IInv, IInv', [Next]_vars, NEW day \in Days, day < today, NEW p \in Prices,
             ~InForce(p, "WITHDRAWN", day)'
      PROVE  /\ p \in Offered(day) => p \in Offered(day)'
             /\ p \in OfferedToOthers(day) => p \in OfferedToOthers(day)'
  <2>1. p \in Offered(day) => Published(p) /\ price[p].effective <= day /\ Current(p, day)
    BY DEF Offered
  <2>2. p \in OfferedToOthers(day) =>
          shared[p] # Null /\ Published(p) /\ price[p].effective <= day /\ Current(p, day)
    BY <1>1 DEF OfferedToOthers, IInv, PricesOK
  <2>3. Published(p) /\ Current(p, day) =>
          /\ Current(p, day)' /\ Published(p)' /\ price'[p] = price[p]
          /\ shared[p] # Null => shared'[p] # Null
    BY <1>1, PastStands, RecordsOfStep
  <2> QED
    BY <2>1, <2>2, <2>3 DEF Offered, OfferedToOthers
<1>2. IInv /\ IInv' /\ [Next]_vars =>
        [\A day \in Days : day < today => \A p \in Prices : Stands(day, p)]_vars
  BY <1>1
<1> QED
  BY <1>2, InductiveInvariant, PTL DEF Spec, AnswersNotRewritten

-----------------------------------------------------------------------------
(* The catalog: this module implements PriceCatalog *)

(* Only published prices are recorded on, so a price is on offer from its  *)
(* publication and no earlier record takes it out.                         *)
RecordsOfPublished == \A a \in audits : a.price \in Prices /\ Published(a.price)

(* What PriceCatalog reads, named.                                         *)
Acceptors == [p \in Prices |-> IF accepts[p] = << >> THEN Null ELSE accepts[p][1]]
FirstDays == [p \in Prices |-> IF price[p] = NoPrice THEN Null ELSE price[p].effective]
PublishedOnes == {p \in Prices : Published(p)}
ReplacedOnes == {p \in Prices : SuccessorsOf(p) # {}}
WithdrawnOnes == {p \in Prices : Recorded(p, "WITHDRAWN")}
LentOnes == {p \in Prices : shared[p] # Null}
Answers == [d \in Days |-> Offered(d)]

(* publish and withdraw record on prices that are published by then.       *)
LEMMA RecordsOfPublishedKept ==
  ASSUME IInv, IInv', RecordsOfPublished, [Next]_vars
  PROVE  RecordsOfPublished'
<1>1. \A p \in Prices : Published(p) => Published(p)'
  BY RecordsOfStep
<1> SUFFICES ASSUME NEW a \in audits', a \notin audits
             PROVE  a.price \in Prices /\ Published(a.price)'
  BY <1>1 DEF RecordsOfPublished
<1>2. \A p \in Prices, h \in Reviewers : ~Accept(p, h)
  BY DEF Accept
<1>3. ~Quiet
  BY DEF Quiet, governance
<1>4. ASSUME NEW p \in Prices, NEW h \in Publishers, NEW old \in Prices \cup {Null},
             Publish(p, h, old)
      PROVE  a.price \in Prices /\ Published(a.price)'
  <2>1. Published(p)'
    <3>1. price[p] \in Price \ {NoPrice}
      BY <1>4 DEF Publish, NoPrice, IInv, TypeOK
    <3>2. [price[p] EXCEPT !.status = "PUBLISHED", !.supersedes = old].status = "PUBLISHED"
      BY <3>1 DEF Price
    <3> QED
      BY <1>4, <3>2 DEF Publish, Published, IInv, TypeOK
  <2>2. old # Null => old \in Prices /\ Published(old)'
    BY <1>1, <1>4 DEF Publish, MayCorrect
  <2>3. a.price = p \/ (old # Null /\ a.price = old)
    BY <1>4 DEF Publish
  <2> QED
    BY <2>1, <2>2, <2>3
<1>5. ASSUME NEW p \in Prices, NEW h \in Publishers, NEW day \in StatedDays,
             Withdraw(p, h, day)
      PROVE  a.price \in Prices /\ Published(a.price)'
  BY <1>1, <1>5 DEF Withdraw
<1>6. ASSUME NEW p \in Prices, NEW h \in Publishers, Promote(p, h) PROVE FALSE
  BY <1>6 DEF Promote
<1> QED
  BY StepKinds, <1>2, <1>3, <1>4, <1>5, <1>6

(* Every correction has its record, so only the record's day counts.       *)
LEMMA CorrectedInForce ==
  ASSUME IInv, NEW p \in Prices, NEW d
  PROVE  Current(p, d) <=> ~InForce(p, "SUPERSEDED", d) /\ ~InForce(p, "WITHDRAWN", d)
<1>1. SuccessorsOf(p) # {} => Recorded(p, "SUPERSEDED")
  BY DEF IInv, CorrectionsFormChains, CorrectionsRecorded
<1> QED
  BY <1>1 DEF Current, CorrectedBy

(* Reviews, late SLA writes and people who come and go are no step of the  *)
(* catalog, and midnight is one that answers nothing differently.          *)
LEMMA QuietInCatalog ==
  ASSUME IInv, Quiet
  PROVE  Catalog!NextDay \/ UNCHANGED Catalog!vars
<1>1. UNCHANGED <<accepts, price, shared, audits>>
  BY DEF Quiet, governance
<1>2. \A p : (Published(p)' <=> Published(p)) /\ SuccessorsOf(p)' = SuccessorsOf(p)
  BY <1>1 DEF Published, SuccessorsOf
<1>3. \A p, action : Recorded(p, action)' <=> Recorded(p, action)
  BY <1>1 DEF Recorded
<1>4. UNCHANGED <<Acceptors, FirstDays, LentOnes>>
  BY <1>1 DEF Acceptors, FirstDays, LentOnes
<1>5. UNCHANGED <<PublishedOnes, ReplacedOnes, WithdrawnOnes>>
  BY <1>2, <1>3 DEF PublishedOnes, ReplacedOnes, WithdrawnOnes
<1>6. UNCHANGED Answers
  BY <1>1 DEF Answers, Offered, Published, Current, CorrectedBy, InForce, Recorded, SuccessorsOf
<1>7. today' = today \/ today' = today + 1
  BY DEF Quiet
<1> QED
  BY <1>4, <1>5, <1>6, <1>7 DEF Catalog!NextDay, Catalog!vars, Acceptors, FirstDays,
     PublishedOnes, ReplacedOnes, WithdrawnOnes, LentOnes, Answers

(* acceptPriceSubmissionReview: a price somebody accepted, for a day, and  *)
(* on no answer yet.                                                       *)
LEMMA AcceptInCatalog ==
  ASSUME IInv, NEW p \in Prices, NEW h \in Reviewers, Accept(p, h)
  PROVE  Catalog!Accept(p, h)
<1> DEFINE born == [status |-> "VERIFIED", effective |-> submission[p].effective,
                    supersedes |-> Null]
<1>1. /\ price[p] = NoPrice /\ accepts[p] = << >>
      /\ price' = [price EXCEPT ![p] = born]
      /\ accepts' = [accepts EXCEPT ![p] = Append(@, h)]
      /\ UNCHANGED <<shared, audits, today>>
  BY DEF Accept, Acceptable, ActsAs, clock
<1>2. price \in [Prices -> Price] /\ accepts \in [Prices -> Seq(Humans)] /\ h \in Humans
  BY HumansAssumption DEF IInv, TypeOK
<1>3. submission[p].effective \in Days
  BY DEF Accept, Acceptable, IInv, TypeOK, Submission
<1>4. born.status = "VERIFIED" /\ born.supersedes = Null /\ born # NoPrice
      /\ born.effective \in Days
  BY <1>3 DEF NoPrice
<1>5. /\ price'[p] = born /\ accepts'[p] = <<h>>
      /\ \A q \in Prices \ {p} : price'[q] = price[q] /\ accepts'[q] = accepts[q]
  BY <1>1, <1>2
<1> HIDE DEF born
<1>6. \A q \in Prices : Published(q)' <=> Published(q)
  <2>1. ~Published(p) /\ ~Published(p)'
    BY <1>1, <1>4, <1>5 DEF Published, NoPrice
  <2> QED
    BY <1>5, <2>1 DEF Published
<1>7. \A q \in Prices : SuccessorsOf(q)' = SuccessorsOf(q)
  BY <1>1, <1>4, <1>5, NullAssumption DEF SuccessorsOf
<1>8. /\ \A q, action : Recorded(q, action)' <=> Recorded(q, action)
      /\ \A q, action, d : InForce(q, action, d)' <=> InForce(q, action, d)
  BY <1>1 DEF Recorded, InForce
<1>9. UNCHANGED <<PublishedOnes, ReplacedOnes, WithdrawnOnes, LentOnes>>
  BY <1>1, <1>6, <1>7, <1>8 DEF PublishedOnes, ReplacedOnes, WithdrawnOnes, LentOnes
<1>10. UNCHANGED Answers
  <2>1. \A q \in Prices, d \in Days : Current(q, d)' <=> Current(q, d)
    BY <1>7, <1>8 DEF Current, CorrectedBy
  <2>2. \A q \in Prices : Published(q) => price'[q] = price[q]
    BY <1>1, <1>5 DEF Published, NoPrice
  <2>3. \A d \in Days : Offered(d)' = Offered(d)
    BY <1>6, <2>1, <2>2 DEF Offered
  <2> QED
    BY <2>3 DEF Answers
<1>11. Acceptors[p] = Null /\ Acceptors' = [Acceptors EXCEPT ![p] = h]
  <2>1. <<h>> # << >> /\ <<h>>[1] = h
    OBVIOUS
  <2>2. Acceptors[p] = Null /\ Acceptors'[p] = h
    BY <1>1, <1>5, <2>1 DEF Acceptors
  <2>3. ASSUME NEW q \in Prices, q # p PROVE Acceptors'[q] = Acceptors[q]
    BY <1>5, <2>3 DEF Acceptors
  <2>4. /\ Acceptors = [q \in Prices |-> Acceptors[q]]
        /\ Acceptors' = [q \in Prices |-> Acceptors'[q]]
    BY DEF Acceptors
  <2> QED
    BY <2>2, <2>3, <2>4
<1>12. FirstDays' = [FirstDays EXCEPT ![p] = born.effective]
  BY <1>4, <1>5 DEF FirstDays
<1> QED
  BY <1>1, <1>4, <1>9, <1>10, <1>11, <1>12 DEF Catalog!Accept, Acceptors, FirstDays,
     PublishedOnes, ReplacedOnes, WithdrawnOnes, LentOnes, Answers

(* publish: the price joins the answers from its day on, and the one it    *)
(* corrects leaves those of today and later.                               *)
LEMMA PublishInCatalog ==
  ASSUME IInv, IInv', RecordsOfPublished, NEW p \in Prices, NEW h \in Publishers,
         NEW old \in Prices \cup {Null}, Publish(p, h, old)
  PROVE  IF old = Null THEN Catalog!Publish(p, h) ELSE Catalog!Replace(p, h, old)
<1> DEFINE record == [price |-> p, action |-> "PUBLISH", actor |-> h, at |-> today]
           corrected(q) == [price |-> q, action |-> "SUPERSEDED", actor |-> h, at |-> today]
<1>1. /\ price[p].status = "VERIFIED" /\ LadderComplete(p, h)
      /\ price' = [price EXCEPT ![p].status = "PUBLISHED", ![p].supersedes = old]
      /\ audits' = audits \cup {record} \cup {corrected(q) : q \in {old} \ {Null}}
      /\ UNCHANGED <<accepts, shared, today>>
  BY DEF Publish, ActsAs, clock, desk
<1>2. old # Null => /\ old \in Prices \ {p} /\ Published(old)
                    /\ ContextOf[old] = ContextOf[p] /\ SuccessorsOf(old) = {}
  BY DEF Publish, MayCorrect
<1>3. price \in [Prices -> Price] /\ today \in Days
  BY DEF IInv, TypeOK
<1>4. price[p] \in Price \ {NoPrice} /\ price[p].supersedes = Null
  BY <1>1, <1>3 DEF IInv, PricesOK, NoPrice
<1>5. /\ price'[p].status = "PUBLISHED" /\ price'[p].supersedes = old
      /\ price'[p].effective = price[p].effective
      /\ \A q \in Prices \ {p} : price'[q] = price[q]
  BY <1>1, <1>3, <1>4 DEF Price
<1>6. price'[p] # NoPrice
  BY <1>5 DEF NoPrice
<1>7. ~Published(p) /\ Published(p)' /\ \A q \in Prices \ {p} : Published(q)' <=> Published(q)
  BY <1>1, <1>5 DEF Published
<1>8. \A q \in Prices : SuccessorsOf(q)' = IF q = old THEN {p} ELSE SuccessorsOf(q)
  <2>1. \A q \in Prices : p \notin SuccessorsOf(q)
    BY <1>4, NullAssumption DEF SuccessorsOf
  <2>2. \A q, r \in Prices : r # p => (r \in SuccessorsOf(q)' <=> r \in SuccessorsOf(q))
    BY <1>5 DEF SuccessorsOf
  <2>3. \A q \in Prices : p \in SuccessorsOf(q)' <=> q = old
    BY <1>5, <1>6 DEF SuccessorsOf
  <2>4. \A q \in Prices : SuccessorsOf(q) \subseteq Prices /\ SuccessorsOf(q)' \subseteq Prices
    BY DEF SuccessorsOf
  <2>5. ASSUME NEW q \in Prices, q = old PROVE SuccessorsOf(q)' = {p}
    BY <1>2, <2>2, <2>3, <2>4, <2>5, NullAssumption
  <2>6. ASSUME NEW q \in Prices, q # old PROVE SuccessorsOf(q)' = SuccessorsOf(q)
    <3>1. \A r \in Prices : r \in SuccessorsOf(q)' <=> r \in SuccessorsOf(q)
      BY <2>1, <2>2, <2>3, <2>6
    <3> QED
      BY <2>4, <3>1
  <2> QED
    BY <2>5, <2>6
<1>9. /\ \A q \in Prices : Recorded(q, "WITHDRAWN")' <=> Recorded(q, "WITHDRAWN")
      /\ \A q \in Prices, d \in Days :
           /\ InForce(q, "WITHDRAWN", d)' <=> InForce(q, "WITHDRAWN", d)
           /\ InForce(q, "SUPERSEDED", d)' <=>
                InForce(q, "SUPERSEDED", d) \/ (q = old /\ today <= d)
  <2>1. \A q \in Prices : Recorded(q, "WITHDRAWN")' <=> Recorded(q, "WITHDRAWN")
    BY <1>1 DEF Recorded
  <2>2. \A q \in Prices, d \in Days : InForce(q, "WITHDRAWN", d)' <=> InForce(q, "WITHDRAWN", d)
    BY <1>1 DEF InForce
  <2>3. ASSUME NEW q \in Prices, NEW d \in Days
        PROVE  InForce(q, "SUPERSEDED", d)' <=>
                 InForce(q, "SUPERSEDED", d) \/ (q = old /\ today <= d)
    <3>1. CASE q = old
      <4>1. corrected(q) \in audits' /\ corrected(q).price = q
            /\ corrected(q).action = "SUPERSEDED" /\ corrected(q).at = today
        BY <1>1, <3>1, NullAssumption
      <4>2. \A a \in audits' : a.action = "SUPERSEDED" => a \in audits \/ a = corrected(q)
        BY <1>1, <3>1
      <4>3. audits \subseteq audits'
        BY <1>1
      <4> QED
        BY <3>1, <4>1, <4>2, <4>3 DEF InForce
    <3>2. CASE q # old
      BY <1>1, <3>2 DEF InForce
    <3> QED
      BY <3>1, <3>2
  <2> QED
    BY <2>1, <2>2, <2>3
<1>10. \A d \in Days : Current(p, d) /\ Current(p, d)'
  <2>1. \A action, d : ~InForce(p, action, d)
    BY <1>7 DEF RecordsOfPublished, InForce
  <2>2. p # old
    BY <1>2, NullAssumption
  <2>3. \A d \in Days : ~InForce(p, "SUPERSEDED", d)' /\ ~InForce(p, "WITHDRAWN", d)'
    BY <1>9, <2>1, <2>2
  <2>4. SuccessorsOf(p)' # {} => Recorded(p, "SUPERSEDED")'
    BY DEF IInv, CorrectionsFormChains, CorrectionsRecorded
  <2>5. \A d \in Days : Current(p, d)'
    BY <2>3, <2>4 DEF Current, CorrectedBy
  <2> QED
    BY <2>1, <2>5, CorrectedInForce
<1>11. \A q \in Prices, d \in Days :
         Current(q, d)' <=> Current(q, d) /\ ~(q = old /\ today <= d)
  <2> SUFFICES ASSUME NEW q \in Prices, NEW d \in Days
               PROVE  Current(q, d)' <=> Current(q, d) /\ ~(q = old /\ today <= d)
    OBVIOUS
  <2>1. Current(q, d) <=> ~InForce(q, "SUPERSEDED", d) /\ ~InForce(q, "WITHDRAWN", d)
    BY CorrectedInForce
  <2>2. SuccessorsOf(q)' # {} => Recorded(q, "SUPERSEDED")'
    BY DEF IInv, CorrectionsFormChains, CorrectionsRecorded
  <2>3. Current(q, d)' <=> ~InForce(q, "SUPERSEDED", d)' /\ ~InForce(q, "WITHDRAWN", d)'
    BY <2>2 DEF Current, CorrectedBy
  <2> QED
    BY <1>9, <2>1, <2>3
<1>12. \A q \in Prices \ {p}, d \in Days :
         q \in Offered(d)' <=> q \in Offered(d) /\ ~(q = old /\ today <= d)
  BY <1>5, <1>7, <1>11 DEF Offered
<1>13. \A d \in Days : p \notin Offered(d) /\ (p \in Offered(d)' <=> price[p].effective <= d)
  BY <1>5, <1>7, <1>10 DEF Offered
<1>14. \A d \in Days : Offered(d) \subseteq Prices /\ Offered(d)' \subseteq Prices
  BY DEF Offered
<1>15. h \in Humans /\ Acceptors[p] = accepts[p][1] /\ Acceptors[p] \notin {Null, h}
  <2>1. Len(accepts[p]) = 1 /\ accepts[p][1] # h /\ accepts[p] \in Seq(Humans)
    BY <1>1 DEF LadderComplete, IInv, TypeOK
  <2>2. accepts[p] # << >> /\ accepts[p][1] \in Humans
    BY <2>1
  <2> QED
    BY <2>1, <2>2, HumansAssumption, NullAssumption DEF Acceptors
<1>16. UNCHANGED <<Acceptors, FirstDays, WithdrawnOnes, LentOnes, today>>
  <2>1. UNCHANGED FirstDays
    BY <1>4, <1>5, <1>6 DEF FirstDays
  <2> QED
    BY <1>1, <1>9, <2>1 DEF Acceptors, WithdrawnOnes, LentOnes
<1>17. p \notin PublishedOnes /\ PublishedOnes' = PublishedOnes \cup {p}
  BY <1>7 DEF PublishedOnes
<1>18. FirstDays[p] = price[p].effective
  BY <1>4 DEF FirstDays
<1>19. CASE old = Null
  <2>1. UNCHANGED ReplacedOnes
    BY <1>8, <1>19, NullAssumption DEF ReplacedOnes
  <2>2. ASSUME NEW d \in Days
        PROVE  Offered(d)' = Offered(d) \cup (IF FirstDays[p] <= d THEN {p} ELSE {})
    <3>1. \A q \in Prices \ {p} : q \in Offered(d)' <=> q \in Offered(d)
      BY <1>12, <1>19, NullAssumption
    <3> QED
      BY <1>13, <1>14, <1>18, <3>1
  <2>3. Answers' = [d \in Days |-> Answers[d] \cup (IF FirstDays[p] <= d THEN {p} ELSE {})]
    BY <2>2 DEF Answers
  <2>4. Catalog!Publish(p, h)
    BY <1>15, <1>16, <1>17, <2>1, <2>3 DEF Catalog!Publish, Catalog!Publishable, Catalog!With,
       Acceptors, FirstDays, PublishedOnes, ReplacedOnes, WithdrawnOnes, LentOnes, Answers
  <2> QED
    BY <1>19, <2>4
<1>20. CASE old # Null
  <2>1. old \in PublishedOnes \ ReplacedOnes /\ ContextOf[old] = ContextOf[p]
    BY <1>2, <1>20 DEF PublishedOnes, ReplacedOnes
  <2>2. ReplacedOnes' = ReplacedOnes \cup {old}
    BY <1>2, <1>8, <1>20 DEF ReplacedOnes
  <2>3. ASSUME NEW d \in Days
        PROVE  Offered(d)' = (IF d >= today THEN Offered(d) \ {old} ELSE Offered(d))
                             \cup (IF FirstDays[p] <= d THEN {p} ELSE {})
    <3>1. d >= today <=> today <= d
      BY <1>3 DEF Days
    <3>2. \A q \in Prices \ {p} :
            q \in Offered(d)' <=> q \in (IF d >= today THEN Offered(d) \ {old} ELSE Offered(d))
      BY <1>12, <3>1
    <3>3. p \notin (IF d >= today THEN Offered(d) \ {old} ELSE Offered(d))
      BY <1>13
    <3> QED
      BY <1>13, <1>14, <1>18, <3>2, <3>3
  <2>4. Answers' = [d \in Days |->
          (IF d >= today THEN Answers[d] \ {old} ELSE Answers[d])
            \cup (IF FirstDays[p] <= d THEN {p} ELSE {})]
    BY <2>3 DEF Answers
  <2>5. Catalog!Replace(p, h, old)
    BY <1>15, <1>16, <1>17, <2>1, <2>2, <2>4 DEF Catalog!Replace, Catalog!Publishable,
       Catalog!With, Acceptors, FirstDays, PublishedOnes, ReplacedOnes, WithdrawnOnes,
       LentOnes, Answers
  <2> QED
    BY <1>20, <2>5
<1> QED
  BY <1>19, <1>20

(* withdraw: the price leaves the answers from the day it names.           *)
LEMMA WithdrawInCatalog ==
  ASSUME IInv, NEW p \in Prices, NEW h \in Publishers, NEW day \in StatedDays,
         Withdraw(p, h, day)
  PROVE  Catalog!Withdraw(p, day)
<1> DEFINE record == [price |-> p, action |-> "WITHDRAWN", actor |-> h, at |-> day]
<1>1. /\ Published(p) /\ ~Recorded(p, "WITHDRAWN")
      /\ audits' = audits \cup {record}
      /\ UNCHANGED <<accepts, price, shared, today>>
  BY DEF Withdraw, ActsAs, clock, desk
<1>2. record.action = "WITHDRAWN" /\ record.price = p /\ record.at = day
  OBVIOUS
<1> HIDE DEF record
<1>3. \A q : (Published(q)' <=> Published(q)) /\ SuccessorsOf(q)' = SuccessorsOf(q)
  BY <1>1 DEF Published, SuccessorsOf
<1>4. /\ \A q : Recorded(q, "SUPERSEDED")' <=> Recorded(q, "SUPERSEDED")
      /\ \A q : Recorded(q, "WITHDRAWN")' <=> Recorded(q, "WITHDRAWN") \/ q = p
  BY <1>1, <1>2 DEF Recorded
<1>5. /\ \A q, d : InForce(q, "SUPERSEDED", d)' <=> InForce(q, "SUPERSEDED", d)
      /\ \A q, d : InForce(q, "WITHDRAWN", d)' <=>
                     InForce(q, "WITHDRAWN", d) \/ (q = p /\ day <= d)
  BY <1>1, <1>2 DEF InForce
<1>6. \A q, d : Current(q, d)' <=> Current(q, d) /\ ~(q = p /\ day <= d)
  BY <1>3, <1>4, <1>5 DEF Current, CorrectedBy
<1>7. ASSUME NEW d \in Days
      PROVE  Offered(d)' = IF d >= day THEN Offered(d) \ {p} ELSE Offered(d)
  <2>1. d >= day <=> day <= d
    BY CalendarAssumption DEF Days
  <2>2. \A q \in Prices : q \in Offered(d)' <=> q \in Offered(d) /\ ~(q = p /\ day <= d)
    BY <1>1, <1>3, <1>6 DEF Offered
  <2>3. Offered(d) \subseteq Prices /\ Offered(d)' \subseteq Prices
    BY DEF Offered
  <2> QED
    BY <2>1, <2>2, <2>3
<1>8. Answers' = [d \in Days |-> IF d >= day THEN Answers[d] \ {p} ELSE Answers[d]]
  BY <1>7 DEF Answers
<1>9. p \in PublishedOnes \ WithdrawnOnes /\ WithdrawnOnes' = WithdrawnOnes \cup {p}
  BY <1>1, <1>4 DEF PublishedOnes, WithdrawnOnes
<1>10. UNCHANGED <<Acceptors, FirstDays, PublishedOnes, ReplacedOnes, LentOnes, today>>
  BY <1>1, <1>3 DEF Acceptors, FirstDays, PublishedOnes, ReplacedOnes, LentOnes
<1> QED
  BY <1>8, <1>9, <1>10 DEF Catalog!Withdraw, Acceptors, FirstDays, PublishedOnes,
     ReplacedOnes, WithdrawnOnes, LentOnes, Answers

(* promoteToSharedCatalog: no answer changes.                              *)
LEMMA PromoteInCatalog ==
  ASSUME IInv, NEW p \in Prices, NEW h \in Publishers, Promote(p, h)
  PROVE  Catalog!Lend(p)
<1>1. /\ Published(p) /\ shared[p] = Null /\ SuccessorsOf(p) = {}
      /\ shared' = [shared EXCEPT ![p] = h]
      /\ UNCHANGED <<accepts, price, audits, today>>
  BY DEF Promote, Promotable, ActsAs, clock, desk
<1>2. h # Null /\ shared \in [Prices -> Humans \cup {Null}]
  BY HumansAssumption, NullAssumption DEF IInv, TypeOK
<1>3. p \in PublishedOnes \ (ReplacedOnes \cup LentOnes) /\ LentOnes' = LentOnes \cup {p}
  BY <1>1, <1>2 DEF PublishedOnes, ReplacedOnes, LentOnes
<1>4. UNCHANGED <<Acceptors, FirstDays, PublishedOnes, ReplacedOnes, WithdrawnOnes, today>>
  BY <1>1 DEF Acceptors, FirstDays, PublishedOnes, ReplacedOnes, WithdrawnOnes,
     Published, SuccessorsOf, Recorded
<1>5. UNCHANGED Answers
  BY <1>1 DEF Answers, Offered, Published, Current, CorrectedBy, InForce, Recorded, SuccessorsOf
<1> QED
  BY <1>3, <1>4, <1>5 DEF Catalog!Lend, Acceptors, FirstDays, PublishedOnes,
     ReplacedOnes, WithdrawnOnes, LentOnes, Answers

(* Every step is a step of the catalog or leaves it alone.                 *)
LEMMA CatalogStep ==
  IInv /\ IInv' /\ RecordsOfPublished /\ [Next]_vars => [Catalog!Next]_(Catalog!vars)
<1> SUFFICES ASSUME IInv, IInv', RecordsOfPublished, [Next]_vars
             PROVE  Catalog!Next \/ UNCHANGED Catalog!vars
  OBVIOUS
<1>1. Reviewers \subseteq Humans /\ Publishers \subseteq Humans /\ StatedDays \subseteq Days
  BY HumansAssumption, CalendarAssumption DEF Days
<1>2. CASE Quiet
  BY <1>2, QuietInCatalog DEF Catalog!Next
<1>3. ASSUME NEW p \in Prices, NEW h \in Reviewers, Accept(p, h) PROVE Catalog!Next
  BY <1>1, <1>3, AcceptInCatalog DEF Catalog!Next
<1>4. ASSUME NEW p \in Prices, NEW h \in Publishers, NEW old \in Prices \cup {Null},
             Publish(p, h, old)
      PROVE  Catalog!Next
  <2>1. CASE old = Null
    <3>1. Catalog!Publish(p, h)
      BY <1>4, <2>1, PublishInCatalog
    <3> QED
      BY <1>1, <3>1 DEF Catalog!Next
  <2>2. CASE old # Null
    <3>1. Catalog!Replace(p, h, old) /\ old \in Prices
      BY <1>4, <2>2, PublishInCatalog
    <3> QED
      BY <1>1, <3>1 DEF Catalog!Next
  <2> QED
    BY <2>1, <2>2
<1>5. ASSUME NEW p \in Prices, NEW h \in Publishers, NEW day \in StatedDays,
             Withdraw(p, h, day)
      PROVE  Catalog!Next
  BY <1>1, <1>5, WithdrawInCatalog DEF Catalog!Next
<1>6. ASSUME NEW p \in Prices, NEW h \in Publishers, Promote(p, h) PROVE Catalog!Next
  BY <1>1, <1>6, PromoteInCatalog DEF Catalog!Next
<1> QED
  BY StepKinds, <1>2, <1>3, <1>4, <1>5, <1>6

(* An empty desk is an empty catalog.                                      *)
LEMMA CatalogInit == Init => Catalog!Init /\ RecordsOfPublished
<1> SUFFICES ASSUME Init PROVE Catalog!Init /\ RecordsOfPublished
  OBVIOUS
<1>1. /\ \A p \in Prices : price[p] = NoPrice /\ shared[p] = Null /\ accepts[p] = << >>
      /\ audits = {} /\ today = 0
  BY DEF Init
<1>2. \A p \in Prices : SuccessorsOf(p) = {} /\ ~Published(p) /\ ~Recorded(p, "WITHDRAWN")
  <2>1. \A p \in Prices : SuccessorsOf(p) = {}
    BY <1>1 DEF SuccessorsOf
  <2>2. NoPrice.status # "PUBLISHED"
    BY DEF NoPrice
  <2> QED
    BY <1>1, <2>1, <2>2 DEF Published, Recorded
<1>3. \A d \in Days : Offered(d) = {}
  BY <1>2 DEF Offered
<1> QED
  BY <1>1, <1>2, <1>3 DEF Catalog!Init, RecordsOfPublished

(* basic-price-currentness.ts, publish, withdraw, promote: whatever the    *)
(* desk, the SLA check and the staff do, the answers a reader gets for     *)
(* each day are those of PriceCatalog.                                     *)
THEOREM CatalogImplemented == Spec => ImplementsCatalog
<1>1. Spec => []RecordsOfPublished
  <2>1. IInv /\ IInv' /\ RecordsOfPublished /\ [Next]_vars => RecordsOfPublished'
    BY RecordsOfPublishedKept
  <2>2. Init => RecordsOfPublished
    BY CatalogInit
  <2> QED
    BY <2>1, <2>2, InductiveInvariant, PTL DEF Spec
<1>2. Init => Catalog!Init
  BY CatalogInit
<1> QED
  BY <1>1, <1>2, CatalogStep, InductiveInvariant, PTL
     DEF Spec, ImplementsCatalog, Catalog!Spec

=============================================================================
