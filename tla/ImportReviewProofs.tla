------------------------- MODULE ImportReviewProofs -------------------------
(***************************************************************************)
(* Proofs about ImportReview.  Row and price locks exclude, so what a      *)
(* request has found under its locks stands until it commits; and the      *)
(* version of a row, which every decision raises, is the witness that      *)
(* nothing happened between the page's look and the lock.  The rows then   *)
(* move by six kinds of step, each of which keeps what they tell.          *)
(***************************************************************************)
EXTENDS ImportReview, SequenceTheorems, TLAPS

----------------------------------------------------------------------------
(* The shapes of rows.                                                     *)

Before == {"NEEDS_REVIEW", "READY_FOR_SUBMISSION", "REJECTED"}

(* A decision makes a row of a row.                                        *)
LEMMA TurnedTyped ==
  ASSUME NEW x \in Row, NEW status \in Before,
         NEW c \in Resources \cup {Null}, NEW m \in Seq(Mapping)
  PROVE  Turned(x, status, c, m) \in Row
  BY DEF Turned, Row, Before

(* A row that is given a resource is a row.                                *)
LEMMA GivenTyped ==
  ASSUME NEW x \in Row, NEW q, q.resource \in Resources,
         NEW status \in {"NEEDS_REVIEW", "READY_FOR_SUBMISSION"}
  PROVE  Given(x, q, status) \in Row
  <1> DEFINE m == [resource |-> q.resource, withdrawn |-> FALSE, bulk |-> q.kind = "ACCEPT"]
  <1>1. m \in Mapping
    BY DEF Mapping
  <1>2. x.mappings \in Seq(Mapping)
    BY DEF Row
  <1> HIDE DEF m
  <1>3. Append(x.mappings, m) \in Seq(Mapping)
    BY <1>1, <1>2
  <1> QED  BY <1>3, TurnedTyped DEF Given, m, Before

(* Taking a mapping back changes its mark and nothing else.                *)
LEMMA MappingWithdrawn ==
  ASSUME NEW y \in Mapping
  PROVE  /\ [y EXCEPT !.withdrawn = TRUE] \in Mapping
         /\ [y EXCEPT !.withdrawn = TRUE].withdrawn
         /\ [y EXCEPT !.withdrawn = TRUE].bulk = y.bulk
  BY DEF Mapping

(* All mappings of a row that is taken back are withdrawn; none is lost.   *)
LEMMA WithdrawnShape ==
  ASSUME NEW x \in Row
  PROVE  /\ Withdrawn(x) \in Row
         /\ DOMAIN Withdrawn(x).mappings = DOMAIN x.mappings
         /\ \A k \in DOMAIN x.mappings :
              /\ Withdrawn(x).mappings[k].withdrawn
              /\ Withdrawn(x).mappings[k].bulk = x.mappings[k].bulk
  <1> DEFINE n == Len(x.mappings)
             f(k) == [x.mappings[k] EXCEPT !.withdrawn = TRUE]
             m == [k \in DOMAIN x.mappings |-> f(k)]
  <1>1. x.mappings \in Seq(Mapping) /\ n \in Nat /\ DOMAIN x.mappings = 1..n
    BY DEF Row
  <1>2. \A k \in 1..n : f(k) \in Mapping /\ f(k).withdrawn /\ f(k).bulk = x.mappings[k].bulk
    BY <1>1, MappingWithdrawn
  <1> HIDE DEF f
  <1>3. m = [k \in 1..n |-> f(k)]
    BY <1>1
  <1>4. m \in Seq(Mapping) /\ DOMAIN m = 1..n /\ \A k \in 1..n : m[k] = f(k)
    BY <1>1, <1>2, <1>3
  <1>5. Withdrawn(x) = Turned(x, "NEEDS_REVIEW", Null, m)
    BY DEF Withdrawn, f
  <1> HIDE DEF m
  <1>6. Withdrawn(x) \in Row
    BY <1>4, <1>5, TurnedTyped DEF Before
  <1>7. Withdrawn(x).mappings = m
    BY <1>5 DEF Turned
  <1> QED  BY <1>1, <1>2, <1>4, <1>6, <1>7

(* A row that is proposed is a row.                                        *)
LEMMA ProposedTyped ==
  ASSUME NEW x \in Row, NEW door \in {"BATCH", "DETAIL"}, NEW c \in Resources
  PROVE  Proposed(x, door, c) \in Row
  <1> DEFINE m == [door |-> door, resource |-> c]
  <1>1. m \in Proposal
    BY DEF Proposal
  <1>2. x.proposals \in Seq(Proposal)
    BY DEF Row
  <1> HIDE DEF m
  <1>3. Append(x.proposals, m) \in Seq(Proposal)
    BY <1>1, <1>2
  <1> QED  BY <1>3 DEF Proposed, m, Row

(* The fields of what a step makes of a row.                               *)
LEMMA TurnedFields ==
  ASSUME NEW x, NEW status, NEW c, NEW m
  PROVE  /\ Turned(x, status, c, m).status = status
         /\ Turned(x, status, c, m).version = x.version + 1
         /\ Turned(x, status, c, m).resource = c
         /\ Turned(x, status, c, m).mappings = m
         /\ Turned(x, status, c, m).proposals = x.proposals
  BY DEF Turned

(* A proposal changes the status of the row and nothing of its decisions.  *)
LEMMA ProposedFields ==
  ASSUME NEW x \in Row, NEW door, NEW c
  PROVE  /\ Proposed(x, door, c).status = "SUBMISSION_CREATED"
         /\ Proposed(x, door, c).version = x.version
         /\ Proposed(x, door, c).resource = x.resource
         /\ Proposed(x, door, c).mappings = x.mappings
  BY DEF Proposed, Row

(* A proposal is added to those of its row.                                *)
LEMMA ProposedAppends ==
  ASSUME NEW x \in Row, NEW door, NEW c
  PROVE  Proposed(x, door, c).proposals
           = Append(x.proposals, [door |-> door, resource |-> c])
  BY DEF Proposed, Row

----------------------------------------------------------------------------
(* How a row moves, and what it tells at each step.                        *)

(* The outcome of a decision, whatever the collision found.                *)
DecidedFrom(q, old, new) ==
  IF q.kind = "REJECT" THEN new = Turned(old, "REJECTED", old.resource, old.mappings)
  ELSE \E status \in {"NEEDS_REVIEW", "READY_FOR_SUBMISSION"} : new = Given(old, q, status)

NoneWithdrawn(x) == \A n \in DOMAIN x.mappings : ~x.mappings[n].withdrawn
NoDetail(x) == \A n \in DOMAIN x.proposals : x.proposals[n].door # "DETAIL"

MayTurn(q, old) ==
  /\ old.status = "NEEDS_REVIEW"
  /\ q.kind # "REJECT" => q.resource \in Resources
  /\ q.kind = "ACCEPT" => NoneWithdrawn(old)
MayWithdraw(old) ==
  /\ old.status = "READY_FOR_SUBMISSION"
  /\ \E n \in Standing(old) : Standing(old) = {n}
MayReturn(old) == old.status = "REJECTED" /\ old.resource = Null
MayPropose(old) == old.status = "READY_FOR_SUBMISSION" /\ old.proposals = <<>>

RowStep(old, new) ==
  \/ new = old
  \/ \E q : MayTurn(q, old) /\ DecidedFrom(q, old, new)
  \/ MayWithdraw(old) /\ new = Withdrawn(old)
  \/ MayReturn(old) /\ new = Reopened(old)
  \/ MayPropose(old) /\ new = Proposed(old, "BATCH", old.resource)
  \/ NoDetail(old) /\ \E c : new = Proposed(old, "DETAIL", c)

(* What a row tells: its resource is that of its last standing decision,   *)
(* consent taken back is not repeated in bulk, nothing is proposed before  *)
(* its time, and each door proposed it once.                               *)
HasDecision(x) ==
  /\ IF x.resource = Null THEN Standing(x) = {}
     ELSE Len(x.mappings) \in Standing(x) /\ x.mappings[Len(x.mappings)].resource = x.resource
  /\ x.status = "READY_FOR_SUBMISSION" => x.resource # Null
  /\ \A n \in DOMAIN x.proposals :
       x.proposals[n].door = "BATCH" => x.proposals[n].resource = x.resource
ConsentStands(x) ==
  \A m, n \in DOMAIN x.mappings : m < n /\ x.mappings[m].withdrawn => ~x.mappings[n].bulk
Unproposed(x) == x.status # "SUBMISSION_CREATED" => x.proposals = <<>>
DoorsOnce(x) ==
  \A m, n \in DOMAIN x.proposals : x.proposals[m].door = x.proposals[n].door => m = n
RowGood(x) == HasDecision(x) /\ ConsentStands(x) /\ Unproposed(x) /\ DoorsOnce(x)

(* A decision on a row that needs review is its last standing one.         *)
LEMMA TurnGood ==
  ASSUME NEW old \in Row, RowGood(old), NEW q, MayTurn(q, old),
         NEW new, DecidedFrom(q, old, new)
  PROVE  RowGood(new)
  <1>1. old.proposals = <<>> /\ new.proposals = <<>>
    BY TurnedFields DEF RowGood, Unproposed, MayTurn, DecidedFrom, Given
  <1>2. CASE q.kind = "REJECT"
    <2>1. /\ new.status = "REJECTED" /\ new.resource = old.resource
          /\ new.mappings = old.mappings
      BY <1>2, TurnedFields DEF DecidedFrom
    <2> QED  BY <1>1, <2>1 DEF RowGood, HasDecision, ConsentStands, Unproposed, DoorsOnce, Standing
  <1>3. CASE q.kind # "REJECT"
    <2> DEFINE m == [resource |-> q.resource, withdrawn |-> FALSE, bulk |-> q.kind = "ACCEPT"]
               n == Len(old.mappings)
    <2>1. m \in Mapping /\ m.resource = q.resource /\ ~m.withdrawn /\ (m.bulk <=> q.kind = "ACCEPT")
      BY <1>3 DEF MayTurn, Mapping
    <2>2. /\ new.resource = q.resource /\ new.mappings = Append(old.mappings, m)
          /\ new.status # "SUBMISSION_CREATED"
      <3>1. PICK status \in {"NEEDS_REVIEW", "READY_FOR_SUBMISSION"} : new = Given(old, q, status)
        BY <1>3 DEF DecidedFrom
      <3> DEFINE mappings == Append(old.mappings, m)
      <3>2. new = Turned(old, status, q.resource, mappings)
        BY <3>1 DEF Given
      <3> HIDE DEF mappings
      <3>3. new.resource = q.resource /\ new.mappings = mappings /\ new.status = status
        BY <3>2, TurnedFields
      <3> QED  BY <3>1, <3>3 DEF mappings
    <2>3. q.resource # Null
      BY <1>3, NullAssumption DEF MayTurn, Resources
    <2>4. old.mappings \in Seq(Mapping) /\ n \in Nat /\ DOMAIN old.mappings = 1..n
      BY DEF Row
    <2> HIDE DEF m
    <2>5. /\ Len(new.mappings) = n + 1 /\ DOMAIN new.mappings = 1..(n + 1)
          /\ new.mappings[n + 1] = m
          /\ \A k \in 1..n : new.mappings[k] = old.mappings[k]
      BY <2>1, <2>2, <2>4
    <2>6. HasDecision(new)
      <3>1. n + 1 \in Standing(new)
        BY <2>1, <2>4, <2>5 DEF Standing
      <3> QED  BY <1>1, <2>1, <2>2, <2>3, <2>5, <3>1 DEF HasDecision
    <2>7. ConsentStands(new)
      <3> SUFFICES ASSUME NEW j \in DOMAIN new.mappings, NEW k \in DOMAIN new.mappings,
                          j < k, new.mappings[j].withdrawn
                   PROVE  ~new.mappings[k].bulk
        BY DEF ConsentStands
      <3>1. j \in 1..n /\ new.mappings[j] = old.mappings[j]
        BY <2>4, <2>5
      <3>2. CASE k \in 1..n
        BY <2>4, <2>5, <3>1, <3>2 DEF RowGood, ConsentStands
      <3>3. CASE k = n + 1
        <4>1. ~NoneWithdrawn(old)
          BY <2>4, <3>1 DEF NoneWithdrawn
        <4> QED  BY <2>1, <2>5, <3>3, <4>1 DEF MayTurn
      <3> QED  BY <2>4, <2>5, <3>2, <3>3
    <2> QED  BY <1>1, <2>6, <2>7 DEF RowGood, Unproposed, DoorsOnce
  <1> QED  BY <1>2, <1>3

(* A row that is taken back stands on no decision.                         *)
LEMMA WithdrawGood ==
  ASSUME NEW old \in Row, RowGood(old), MayWithdraw(old)
  PROVE  RowGood(Withdrawn(old))
  <1> DEFINE new == Withdrawn(old)
  <1>1. /\ new.resource = Null /\ new.status = "NEEDS_REVIEW"
        /\ new.proposals = old.proposals /\ old.proposals = <<>>
    BY TurnedFields DEF Withdrawn, RowGood, Unproposed, MayWithdraw
  <1>2. /\ DOMAIN new.mappings = DOMAIN old.mappings
        /\ \A k \in DOMAIN old.mappings :
             /\ new.mappings[k].withdrawn /\ new.mappings[k].bulk = old.mappings[k].bulk
    BY WithdrawnShape
  <1>3. old.mappings \in Seq(Mapping) /\ Len(old.mappings) \in Nat
        /\ DOMAIN old.mappings = 1..Len(old.mappings)
    BY DEF Row
  <1> HIDE DEF new
  <1>4. HasDecision(new)
    BY <1>1, <1>2 DEF HasDecision, Standing
  <1>5. Standing(old) = {Len(old.mappings)}
    BY DEF RowGood, HasDecision, MayWithdraw
  <1>6. ConsentStands(new)
    <2> SUFFICES ASSUME NEW j \in DOMAIN old.mappings, NEW k \in DOMAIN old.mappings, j < k
                 PROVE  ~old.mappings[k].bulk
      BY <1>2 DEF ConsentStands
    <2>1. j # Len(old.mappings)
      BY <1>3
    <2>2. old.mappings[j].withdrawn
      BY <1>5, <2>1 DEF Standing
    <2> QED  BY <2>2 DEF RowGood, ConsentStands
  <1> QED  BY <1>1, <1>4, <1>6 DEF RowGood, Unproposed, DoorsOnce, new

(* A row that a door had not proposed is proposed by it once.              *)
LEMMA ProposeGood ==
  ASSUME NEW old \in Row, RowGood(old), NEW door \in {"BATCH", "DETAIL"}, NEW c,
         door = "BATCH" => c = old.resource,
         \A n \in DOMAIN old.proposals : old.proposals[n].door # door
  PROVE  RowGood(Proposed(old, door, c))
  <1> DEFINE new == Proposed(old, door, c)
             m == [door |-> door, resource |-> c]
             n == Len(old.proposals)
  <1>1. /\ new.status = "SUBMISSION_CREATED" /\ new.resource = old.resource
        /\ new.mappings = old.mappings /\ new.proposals = Append(old.proposals, m)
    BY ProposedFields, ProposedAppends
  <1>2. old.proposals \in Seq(Proposal) /\ n \in Nat /\ DOMAIN old.proposals = 1..n
    BY DEF Row
  <1>3. m.door = door /\ m.resource = c
    OBVIOUS
  <1> HIDE DEF new, m
  <1>4. /\ DOMAIN new.proposals = 1..(n + 1) /\ new.proposals[n + 1] = m
        /\ \A k \in 1..n : new.proposals[k] = old.proposals[k]
    BY <1>1, <1>2
  <1>5. \A k \in 1..(n + 1) : k \in 1..n \/ k = n + 1
    BY <1>2
  <1>6. HasDecision(new)
    <2>1. \A k \in 1..(n + 1) :
            new.proposals[k].door = "BATCH" => new.proposals[k].resource = new.resource
      BY <1>1, <1>2, <1>3, <1>4, <1>5 DEF RowGood, HasDecision
    <2> QED  BY <1>1, <1>4, <2>1 DEF RowGood, HasDecision, Standing
  <1>7. DoorsOnce(new)
    BY <1>2, <1>3, <1>4, <1>5 DEF RowGood, DoorsOnce
  <1> QED  BY <1>1, <1>6, <1>7 DEF RowGood, ConsentStands, Unproposed, new

(* Each of the six steps keeps what a row tells.                           *)
LEMMA RowStepGood ==
  ASSUME NEW old \in Row, RowGood(old), NEW new, RowStep(old, new)
  PROVE  RowGood(new)
  <1>1. ASSUME MayReturn(old), new = Reopened(old)
        PROVE  RowGood(new)
    <2>1. /\ new.status = "NEEDS_REVIEW" /\ new.resource = old.resource
          /\ new.mappings = old.mappings /\ new.proposals = old.proposals
      BY <1>1, TurnedFields DEF Reopened
    <2> QED  BY <1>1, <2>1 DEF RowGood, HasDecision, ConsentStands, Unproposed, DoorsOnce,
                              Standing, MayReturn
  <1>2. ASSUME MayPropose(old), new = Proposed(old, "BATCH", old.resource)
        PROVE  RowGood(new)
    BY <1>2, ProposeGood DEF MayPropose
  <1>3. ASSUME NoDetail(old), NEW c, new = Proposed(old, "DETAIL", c)
        PROVE  RowGood(new)
    BY <1>3, ProposeGood DEF NoDetail
  <1> QED  BY <1>1, <1>2, <1>3, TurnGood, WithdrawGood DEF RowStep

(* The version witnesses every decision, and a submitted row rests.        *)
LEMMA RowStepTells ==
  ASSUME NEW old \in Row, NEW new, RowStep(old, new)
  PROVE  /\ new.version \in Nat /\ new.version >= old.version
         /\ new.version = old.version => new.mappings = old.mappings
         /\ old.status = "SUBMISSION_CREATED" =>
              /\ new.status = "SUBMISSION_CREATED"
              /\ new.version = old.version
              /\ new.resource = old.resource
  <1>1. old.version \in Nat
    BY DEF Row
  <1>2. ASSUME NEW q, MayTurn(q, old), DecidedFrom(q, old, new)
        PROVE  new.version = old.version + 1 /\ old.status = "NEEDS_REVIEW"
    BY <1>2, TurnedFields DEF DecidedFrom, Given, MayTurn
  <1>3. ASSUME MayWithdraw(old), new = Withdrawn(old)
        PROVE  new.version = old.version + 1 /\ old.status = "READY_FOR_SUBMISSION"
    BY <1>3, TurnedFields DEF Withdrawn, MayWithdraw
  <1>4. ASSUME MayReturn(old), new = Reopened(old)
        PROVE  new.version = old.version + 1 /\ old.status = "REJECTED"
    BY <1>4, TurnedFields DEF Reopened, MayReturn
  <1>5. ASSUME NEW door, NEW c, new = Proposed(old, door, c)
        PROVE  /\ new.version = old.version /\ new.mappings = old.mappings
               /\ new.status = "SUBMISSION_CREATED" /\ new.resource = old.resource
    BY <1>5, ProposedFields
  <1>6. \/ new = old
        \/ new.version = old.version + 1 /\ old.status # "SUBMISSION_CREATED"
        \/ /\ new.version = old.version /\ new.mappings = old.mappings
           /\ new.status = "SUBMISSION_CREATED" /\ new.resource = old.resource
    <2>1. CASE \E q : MayTurn(q, old) /\ DecidedFrom(q, old, new)
      BY <1>2, <2>1
    <2>2. CASE MayWithdraw(old) /\ new = Withdrawn(old)
      BY <1>3, <2>2
    <2>3. CASE MayReturn(old) /\ new = Reopened(old)
      BY <1>4, <2>3
    <2>4. CASE MayPropose(old) /\ new = Proposed(old, "BATCH", old.resource)
      BY <1>5, <2>4
    <2>5. CASE \E c : new = Proposed(old, "DETAIL", c)
      BY <1>5, <2>5
    <2> QED  BY <2>1, <2>2, <2>3, <2>4, <2>5 DEF RowStep
  <1> QED  BY <1>1, <1>6

----------------------------------------------------------------------------
(* The invariant.  What a request is and knows, in the database d.         *)

WellAsked(d, q) ==
  /\ q.kind \in Deciding \cup Undoing \cup {"DETAIL"} => q.row \in Rows
  /\ q.kind \in {"RESOLVE", "ACCEPT", "ADMIT"} => q.resource \in Resources
  /\ q.kind \in Deciding \cup Undoing => q.version < MaxVersion[q.row]
  /\ q.kind = "DETAIL" => d.price[q.row] # Null

WellCarried(x) ==
  /\ x.stage = "ASKED" => x.locked = {}
  /\ x.ask.kind \in Undoing /\ x.stage # "ASKED" => x.snapshot \in Database
  /\ x.ask.kind \in Deciding \cup Undoing /\ x.stage \in Begun =>
       x.row \in Row /\ x.row.version <= MaxVersion[x.ask.row]

(* What a request has found under its locks still stands.                  *)
Found(d, x) ==
  LET q == x.ask
      old == d.row[q.row] IN
  /\ q.kind \in Deciding /\ x.stage \in Begun =>
       MayTurn(q, old) /\ DecidedFrom(q, old, x.row)
  /\ q.kind = "COMPENSATE" /\ x.stage \in Begun =>
       MayWithdraw(old) /\ x.row = Withdrawn(old)
  /\ q.kind = "REOPEN" /\ x.stage \in Begun => MayReturn(old) /\ x.row = Reopened(old)
  /\ q.kind \in WholeBatch /\ x.stage \in Begun =>
       \A r \in x.locked : /\ d.row[r].status = "READY_FOR_SUBMISSION"
                           /\ q.kind = "SUBMIT" => d.row[r].proposals = <<>>
  /\ q.kind = "DETAIL" /\ x.stage \in Begun => NoDetail(old)
  /\ q.kind = "ACCEPT" =>
       q.version <= old.version /\ (q.version = old.version => NoneWithdrawn(old))

Sound(d, x) ==
  x # Null => /\ x \in Request
              /\ WellAsked(d, x.ask) /\ WellCarried(x) /\ Found(d, x)

Holds(x, r) ==
  /\ x # Null /\ x.stage \in Begun
  /\ \/ x.ask.kind \in Deciding \cup Undoing /\ x.ask.row = r
     \/ x.ask.kind \in WholeBatch /\ r \in x.locked
HoldsPrice(x, r) == x # Null /\ x.stage \in Begun /\ x.ask.kind = "DETAIL" /\ x.ask.row = r

Bounded(d) == \A r \in Rows : d.row[r].version <= MaxVersion[r]
PricedOnce(price) ==
  \A r, o \in Rows : price[r] = price[o] /\ price[r] # Null => r = o
Apart(req) == \A s, t \in Slots, r \in Rows :
  \/ Holds(req[s], r) /\ Holds(req[t], r)
  \/ HoldsPrice(req[s], r) /\ HoldsPrice(req[t], r)
  => s = t

DbGood(d) ==
  /\ d \in Database /\ Bounded(d) /\ PricedOnce(d.price)
  /\ \A r \in Rows : RowGood(d.row[r])

IInv ==
  /\ DbGood(db)
  /\ request \in [Slots -> Request \cup {Null}]
  /\ \A s \in Slots : Sound(db, request[s])
  /\ Apart(request)

(* The locks of the model, told of the request alone.                      *)
LEMMA HoldsSame ==
  ASSUME NEW s \in Slots, NEW r \in Rows
  PROVE  /\ HoldsRow(s, r) <=> Holds(request[s], r)
         /\ (At(s, {"DETAIL"}, Begun) /\ request[s].ask.row = r) <=> HoldsPrice(request[s], r)
  BY DEF HoldsRow, Holds, HoldsPrice, At

(* What every step is shown to do.                                         *)
Kept == IInv' /\ \A r \in Rows : RowStep(db.row[r], db'.row[r])

(* A step that only moves its request.                                     *)
LEMMA GoesKeeps ==
  ASSUME IInv, NEW s \in Slots, NEW y, Goes(s, y), Sound(db, y),
         \A t \in Slots \ {s}, r \in Rows :
           /\ Holds(y, r) => ~Holds(request[t], r)
           /\ HoldsPrice(y, r) => ~HoldsPrice(request[t], r)
  PROVE  Kept
  <1>1. db' = db /\ request' = [request EXCEPT ![s] = y]
    BY DEF Goes
  <1>2. y \in Request \cup {Null}
    BY DEF Sound
  <1>3. /\ request' \in [Slots -> Request \cup {Null}] /\ request'[s] = y
        /\ \A t \in Slots \ {s} : request'[t] = request[t]
    BY <1>1, <1>2 DEF IInv
  <1>4. DbGood(db')
    BY <1>1 DEF IInv
  <1>5. \A t \in Slots : Sound(db', request'[t])
    BY <1>1, <1>3 DEF IInv
  <1>6. Apart(request')
    BY <1>3 DEF IInv, Apart
  <1>7. \A r \in Rows : RowStep(db.row[r], db'.row[r])
    BY <1>1 DEF RowStep
  <1> QED  BY <1>3, <1>4, <1>5, <1>6, <1>7 DEF IInv, Kept

(* Being told of a commit changes nothing else of a request.               *)
LEMMA ToldSame ==
  ASSUME NEW x \in Request, NEW new, NEW peer \in BOOLEAN
  PROVE  /\ Told(x, new, peer) \in Request
         /\ Told(x, new, peer).ask = x.ask /\ Told(x, new, peer).stage = x.stage
         /\ Told(x, new, peer).snapshot = x.snapshot
         /\ Told(x, new, peer).locked = x.locked /\ Told(x, new, peer).row = x.row
  <1> DEFINE more == (IF new.batch # db.batch THEN {"BATCH"} ELSE {})
                        \cup (IF peer THEN {"PEER"} ELSE {})
  <1>1. Told(x, new, peer) = x \/ Told(x, new, peer) = [x EXCEPT !.overtaken = @ \cup more]
    BY DEF Told
  <1>2. more \subseteq {"BATCH", "PEER"}
    OBVIOUS
  <1> HIDE DEF more
  <1>3. x.overtaken \cup more \subseteq {"BATCH", "PEER"}
    BY <1>2 DEF Request
  <1> QED  BY <1>1, <1>3 DEF Request

(* What others have found survives a step on rows they do not hold.        *)
LEMMA FoundSurvives ==
  ASSUME NEW d, NEW new, d \in Database, new \in Database, NEW x \in Request,
         WellAsked(d, x.ask), Found(d, x), x # Null,
         \A r \in Rows : RowStep(d.row[r], new.row[r]),
         \A r \in Rows : Holds(x, r) => new.row[r] = d.row[r],
         \A r \in Rows : HoldsPrice(x, r) => NoDetail(new.row[r])
  PROVE  Found(new, x)
  <1> DEFINE q == x.ask
  <1>1. x.locked \subseteq Rows /\ x.stage \in Stages
    BY DEF Request
  <1>2. ASSUME q.kind \in Deciding \cup Undoing, x.stage \in Begun
        PROVE  new.row[q.row] = d.row[q.row]
    BY <1>2 DEF WellAsked, Holds
  <1>3. ASSUME q.kind \in WholeBatch, x.stage \in Begun, NEW r \in x.locked
        PROVE  new.row[r] = d.row[r]
    BY <1>1, <1>3 DEF Holds
  <1>4. ASSUME q.kind = "DETAIL", x.stage \in Begun
        PROVE  NoDetail(new.row[q.row])
    BY <1>4 DEF WellAsked, HoldsPrice
  <1>5. ASSUME q.kind = "ACCEPT"
        PROVE  /\ q.version <= new.row[q.row].version
               /\ q.version = new.row[q.row].version => NoneWithdrawn(new.row[q.row])
    <2>1. q.row \in Rows /\ q.version \in Nat
      BY <1>5 DEF WellAsked, Deciding, Request, Question
    <2> DEFINE old == d.row[q.row]
               now == new.row[q.row]
    <2>2. old \in Row /\ RowStep(old, now)
      BY <2>1 DEF Database
    <2>3. q.version <= old.version /\ (q.version = old.version => NoneWithdrawn(old))
      BY <1>5 DEF Found
    <2>4. old.version \in Nat
      BY <2>2 DEF Row
    <2> HIDE DEF old, now, q
    <2>5. /\ now.version \in Nat /\ now.version >= old.version
          /\ now.version = old.version => now.mappings = old.mappings
      BY <2>2, RowStepTells
    <2>6. ASSUME q.version = now.version
          PROVE  NoneWithdrawn(now)
      BY <2>1, <2>3, <2>4, <2>5, <2>6 DEF NoneWithdrawn
    <2> QED  BY <2>1, <2>3, <2>4, <2>5, <2>6 DEF old, now
  <1>6. q.kind \in Deciding /\ x.stage \in Begun =>
          MayTurn(q, new.row[q.row]) /\ DecidedFrom(q, new.row[q.row], x.row)
    BY <1>2 DEF Found
  <1>7. /\ q.kind = "COMPENSATE" /\ x.stage \in Begun =>
             MayWithdraw(new.row[q.row]) /\ x.row = Withdrawn(new.row[q.row])
        /\ q.kind = "REOPEN" /\ x.stage \in Begun =>
             MayReturn(new.row[q.row]) /\ x.row = Reopened(new.row[q.row])
    BY <1>2 DEF Found, Undoing
  <1>8. q.kind \in WholeBatch /\ x.stage \in Begun =>
          \A r \in x.locked : /\ new.row[r].status = "READY_FOR_SUBMISSION"
                              /\ q.kind = "SUBMIT" => new.row[r].proposals = <<>>
    BY <1>3 DEF Found
  <1> QED  BY <1>4, <1>5, <1>6, <1>7, <1>8 DEF Found

(* A step that commits.                                                    *)
LEMMA CommitKeeps ==
  ASSUME IInv, NEW s \in Slots, NEW new, Commit(s, new),
         new \in Database, Bounded(new), PricedOnce(new.price),
         \A r \in Rows : db.price[r] # Null => new.price[r] # Null,
         \A r \in Rows : RowStep(db.row[r], new.row[r]),
         \A t \in Slots \ {s}, r \in Rows :
           /\ Holds(request[t], r) => new.row[r] = db.row[r]
           /\ HoldsPrice(request[t], r) => NoDetail(new.row[r])
  PROVE  Kept
  <1> DEFINE peer == request[s].ask.kind \in Undoing
             told(t) == Told(request[t], new, peer)
  <1>1. db' = new
        /\ request' = [t \in Slots |-> IF t = s THEN Null ELSE told(t)]
    BY DEF Commit
  <1>2. peer \in BOOLEAN
    OBVIOUS
  <1> HIDE DEF peer
  <1>3. \A t \in Slots : request[t] \in Request \cup {Null}
    BY DEF IInv
  <1>4. ASSUME NEW t \in Slots \ {s}, request[t] # Null
        PROVE  /\ told(t) \in Request
               /\ told(t).ask = request[t].ask /\ told(t).stage = request[t].stage
               /\ told(t).snapshot = request[t].snapshot
               /\ told(t).locked = request[t].locked /\ told(t).row = request[t].row
    BY <1>2, <1>3, <1>4, ToldSame
  <1>5. ASSUME NEW t \in Slots, request[t] = Null
        PROVE  told(t) = Null
    BY <1>5 DEF Told
  <1> HIDE DEF told
  <1>6. ASSUME NEW t \in Slots \ {s}, request[t] # Null
        PROVE  Sound(new, told(t))
    <2>1. PICK x \in Request : x = request[t]
      BY <1>3, <1>6
    <2>2. PICK y \in Request : y = told(t)
      BY <1>4, <1>6
    <2>3. /\ y.ask = x.ask /\ y.stage = x.stage /\ y.snapshot = x.snapshot
          /\ y.locked = x.locked /\ y.row = x.row
      BY <1>4, <1>6, <2>1, <2>2
    <2>4. WellAsked(db, x.ask) /\ WellCarried(x) /\ Found(db, x)
      BY <1>6, <2>1 DEF IInv, Sound
    <2>5. Found(new, x)
      BY <1>6, <2>1, <2>4, FoundSurvives DEF IInv, DbGood
    <2>6. WellAsked(new, x.ask)
      BY <2>4 DEF WellAsked
    <2>7. WellAsked(new, y.ask) /\ WellCarried(y) /\ Found(new, y)
      BY <2>3, <2>4, <2>5, <2>6 DEF WellCarried, Found
    <2> QED  BY <2>2, <2>7 DEF Sound
  <1>7. ASSUME NEW t \in Slots
        PROVE  Sound(db', request'[t]) /\ request'[t] \in Request \cup {Null}
    BY <1>1, <1>4, <1>5, <1>6, <1>7 DEF Sound
  <1>8. ASSUME NEW t \in Slots, NEW r \in Rows
        PROVE  /\ Holds(request'[t], r) => t # s /\ Holds(request[t], r)
               /\ HoldsPrice(request'[t], r) => t # s /\ HoldsPrice(request[t], r)
    BY <1>1, <1>4, <1>5, <1>8 DEF Holds, HoldsPrice
  <1>9. Apart(request')
    BY <1>8 DEF Apart, IInv
  <1>10. request' \in [Slots -> Request \cup {Null}]
    <2>1. \A t \in Slots : (IF t = s THEN Null ELSE told(t)) \in Request \cup {Null}
      BY <1>1, <1>7
    <2> QED  BY <1>1, <2>1
  <1>11. \A r \in Rows : RowGood(new.row[r])
    BY RowStepGood DEF IInv, DbGood, Database
  <1> QED  BY <1>1, <1>7, <1>9, <1>10, <1>11 DEF IInv, DbGood, Kept

----------------------------------------------------------------------------
(* Each step keeps the invariant.                                          *)

Kinds == Deciding \cup Undoing \cup WholeBatch \cup {"DETAIL"}

(* A new request holds nothing and has found nothing.                      *)
LEMMA AskKeeps ==
  ASSUME IInv, NEW s \in Slots, NEW kind \in Kinds, NEW r \in Rows \cup {Null},
         NEW c \in Resources \cup {Null}, Ask(s, kind, r, c),
         kind \in Deciding \cup Undoing \cup {"DETAIL"} => r \in Rows,
         kind \in {"RESOLVE", "ACCEPT", "ADMIT"} => c \in Resources,
         kind \in Deciding \cup Undoing => db.row[r].version < MaxVersion[r],
         kind = "DETAIL" => db.price[r] # Null,
         kind = "ACCEPT" => NoneWithdrawn(db.row[r])
  PROVE  Kept
  <1> DEFINE v == IF r = Null THEN 0 ELSE db.row[r].version
             q == [kind |-> kind, row |-> r, resource |-> c, version |-> v]
             y == [ask |-> q, stage |-> "ASKED", snapshot |-> Null, overtaken |-> {},
                   todo |-> {}, locked |-> {}, row |-> Null, flag |-> FALSE,
                   batch |-> Null]
  <1>1. v \in Nat
    <2>1. \A o \in Rows : db.row[o].version \in Nat
      BY DEF IInv, DbGood, Database, Row
    <2> QED  BY <2>1
  <1>2. r \in Rows => v = db.row[r].version
    BY NullAssumption
  <1> HIDE DEF v
  <1>3. q \in Question
    BY <1>1 DEF Question, Kinds
  <1>4. /\ q.kind = kind /\ q.row = r /\ q.resource = c /\ q.version = v
    OBVIOUS
  <1>5. WellAsked(db, q)
    BY <1>2, <1>4 DEF WellAsked
  <1>6. kind = "ACCEPT" => v <= db.row[r].version /\ NoneWithdrawn(db.row[r])
    BY <1>1, <1>2 DEF Deciding
  <1>7. Goes(s, y)
    BY DEF Ask, v
  <1> HIDE DEF q
  <1>8. /\ y \in Request /\ y.ask = q /\ y.stage = "ASKED" /\ "ASKED" \notin Begun
        /\ y.locked = {}
    BY <1>3 DEF Request, Stages, Begun
  <1> HIDE DEF y
  <1>9. WellCarried(y) /\ Found(db, y)
    BY <1>4, <1>6, <1>8 DEF WellCarried, Found
  <1>10. \A o \in Rows : ~Holds(y, o) /\ ~HoldsPrice(y, o)
    BY <1>8 DEF Holds, HoldsPrice
  <1> QED  BY <1>5, <1>7, <1>8, <1>9, <1>10, GoesKeeps DEF Sound

Asking(s) ==
  \/ \E r \in Rows, c \in Resources : AskResolve(s, r, c) \/ AskAccept(s, r, c)
  \/ \E r \in Rows : \/ AskAdmit(s, r) \/ AskReject(s, r) \/ AskCompensate(s, r)
                     \/ AskReopen(s, r) \/ AskDetail(s, r)
  \/ \E r \in Rows \cup {Null} : Ask(s, "KEEP", r, Null)
  \/ Ask(s, "SUBMIT", Null, Null)

(* Whatever the page offers keeps the invariant.                           *)
LEMMA AskingKeeps ==
  ASSUME IInv, NEW s \in Slots, Asking(s)
  PROVE  Kept
  <1>1. ASSUME NEW r \in Rows, NEW c \in Resources, AskResolve(s, r, c)
        PROVE  Kept
    BY <1>1, AskKeeps DEF AskResolve, Shows, Kinds, Deciding, Undoing
  <1>2. ASSUME NEW r \in Rows, NEW c \in Resources, AskAccept(s, r, c)
        PROVE  Kept
    BY <1>2, AskKeeps DEF AskAccept, Shows, Kinds, Deciding, Undoing, NoneWithdrawn
  <1>3. ASSUME NEW r \in Rows, AskAdmit(s, r)
        PROVE  Kept
    BY <1>3, AskKeeps DEF AskAdmit, Shows, Kinds, Deciding, Undoing, Resources
  <1>4. ASSUME NEW r \in Rows, AskReject(s, r)
        PROVE  Kept
    BY <1>4, AskKeeps DEF AskReject, Shows, Kinds, Deciding, Undoing
  <1>5. ASSUME NEW r \in Rows, AskCompensate(s, r)
        PROVE  Kept
    BY <1>5, AskKeeps DEF AskCompensate, Shows, Kinds, Deciding, Undoing
  <1>6. ASSUME NEW r \in Rows, AskReopen(s, r)
        PROVE  Kept
    BY <1>6, AskKeeps DEF AskReopen, Shows, Kinds, Deciding, Undoing
  <1>7. ASSUME NEW r \in Rows, AskDetail(s, r)
        PROVE  Kept
    BY <1>7, AskKeeps DEF AskDetail, Kinds, Deciding, Undoing
  <1>8. ASSUME NEW r \in Rows \cup {Null}, NEW kind \in WholeBatch, Ask(s, kind, r, Null)
        PROVE  Kept
    BY <1>8, AskKeeps DEF Kinds, Deciding, Undoing, WholeBatch
  <1> QED  BY <1>1, <1>2, <1>3, <1>4, <1>5, <1>6, <1>7, <1>8 DEF Asking, WholeBatch

(* What a request holds, told by its kind and stage.                       *)
LEMMA InFlight ==
  ASSUME IInv, NEW s \in Slots, NEW kinds, NEW stages, At(s, kinds, stages)
  PROVE  /\ request[s] \in Request /\ request[s] # Null
         /\ request[s].ask.kind \in kinds /\ request[s].stage \in stages
         /\ WellAsked(db, request[s].ask) /\ WellCarried(request[s])
         /\ Found(db, request[s])
  BY DEF At, IInv, Sound

(* A statement that keeps what is locked and what will be written.         *)
LEMMA AdvanceKeeps ==
  ASSUME IInv, NEW s \in Slots, request[s] # Null, request[s].stage \in Begun,
         NEW y \in Request, Goes(s, y), y.stage \in Begun,
         y.ask = request[s].ask, y.snapshot = request[s].snapshot,
         y.locked = request[s].locked, y.row = request[s].row
  PROVE  Kept
  <1>1. PICK x \in Request : x = request[s]
    BY DEF IInv
  <1>2. WellAsked(db, x.ask) /\ WellCarried(x) /\ Found(db, x)
    BY <1>1 DEF IInv, Sound
  <1>3. x.stage # "ASKED" /\ y.stage # "ASKED"
    BY <1>1 DEF Begun
  <1>4. WellCarried(y) /\ Found(db, y)
    BY <1>1, <1>2, <1>3 DEF WellCarried, Found
  <1>5. \A r \in Rows : /\ Holds(y, r) => Holds(x, r)
                        /\ HoldsPrice(y, r) => HoldsPrice(x, r)
    BY <1>1 DEF Holds, HoldsPrice
  <1>6. \A t \in Slots \ {s}, r \in Rows :
          /\ Holds(x, r) => ~Holds(request[t], r)
          /\ HoldsPrice(x, r) => ~HoldsPrice(request[t], r)
    BY <1>1 DEF IInv, Apart
  <1> QED  BY <1>1, <1>2, <1>4, <1>5, <1>6, GoesKeeps DEF Sound

(* Counting, reading the batch and locking the resource keep the           *)
(* invariant.                                                              *)
LEMMA AdvancesKeep ==
  ASSUME IInv, NEW s \in Slots,
         CountPending(s) \/ ReadBatch(s) \/ LockResource(s) \/ CountUndecided(s)
  PROVE  Kept
  <1>1. CASE CountPending(s)
    <2>0. At(s, Deciding, {"LOCKED"})
      BY <1>1 DEF CountPending
    <2>1. PICK x \in Request : x = request[s] /\ x # Null /\ x.stage = "LOCKED"
      BY <2>0, InFlight
    <2> DEFINE flag == x.row.status = "NEEDS_REVIEW" \/ Pending(Rows \ {x.ask.row})
               y == [x EXCEPT !.stage = "COUNTED", !.flag = flag]
    <2>2. Goes(s, y)
      BY <1>1, <2>1 DEF CountPending
    <2>3. flag \in BOOLEAN
      OBVIOUS
    <2> HIDE DEF flag
    <2>4. /\ y \in Request /\ y.stage = "COUNTED" /\ y.ask = x.ask
          /\ y.snapshot = x.snapshot /\ y.locked = x.locked /\ y.row = x.row
      BY <2>3 DEF Request, Stages
    <2> HIDE DEF y
    <2> QED  BY <2>1, <2>2, <2>4, AdvanceKeeps DEF Begun, Stages
  <1>2. CASE ReadBatch(s)
    <2>0. At(s, Deciding, {"COUNTED"})
      BY <1>2 DEF ReadBatch
    <2>1. PICK x \in Request : x = request[s] /\ x # Null /\ x.stage = "COUNTED"
      BY <2>0, InFlight
    <2> DEFINE batch == NextStatus(db.batch, x.flag)
               y == [x EXCEPT !.stage = "READ", !.batch = batch]
    <2>2. Goes(s, y)
      BY <1>2, <2>1 DEF ReadBatch
    <2>3. batch \in Mutable \cup {Null}
      BY DEF NextStatus, Mutable
    <2> HIDE DEF batch
    <2>4. /\ y \in Request /\ y.stage = "READ" /\ y.ask = x.ask
          /\ y.snapshot = x.snapshot /\ y.locked = x.locked /\ y.row = x.row
      BY <2>3 DEF Request, Stages
    <2> HIDE DEF y
    <2> QED  BY <2>1, <2>2, <2>4, AdvanceKeeps DEF Begun, Stages
  <1>3. CASE LockResource(s)
    <2>0. At(s, {"COMPENSATE"}, {"LOCKED"})
      BY <1>3 DEF LockResource
    <2>1. PICK x \in Request : x = request[s] /\ x # Null /\ x.stage = "LOCKED"
      BY <2>0, InFlight
    <2> DEFINE c == x.snapshot.row[x.ask.row].resource
               flag == c = x.ask.row /\ ~UsedElsewhere(x.snapshot, c, x.ask.row)
               y == [x EXCEPT !.stage = "COUNTED", !.flag = flag]
    <2>2. Goes(s, y)
      BY <1>3, <2>1 DEF LockResource
    <2>3. flag \in BOOLEAN
      OBVIOUS
    <2> HIDE DEF flag
    <2>4. /\ y \in Request /\ y.stage = "COUNTED" /\ y.ask = x.ask
          /\ y.snapshot = x.snapshot /\ y.locked = x.locked /\ y.row = x.row
      BY <2>3 DEF Request, Stages
    <2> HIDE DEF y
    <2> QED  BY <2>1, <2>2, <2>4, AdvanceKeeps DEF Begun, Stages
  <1>4. CASE CountUndecided(s)
    <2>0. At(s, {"SUBMIT"}, {"LOCKED"})
      BY <1>4 DEF CountUndecided
    <2>1. PICK x \in Request : x = request[s] /\ x # Null /\ x.stage = "LOCKED"
      BY <2>0, InFlight
    <2> DEFINE flag == Pending(Rows)
               y == [x EXCEPT !.stage = "COUNTED", !.flag = flag]
    <2>2. Goes(s, y)
      BY <1>4, <2>1 DEF CountUndecided
    <2>3. flag \in BOOLEAN
      BY DEF Pending
    <2> HIDE DEF flag
    <2>4. /\ y \in Request /\ y.stage = "COUNTED" /\ y.ask = x.ask
          /\ y.snapshot = x.snapshot /\ y.locked = x.locked /\ y.row = x.row
      BY <2>3 DEF Request, Stages
    <2> HIDE DEF y
    <2> QED  BY <2>1, <2>2, <2>4, AdvanceKeeps DEF Begun, Stages
  <1> QED  BY <1>1, <1>2, <1>3, <1>4

(* A request that ends without effect lets go of its locks.                *)
LEMMA EndKeeps ==
  ASSUME IInv, NEW s \in Slots, End(s)
  PROVE  Kept
  BY GoesKeeps DEF End, Sound, Holds, HoldsPrice

(* A transaction that takes its snapshot keeps the invariant.              *)
LEMMA StartKeeps ==
  ASSUME IInv, NEW s \in Slots, Start(s)
  PROVE  Kept
  <1>0. At(s, Undoing, {"ASKED"})
    BY DEF Start
  <1>1. PICK x \in Request : /\ x = request[s] /\ x # Null
                             /\ x.ask.kind \in Undoing /\ x.stage = "ASKED"
    BY <1>0, InFlight
  <1>2. WellAsked(db, x.ask)
    BY <1>1 DEF IInv, Sound
  <1> DEFINE y == [x EXCEPT !.stage = "STARTED", !.snapshot = db]
  <1>3. Goes(s, y)
    BY <1>1 DEF Start
  <1>4. db \in Database
    BY DEF IInv, DbGood
  <1>5. y \in Request /\ y.stage = "STARTED" /\ y.ask = x.ask /\ y.snapshot = db
    BY <1>4 DEF Request, Stages
  <1> HIDE DEF y
  <1>6. y.stage \notin Begun /\ y.ask.kind \notin Deciding
    BY <1>1, <1>5 DEF Begun, Deciding, Undoing
  <1>7. WellCarried(y) /\ Found(db, y)
    BY <1>4, <1>5, <1>6 DEF WellCarried, Found, Deciding
  <1> QED  BY <1>2, <1>3, <1>5, <1>6, <1>7, GoesKeeps DEF Sound, Holds, HoldsPrice

(* Who locks a private price sees that it was not proposed.                *)
LEMMA LockPriceKeeps ==
  ASSUME IInv, NEW s \in Slots, LockPrice(s)
  PROVE  Kept
  <1>0. At(s, {"DETAIL"}, {"ASKED"})
    BY DEF LockPrice
  <1>1. PICK x \in Request : /\ x = request[s] /\ x # Null
                             /\ x.ask.kind = "DETAIL" /\ x.stage = "ASKED"
    BY <1>0, InFlight
  <1>2. WellAsked(db, x.ask) /\ x.ask.row \in Rows
    BY <1>1 DEF IInv, Sound, WellAsked
  <1> DEFINE y == [x EXCEPT !.stage = "LOCKED"]
  <1>3. /\ Goes(s, y) /\ PriceFree(s, x.ask.row)
        /\ db.row[x.ask.row].proposals = <<>>
    BY <1>1 DEF LockPrice
  <1>4. y \in Request /\ y.stage = "LOCKED" /\ y.ask = x.ask
    BY DEF Request, Stages
  <1> HIDE DEF y
  <1>5. y.ask.kind \notin Deciding \cup Undoing \cup WholeBatch
                             \cup {"ACCEPT", "COMPENSATE", "REOPEN"}
    BY <1>1, <1>4 DEF WholeBatch, Deciding, Undoing
  <1>6. NoDetail(db.row[y.ask.row])
    BY <1>3, <1>4 DEF NoDetail
  <1>7. WellCarried(y) /\ Found(db, y)
    BY <1>4, <1>5, <1>6 DEF WellCarried, Found
  <1>8. \A t \in Slots \ {s}, r \in Rows :
          /\ Holds(y, r) => ~Holds(request[t], r)
          /\ HoldsPrice(y, r) => ~HoldsPrice(request[t], r)
    <2>1. \A r \in Rows : ~Holds(y, r) /\ (HoldsPrice(y, r) => r = x.ask.row)
      BY <1>4, <1>5 DEF Holds, HoldsPrice
    <2>2. \A t \in Slots \ {s} : ~HoldsPrice(request[t], x.ask.row)
      BY <1>2, <1>3, HoldsSame DEF PriceFree
    <2> QED  BY <2>1, <2>2
  <1> QED  BY <1>2, <1>3, <1>4, <1>7, <1>8, GoesKeeps DEF Sound

(* A decision that may be taken has the form and the ground it should.     *)
LEMMA DecidedTyped ==
  ASSUME NEW q \in Question, q.kind \in Deciding, WellAsked(db, q), IInv, MayDecide(q),
         q.kind = "ACCEPT" => NoneWithdrawn(db.row[q.row])
  PROVE  /\ MayTurn(q, db.row[q.row]) /\ DecidedFrom(q, db.row[q.row], Decided(q))
         /\ Decided(q) \in Row /\ Decided(q).version <= MaxVersion[q.row]
  <1> DEFINE old == db.row[q.row]
             new == Decided(q)
  <1>1. q.row \in Rows /\ q.version \in Nat /\ q.version < MaxVersion[q.row]
    BY DEF WellAsked, Question
  <1>2. old \in Row /\ old.version = q.version /\ old.status = "NEEDS_REVIEW"
    BY <1>1 DEF IInv, DbGood, Database, MayDecide
  <1>3. q.kind # "REJECT" => q.resource \in Resources
    BY DEF WellAsked, Deciding
  <1>4. DecidedFrom(q, old, new)
    <2>1. CASE q.kind = "REJECT"
      BY <2>1 DEF DecidedFrom, Decided
    <2>2. CASE q.kind # "REJECT"
      <3> DEFINE status == IF Clash(q) THEN "NEEDS_REVIEW" ELSE "READY_FOR_SUBMISSION"
      <3>1. new = Given(old, q, status)
        BY <2>2 DEF Decided
      <3>2. status \in {"NEEDS_REVIEW", "READY_FOR_SUBMISSION"}
        OBVIOUS
      <3> HIDE DEF status
      <3> QED  BY <2>2, <3>1, <3>2 DEF DecidedFrom
    <2> QED  BY <2>1, <2>2
  <1> HIDE DEF new, old
  <1>5. new \in Row
    <2>1. CASE q.kind = "REJECT"
      <3>1. old.resource \in Resources \cup {Null} /\ old.mappings \in Seq(Mapping)
        BY <1>2 DEF Row
      <3> QED  BY <1>2, <1>4, <2>1, <3>1, TurnedTyped DEF DecidedFrom, Before
    <2>2. CASE q.kind # "REJECT"
      BY <1>2, <1>3, <1>4, <2>2, GivenTyped DEF DecidedFrom
    <2> QED  BY <2>1, <2>2
  <1>6. new.version = old.version + 1
    BY <1>4, TurnedFields DEF DecidedFrom, Given
  <1>7. MaxVersion[q.row] \in Nat
    BY <1>1, BoundAssumption
  <1>8. new.version <= MaxVersion[q.row]
    BY <1>1, <1>2, <1>6, <1>7
  <1> QED  BY <1>2, <1>3, <1>4, <1>5, <1>8 DEF MayTurn, old, new

(* A decision is taken under the lock of its row, on the version it was    *)
(* asked for.                                                              *)
LEMMA DecideKeeps ==
  ASSUME IInv, NEW s \in Slots, Decide(s)
  PROVE  Kept
  <1>0. At(s, Deciding, {"ASKED"})
    BY DEF Decide
  <1>1. PICK x \in Request : /\ x = request[s] /\ x # Null
                             /\ x.ask.kind \in Deciding /\ x.stage = "ASKED"
                             /\ WellAsked(db, x.ask) /\ WellCarried(x) /\ Found(db, x)
    BY <1>0, InFlight
  <1> DEFINE row == Decided(x.ask)
             y == [x EXCEPT !.stage = "LOCKED", !.row = row]
  <1>2. Goes(s, y) /\ RowFree(s, x.ask.row) /\ MayDecide(x.ask)
    BY <1>1 DEF Decide
  <1>3. x.ask \in Question /\ x.ask.row \in Rows
    BY <1>1 DEF Request, WellAsked
  <1>4. x.ask.kind = "ACCEPT" => NoneWithdrawn(db.row[x.ask.row])
    BY <1>1, <1>2 DEF Found, MayDecide
  <1>5. /\ MayTurn(x.ask, db.row[x.ask.row])
        /\ DecidedFrom(x.ask, db.row[x.ask.row], row)
        /\ row \in Row /\ row.version <= MaxVersion[x.ask.row]
    BY <1>1, <1>2, <1>3, <1>4, DecidedTyped
  <1> HIDE DEF row
  <1>6. y \in Request /\ y.stage = "LOCKED" /\ y.ask = x.ask /\ y.row = row
    BY <1>5 DEF Request, Stages
  <1> HIDE DEF y
  <1>7. y.ask.kind \notin Undoing \cup WholeBatch \cup {"DETAIL", "COMPENSATE", "REOPEN"}
    BY <1>1, <1>6 DEF WholeBatch, Deciding, Undoing
  <1>8. WellCarried(y)
    BY <1>5, <1>6, <1>7 DEF WellCarried
  <1>9. Found(db, y)
    BY <1>1, <1>5, <1>6, <1>7 DEF Found
  <1>10. \A t \in Slots \ {s}, r \in Rows :
           /\ Holds(y, r) => ~Holds(request[t], r)
           /\ HoldsPrice(y, r) => ~HoldsPrice(request[t], r)
    <2>1. \A r \in Rows : ~HoldsPrice(y, r) /\ (Holds(y, r) => r = x.ask.row)
      BY <1>6, <1>7 DEF Holds, HoldsPrice
    <2>2. \A t \in Slots \ {s} : ~Holds(request[t], x.ask.row)
      BY <1>2, <1>3, HoldsSame DEF RowFree
    <2> QED  BY <2>1, <2>2
  <1> QED  BY <1>1, <1>2, <1>6, <1>8, <1>9, <1>10, GoesKeeps DEF Sound

(* A row that is taken back or reopened is a row, one version further.     *)
LEMMA UndoneTyped ==
  ASSUME NEW x \in Row
  PROVE  /\ Withdrawn(x) \in Row /\ Withdrawn(x).version = x.version + 1
         /\ Reopened(x) \in Row /\ Reopened(x).version = x.version + 1
  <1>1. x.resource \in Resources \cup {Null} /\ x.mappings \in Seq(Mapping)
    BY DEF Row
  <1>2. Reopened(x) \in Row
    BY <1>1, TurnedTyped DEF Reopened, Before
  <1>3. Withdrawn(x).version = x.version + 1 /\ Reopened(x).version = x.version + 1
    BY TurnedFields DEF Withdrawn, Reopened
  <1> QED  BY <1>2, <1>3, WithdrawnShape

(* Taking back and reopening work on the row their snapshot shows.         *)
LEMMA TakeBackKeeps ==
  ASSUME IInv, NEW s \in Slots, TakeBack(s)
  PROVE  Kept
  <1>0. At(s, Undoing, {"STARTED"})
    BY DEF TakeBack
  <1>1. PICK x \in Request : /\ x = request[s] /\ x # Null
                             /\ x.ask.kind \in Undoing /\ x.stage = "STARTED"
                             /\ WellAsked(db, x.ask) /\ WellCarried(x)
    BY <1>0, InFlight
  <1> DEFINE q == x.ask
             old == x.snapshot.row[q.row]
             batch == NextStatus(x.snapshot.batch, TRUE)
             row == IF q.kind = "COMPENSATE" THEN Withdrawn(old) ELSE Reopened(old)
             y == [x EXCEPT !.stage = "LOCKED", !.batch = batch, !.row = row]
  <1>2. /\ Goes(s, y) /\ RowFree(s, q.row) /\ db.row[q.row] = old
        /\ IF q.kind = "COMPENSATE" THEN MayCompensate(x.snapshot, q)
                                    ELSE MayReopen(x.snapshot, q)
    BY <1>1 DEF TakeBack
  <1>3. q \in Question /\ q.row \in Rows /\ q.version \in Nat
        /\ q.version < MaxVersion[q.row] /\ MaxVersion[q.row] \in Nat
    BY <1>1, BoundAssumption DEF Request, WellAsked, Question
  <1>4. old \in Row
    BY <1>2, <1>3 DEF IInv, DbGood, Database
  <1>5. batch \in Mutable \cup {Null}
    BY DEF NextStatus, Mutable
  <1>6. old.version = q.version
    BY <1>2 DEF MayCompensate, MayReopen
  <1>7. CASE q.kind = "COMPENSATE"
    <2>1. MayWithdraw(old) /\ row = Withdrawn(old)
      BY <1>2, <1>7 DEF MayCompensate, MayWithdraw
    <2> HIDE DEF row, batch, old
    <2>2. row \in Row /\ row.version = old.version + 1
      BY <1>4, <2>1, UndoneTyped
    <2>3. /\ y \in Request /\ y.stage = "LOCKED" /\ y.ask = q /\ y.row = row
          /\ y.snapshot = x.snapshot
      BY <1>5, <2>2 DEF Request, Stages
    <2> HIDE DEF y
    <2>4. WellCarried(y)
      BY <1>1, <1>3, <1>6, <2>2, <2>3 DEF WellCarried
    <2>5. Found(db, y)
      BY <1>2, <1>7, <2>1, <2>3 DEF Found, Deciding, WholeBatch
    <2>6. \A r \in Rows : ~HoldsPrice(y, r) /\ (Holds(y, r) => r = q.row)
      BY <1>7, <2>3 DEF Holds, HoldsPrice, WholeBatch
    <2>7. \A t \in Slots \ {s} : ~Holds(request[t], q.row)
      BY <1>2, <1>3, HoldsSame DEF RowFree
    <2> QED  BY <1>1, <1>2, <2>3, <2>4, <2>5, <2>6, <2>7, GoesKeeps DEF Sound
  <1>8. CASE q.kind = "REOPEN"
    <2>1. MayReturn(old) /\ row = Reopened(old)
      BY <1>2, <1>8 DEF MayReopen, MayReturn
    <2> HIDE DEF row, batch, old
    <2>2. row \in Row /\ row.version = old.version + 1
      BY <1>4, <2>1, UndoneTyped
    <2>3. /\ y \in Request /\ y.stage = "LOCKED" /\ y.ask = q /\ y.row = row
          /\ y.snapshot = x.snapshot
      BY <1>5, <2>2 DEF Request, Stages
    <2> HIDE DEF y
    <2>4. WellCarried(y)
      BY <1>1, <1>3, <1>6, <2>2, <2>3 DEF WellCarried
    <2>5. Found(db, y)
      BY <1>2, <1>8, <2>1, <2>3 DEF Found, Deciding, WholeBatch
    <2>6. \A r \in Rows : ~HoldsPrice(y, r) /\ (Holds(y, r) => r = q.row)
      BY <1>8, <2>3 DEF Holds, HoldsPrice, WholeBatch
    <2>7. \A t \in Slots \ {s} : ~Holds(request[t], q.row)
      BY <1>2, <1>3, HoldsSame DEF RowFree
    <2> QED  BY <1>1, <1>2, <2>3, <2>4, <2>5, <2>6, <2>7, GoesKeeps DEF Sound
  <1> QED  BY <1>1, <1>7, <1>8 DEF Undoing

(* Locking the batch holds no row yet.                                     *)
LEMMA LockBatchKeeps ==
  ASSUME IInv, NEW s \in Slots, LockBatch(s)
  PROVE  Kept
  <1>0. At(s, WholeBatch, {"ASKED"})
    BY DEF LockBatch
  <1>1. PICK x \in Request : /\ x = request[s] /\ x # Null
                             /\ x.ask.kind \in WholeBatch /\ x.stage = "ASKED"
                             /\ WellAsked(db, x.ask) /\ WellCarried(x)
    BY <1>0, InFlight
  <1> DEFINE todo == {r \in Rows : Ready(x.ask.kind, r)}
             y == [x EXCEPT !.stage = "LOCKED", !.todo = todo]
  <1>2. Goes(s, y)
    BY <1>1 DEF LockBatch
  <1>3. todo \subseteq Rows
    OBVIOUS
  <1> HIDE DEF todo
  <1>4. y \in Request /\ y.stage = "LOCKED" /\ y.ask = x.ask /\ y.locked = x.locked
    BY <1>3 DEF Request, Stages
  <1> HIDE DEF y
  <1>5. /\ x.locked = {}
        /\ x.ask.kind \notin Deciding \cup Undoing \cup {"DETAIL", "ACCEPT", "COMPENSATE", "REOPEN"}
    BY <1>1 DEF WellCarried, WholeBatch, Deciding, Undoing
  <1>6. WellCarried(y) /\ Found(db, y)
    BY <1>4, <1>5 DEF WellCarried, Found
  <1>7. \A r \in Rows : ~Holds(y, r) /\ ~HoldsPrice(y, r)
    BY <1>4, <1>5 DEF Holds, HoldsPrice
  <1> QED  BY <1>1, <1>2, <1>4, <1>6, <1>7, GoesKeeps DEF Sound

(* A row is locked for submission or keeping when nobody has it, and       *)
(* looked at again.                                                        *)
LEMMA LockRowKeeps ==
  ASSUME IInv, NEW s \in Slots, LockRow(s)
  PROVE  Kept
  <1>0. At(s, WholeBatch, {"LOCKED"})
    BY DEF LockRow
  <1>1. PICK x \in Request : /\ x = request[s] /\ x # Null
                             /\ x.ask.kind \in WholeBatch /\ x.stage = "LOCKED"
                             /\ WellAsked(db, x.ask) /\ WellCarried(x) /\ Found(db, x)
    BY <1>0, InFlight
  <1>2. PICK r \in x.todo :
          /\ RowFree(s, r)
          /\ Goes(s, [x EXCEPT !.todo = @ \ {r},
                      !.locked = IF Ready(x.ask.kind, r) THEN @ \cup {r} ELSE @])
    BY <1>1 DEF LockRow
  <1> DEFINE todo == x.todo \ {r}
             locked == IF Ready(x.ask.kind, r) THEN x.locked \cup {r} ELSE x.locked
             y == [x EXCEPT !.todo = todo, !.locked = locked]
  <1>3. r \in Rows /\ todo \subseteq Rows /\ locked \subseteq Rows
    BY DEF Request
  <1>4. /\ \A o \in locked : o \in x.locked \/ (o = r /\ Ready(x.ask.kind, r))
        /\ Goes(s, y)
    BY <1>2
  <1> HIDE DEF todo, locked
  <1>5. y \in Request /\ y.stage = "LOCKED" /\ y.ask = x.ask /\ y.locked = locked
    BY <1>1, <1>3 DEF Request
  <1> HIDE DEF y
  <1>6. x.ask.kind \notin Deciding \cup Undoing \cup {"DETAIL", "ACCEPT", "COMPENSATE", "REOPEN"}
    BY <1>1 DEF WholeBatch, Deciding, Undoing
  <1>7. \A o \in locked : /\ db.row[o].status = "READY_FOR_SUBMISSION"
                          /\ x.ask.kind = "SUBMIT" => db.row[o].proposals = <<>>
    BY <1>1, <1>4 DEF Found, Ready, Begun, Stages
  <1>8. WellCarried(y) /\ Found(db, y)
    BY <1>5, <1>6, <1>7 DEF WellCarried, Found
  <1>9. \A t \in Slots \ {s}, o \in Rows :
          /\ Holds(y, o) => ~Holds(request[t], o)
          /\ HoldsPrice(y, o) => ~HoldsPrice(request[t], o)
    <2>1. \A o \in Rows : ~HoldsPrice(y, o) /\ (Holds(y, o) => o = r \/ Holds(x, o))
      BY <1>1, <1>4, <1>5, <1>6 DEF Holds, HoldsPrice
    <2>2. \A t \in Slots \ {s} : ~Holds(request[t], r)
      BY <1>2, <1>3, HoldsSame DEF RowFree
    <2>3. \A t \in Slots \ {s}, o \in Rows : Holds(x, o) => ~Holds(request[t], o)
      BY <1>1 DEF IInv, Apart
    <2> QED  BY <2>1, <2>2, <2>3
  <1> QED  BY <1>1, <1>5, <1>4, <1>8, <1>9, GoesKeeps DEF Sound

(* A request that found what Found says steps its row.                     *)
LEMMA FoundSteps ==
  ASSUME NEW x, x \in Request, x.ask.kind \in Deciding \cup Undoing, x.stage \in Begun,
         Found(db, x), db.row[x.ask.row] \in Row
  PROVE  /\ RowStep(db.row[x.ask.row], x.row)
         /\ x.row.proposals = db.row[x.ask.row].proposals
  <1> DEFINE q == x.ask
             old == db.row[q.row]
  <1>1. CASE q.kind \in Deciding
    <2>1. MayTurn(q, old) /\ DecidedFrom(q, old, x.row)
      BY <1>1 DEF Found
    <2> HIDE DEF q, old
    <2>2. RowStep(old, x.row)
      BY <2>1 DEF RowStep
    <2>3. x.row.proposals = old.proposals
      BY <2>1, TurnedFields DEF DecidedFrom, Given
    <2> QED  BY <2>2, <2>3 DEF q, old
  <1>2. CASE q.kind = "COMPENSATE"
    <2>1. MayWithdraw(old) /\ x.row = Withdrawn(old)
      BY <1>2 DEF Found
    <2> HIDE DEF q, old
    <2>2. RowStep(old, x.row)
      BY <2>1 DEF RowStep
    <2>3. x.row.proposals = old.proposals
      BY <2>1, TurnedFields DEF Withdrawn
    <2> QED  BY <2>2, <2>3 DEF q, old
  <1>3. CASE q.kind = "REOPEN"
    <2>1. MayReturn(old) /\ x.row = Reopened(old)
      BY <1>3 DEF Found
    <2> HIDE DEF q, old
    <2>2. RowStep(old, x.row)
      BY <2>1 DEF RowStep
    <2>3. x.row.proposals = old.proposals
      BY <2>1, TurnedFields DEF Reopened
    <2> QED  BY <2>2, <2>3 DEF q, old
  <1> QED  BY <1>1, <1>2, <1>3 DEF Undoing

(* Who holds a private price knows that it was not proposed on its own.    *)
LEMMA PriceHeld ==
  ASSUME IInv, NEW t \in Slots, NEW r \in Rows, HoldsPrice(request[t], r)
  PROVE  NoDetail(db.row[r])
  BY DEF HoldsPrice, IInv, Sound, Found

(* Writing the one row that a request holds keeps the invariant.           *)
LEMMA RowCommitKeeps ==
  ASSUME IInv, NEW s \in Slots, NEW x \in Request, x = request[s], x # Null,
         x.ask.kind \in Deciding \cup Undoing, x.stage \in Begun,
         NEW batch \in Mutable \cup Closed,
         NEW catalog \in [Resources -> {"NONE", "ACTIVE", "RETIRED"}],
         Commit(s, [batch |-> batch, price |-> db.price,
                    row |-> [db.row EXCEPT ![x.ask.row] = x.row], catalog |-> catalog])
  PROVE  Kept
  <1> DEFINE r == x.ask.row
             row == [db.row EXCEPT ![r] = x.row]
             new == [batch |-> batch, price |-> db.price, row |-> row, catalog |-> catalog]
  <1>1. /\ r \in Rows /\ x.row \in Row /\ x.row.version <= MaxVersion[r] /\ Found(db, x)
    BY DEF IInv, Sound, WellAsked, WellCarried
  <1>2. db \in Database /\ db.row \in [Rows -> Row] /\ db.price \in [Rows -> Resources \cup {Null}]
        /\ Bounded(db) /\ PricedOnce(db.price)
    BY DEF IInv, DbGood, Database
  <1>3. RowStep(db.row[r], x.row) /\ x.row.proposals = db.row[r].proposals
    BY <1>1, <1>2, FoundSteps
  <1> HIDE DEF r
  <1>4. row \in [Rows -> Row] /\ row[r] = x.row /\ \A o \in Rows \ {r} : row[o] = db.row[o]
    BY <1>1, <1>2
  <1>5. Commit(s, new)
    BY DEF r
  <1> HIDE DEF row
  <1>6. /\ new \in Database /\ new.row = row /\ new.price = db.price
    BY <1>2, <1>4 DEF Database
  <1> HIDE DEF new
  <1>7. Bounded(new)
    BY <1>1, <1>2, <1>4, <1>6 DEF Bounded
  <1>8. \A o \in Rows : RowStep(db.row[o], new.row[o])
    BY <1>3, <1>4, <1>6 DEF RowStep
  <1>9. \A t \in Slots \ {s}, o \in Rows :
          /\ Holds(request[t], o) => new.row[o] = db.row[o]
          /\ HoldsPrice(request[t], o) => NoDetail(new.row[o])
    <2>1. Holds(request[s], r)
      BY DEF Holds, r
    <2>2. \A t \in Slots \ {s} : ~Holds(request[t], r)
      BY <1>1, <2>1 DEF IInv, Apart
    <2>3. \A o \in Rows : NoDetail(db.row[o]) => NoDetail(new.row[o])
      BY <1>3, <1>4, <1>6 DEF NoDetail
    <2> QED  BY <1>4, <1>6, <2>2, <2>3, PriceHeld
  <1> QED  BY <1>2, <1>5, <1>6, <1>7, <1>8, <1>9, CommitKeeps

(* The status written to the batch is one of its own.                      *)
LEMMA NewBatchTyped ==
  ASSUME IInv, NEW x \in Request
  PROVE  NewBatch(x) \in Mutable \cup Closed
  <1>1. db.batch \in Mutable \cup Closed
    BY DEF IInv, DbGood, Database
  <1>2. x.batch \in Mutable \cup {Null}
    BY DEF Request
  <1> QED  BY <1>1, <1>2 DEF NewBatch

(* The commit of a decision keeps the invariant.                           *)
LEMMA CommitDecisionKeeps ==
  ASSUME IInv, NEW s \in Slots, CommitDecision(s)
  PROVE  Kept
  <1>0. At(s, Deciding, {"READ"})
    BY DEF CommitDecision
  <1>1. PICK x \in Request : /\ x = request[s] /\ x # Null
                             /\ x.ask.kind \in Deciding /\ x.stage = "READ"
                             /\ WellAsked(db, x.ask)
    BY <1>0, InFlight
  <1> DEFINE catalog == [db.catalog EXCEPT ![x.ask.row] =
                           IF x.ask.kind = "ADMIT" THEN "ACTIVE" ELSE @]
  <1>2. Commit(s, [batch |-> NewBatch(x), price |-> db.price,
                   row |-> [db.row EXCEPT ![x.ask.row] = x.row], catalog |-> catalog])
    BY <1>1 DEF CommitDecision
  <1>3. catalog \in [Resources -> {"NONE", "ACTIVE", "RETIRED"}]
    BY DEF IInv, DbGood, Database
  <1> HIDE DEF catalog
  <1>4. x.stage \in Begun
    BY <1>1 DEF Begun, Stages
  <1>5. NewBatch(x) \in Mutable \cup Closed
    BY NewBatchTyped
  <1> QED  BY <1>1, <1>2, <1>3, <1>4, <1>5, RowCommitKeeps

(* The commit of a compensation or reopening keeps the invariant.          *)
LEMMA CommitUndoingKeeps ==
  ASSUME IInv, NEW s \in Slots, CommitUndoing(s)
  PROVE  Kept
  <1>0. At(s, Undoing, {"COUNTED", "LOCKED"})
    BY DEF CommitUndoing, At, Undoing
  <1>1. PICK x \in Request : /\ x = request[s] /\ x # Null
                             /\ x.ask.kind \in Undoing /\ x.stage \in {"COUNTED", "LOCKED"}
    BY <1>0, InFlight
  <1> DEFINE catalog == [db.catalog EXCEPT ![x.ask.row] = IF x.flag THEN "RETIRED" ELSE @]
  <1>2. Commit(s, [batch |-> NewBatch(x), price |-> db.price,
                   row |-> [db.row EXCEPT ![x.ask.row] = x.row], catalog |-> catalog])
    BY <1>1 DEF CommitUndoing
  <1>3. catalog \in [Resources -> {"NONE", "ACTIVE", "RETIRED"}]
    BY DEF IInv, DbGood, Database
  <1> HIDE DEF catalog
  <1>4. x.stage \in Begun
    BY <1>1 DEF Begun, Stages
  <1>5. NewBatch(x) \in Mutable \cup Closed
    BY NewBatchTyped
  <1> QED  BY <1>1, <1>2, <1>3, <1>4, <1>5, RowCommitKeeps

(* A row proposed with its batch is not thereby proposed on its own.       *)
LEMMA BatchDoor ==
  ASSUME NEW x \in Row, x.proposals = <<>>, NEW c
  PROVE  NoDetail(Proposed(x, "BATCH", c))
  <1> DEFINE m == [door |-> "BATCH", resource |-> c]
             new == Proposed(x, "BATCH", c)
  <1>1. new.proposals = Append(<<>>, m) /\ m.door = "BATCH"
    BY ProposedAppends
  <1> HIDE DEF new, m
  <1>2. DOMAIN new.proposals = {1} /\ new.proposals[1] = m
    BY <1>1
  <1> QED  BY <1>1, <1>2 DEF NoDetail, new

(* Submitting the batch proposes the rows it holds, each for the first     *)
(* time.                                                                   *)
LEMMA CommitSubmitKeeps ==
  ASSUME IInv, NEW s \in Slots, CommitSubmit(s)
  PROVE  Kept
  <1>0. At(s, {"SUBMIT"}, {"COUNTED"})
    BY DEF CommitSubmit
  <1>1. PICK x \in Request : /\ x = request[s] /\ x # Null
                             /\ x.ask.kind = "SUBMIT" /\ x.stage = "COUNTED"
                             /\ Found(db, x)
    BY <1>0, InFlight
  <1> DEFINE rejected == \E r \in Rows : db.row[r].status = "REJECTED"
             batch == IF x.flag THEN db.batch
                      ELSE IF rejected THEN "PARTIALLY_SUBMITTED" ELSE "SUBMITTED"
             row == [r \in Rows |-> IF r \in x.locked
                                    THEN Proposed(db.row[r], "BATCH", db.row[r].resource)
                                    ELSE db.row[r]]
             new == [batch |-> batch, row |-> row, catalog |-> db.catalog, price |-> db.price]
  <1>2. Commit(s, new) /\ \A r \in x.locked : db.row[r].resource # Null
    BY <1>1 DEF CommitSubmit
  <1>3. /\ db \in Database /\ db.row \in [Rows -> Row] /\ db.batch \in Mutable \cup Closed
        /\ db.price \in [Rows -> Resources \cup {Null}]
        /\ db.catalog \in [Resources -> {"NONE", "ACTIVE", "RETIRED"}]
        /\ Bounded(db) /\ PricedOnce(db.price)
    BY DEF IInv, DbGood, Database
  <1>4. x.locked \subseteq Rows
    BY DEF Request
  <1>5. \A r \in x.locked : db.row[r].status = "READY_FOR_SUBMISSION" /\ db.row[r].proposals = <<>>
    BY <1>1 DEF Found, WholeBatch, Begun, Stages
  <1>6. batch \in Mutable \cup Closed
    BY <1>3 DEF Closed
  <1> HIDE DEF batch
  <1>7. ASSUME NEW r \in Rows
        PROVE  /\ row[r] \in Row /\ row[r].version = db.row[r].version
               /\ RowStep(db.row[r], row[r])
               /\ NoDetail(db.row[r]) => NoDetail(row[r])
    <2> DEFINE old == db.row[r]
               c == old.resource
    <2>1. CASE r \in x.locked
      <3>1. row[r] = Proposed(old, "BATCH", c)
        BY <2>1
      <3>2. /\ old \in Row /\ c \in Resources /\ MayPropose(old) /\ old.proposals = <<>>
            /\ c = old.resource
        BY <1>2, <1>3, <1>5, <2>1 DEF Row, MayPropose
      <3> HIDE DEF row, old, c
      <3>3. row[r] \in Row /\ row[r].version = old.version /\ NoDetail(row[r])
        BY <3>1, <3>2, ProposedTyped, ProposedFields, BatchDoor
      <3>4. RowStep(old, row[r])
        BY <3>1, <3>2 DEF RowStep
      <3> QED  BY <3>3, <3>4 DEF old
    <2>2. CASE r \notin x.locked
      BY <1>3, <2>2 DEF RowStep
    <2> QED  BY <2>1, <2>2
  <1>8. DOMAIN row = Rows /\ \A r \in Rows \ x.locked : row[r] = db.row[r]
    OBVIOUS
  <1>9. row \in [Rows -> Row]
    <2>1. \A r \in Rows : row[r] \in Row
      BY <1>7
    <2> QED  BY <2>1
  <1> HIDE DEF row
  <1>10. new \in Database /\ new.row = row /\ new.price = db.price
    BY <1>3, <1>6, <1>9 DEF Database
  <1> HIDE DEF new
  <1>11. Bounded(new)
    BY <1>3, <1>7, <1>10 DEF Bounded
  <1>12. \A t \in Slots \ {s}, r \in Rows :
           /\ Holds(request[t], r) => new.row[r] = db.row[r]
           /\ HoldsPrice(request[t], r) => NoDetail(new.row[r])
    <2>1. \A r \in x.locked : Holds(request[s], r)
      BY <1>1 DEF Holds, WholeBatch, Begun, Stages
    <2>2. \A t \in Slots \ {s}, r \in x.locked : ~Holds(request[t], r)
      BY <1>4, <2>1 DEF IInv, Apart
    <2> QED  BY <1>7, <1>8, <1>10, <2>2, PriceHeld
  <1> QED  BY <1>2, <1>3, <1>7, <1>10, <1>11, <1>12, CommitKeeps

(* Keeping a batch private prices no resource twice.                       *)
LEMMA CommitKeepKeeps ==
  ASSUME IInv, NEW s \in Slots, CommitKeep(s)
  PROVE  Kept
  <1> DEFINE q == request[s].ask
             chosen == IF q.row = Null THEN request[s].locked ELSE {q.row}
             price == [r \in Rows |-> IF r \in Priced(chosen)
                                      THEN db.row[r].resource ELSE db.price[r]]
             new == [batch |-> db.batch, row |-> db.row, catalog |-> db.catalog,
                     price |-> price]
  <1>1. /\ Commit(s, new) /\ chosen \subseteq request[s].locked
        /\ \A r \in Priced(chosen) : db.row[r].resource # Null
    BY DEF CommitKeep
  <1>2. request[s] \in Request
    BY InFlight DEF CommitKeep
  <1>3. chosen \subseteq Rows
    BY <1>1, <1>2 DEF Request
  <1> HIDE DEF q, chosen
  <1>4. /\ db \in Database /\ db.row \in [Rows -> Row]
        /\ db.price \in [Rows -> Resources \cup {Null}]
        /\ Bounded(db) /\ PricedOnce(db.price)
    BY DEF IInv, DbGood, Database
  <1>5. \A r \in Rows : price[r] \in Resources \cup {Null}
    BY <1>4 DEF Row
  <1>6. price \in [Rows -> Resources \cup {Null}]
    BY <1>5
  <1>7. PricedOnce(price)
    <2> SUFFICES ASSUME NEW r \in Rows, NEW o \in Rows, price[r] = price[o],
                        price[r] # Null, r # o
                 PROVE  FALSE
      BY DEF PricedOnce
    <2>1. CASE r \in Priced(chosen) /\ o \in Priced(chosen)
      <3>1. r \in Nat /\ o \in Nat
        BY RowsAssumption
      <3>2. r < o \/ o < r
        BY <3>1
      <3>3. db.row[r].resource = db.row[o].resource /\ db.price[r] = Null /\ db.price[o] = Null
        BY <2>1 DEF Priced
      <3>4. r \in chosen /\ o \in chosen
        BY <2>1 DEF Priced
      <3> QED  BY <2>1, <3>2, <3>3, <3>4 DEF Priced
    <2>2. CASE r \in Priced(chosen) /\ o \notin Priced(chosen)
      BY <2>2 DEF Priced
    <2>3. CASE r \notin Priced(chosen) /\ o \in Priced(chosen)
      BY <2>3 DEF Priced
    <2>4. CASE r \notin Priced(chosen) /\ o \notin Priced(chosen)
      BY <1>4, <2>4 DEF PricedOnce
    <2> QED  BY <2>1, <2>2, <2>3, <2>4
  <1>8. \A r \in Rows : db.price[r] # Null => price[r] # Null
    BY DEF Priced
  <1> HIDE DEF price
  <1>9. /\ new \in Database /\ new.row = db.row /\ new.price = price
    BY <1>4, <1>6 DEF Database
  <1> HIDE DEF new
  <1>10. Bounded(new) /\ \A r \in Rows : RowStep(db.row[r], new.row[r])
    BY <1>4, <1>9 DEF Bounded, RowStep
  <1> QED  BY <1>1, <1>7, <1>8, <1>9, <1>10, PriceHeld, CommitKeeps

(* Proposing one private price is the first such proposal of its row.      *)
LEMMA CommitDetailKeeps ==
  ASSUME IInv, NEW s \in Slots, CommitDetail(s)
  PROVE  Kept
  <1>0. At(s, {"DETAIL"}, {"LOCKED"})
    BY DEF CommitDetail
  <1>1. PICK x \in Request : /\ x = request[s] /\ x # Null
                             /\ x.ask.kind = "DETAIL" /\ x.stage = "LOCKED"
                             /\ WellAsked(db, x.ask) /\ Found(db, x)
    BY <1>0, InFlight
  <1> DEFINE r == x.ask.row
             old == db.row[r]
             c == db.price[r]
             proposed == Proposed(old, "DETAIL", c)
             row == [db.row EXCEPT ![r] = proposed]
             new == [batch |-> db.batch, catalog |-> db.catalog, price |-> db.price,
                     row |-> row]
  <1>2. RowFree(s, r)
    BY <1>1 DEF CommitDetail
  <1>3. Commit(s, new)
    BY <1>1 DEF CommitDetail
  <1>4. /\ db \in Database /\ db.row \in [Rows -> Row]
        /\ db.price \in [Rows -> Resources \cup {Null}]
        /\ Bounded(db) /\ PricedOnce(db.price)
    BY DEF IInv, DbGood, Database
  <1>5. r \in Rows /\ c \in Resources /\ old \in Row /\ NoDetail(old)
    BY <1>1, <1>4 DEF WellAsked, Found, Begun, Stages
  <1> HIDE DEF old, c
  <1>6. proposed \in Row /\ proposed.version = old.version
    BY <1>5, ProposedTyped, ProposedFields
  <1>7. RowStep(old, proposed)
    BY <1>5 DEF RowStep
  <1> HIDE DEF proposed, r
  <1>8. row \in [Rows -> Row] /\ row[r] = proposed /\ \A o \in Rows \ {r} : row[o] = db.row[o]
    BY <1>4, <1>5, <1>6
  <1> HIDE DEF row
  <1>9. /\ new \in Database /\ new.row = row /\ new.price = db.price
    BY <1>4, <1>8 DEF Database
  <1> HIDE DEF new
  <1>10. /\ Bounded(new)
         /\ \A o \in Rows : RowStep(db.row[o], new.row[o])
    BY <1>4, <1>5, <1>6, <1>7, <1>8, <1>9 DEF Bounded, RowStep, old
  <1>11. \A t \in Slots \ {s}, o \in Rows :
           /\ Holds(request[t], o) => new.row[o] = db.row[o]
           /\ HoldsPrice(request[t], o) => NoDetail(new.row[o])
    <2>1. HoldsPrice(request[s], r)
      BY <1>1 DEF HoldsPrice, Begun, Stages, r
    <2>2. \A t \in Slots \ {s} : ~HoldsPrice(request[t], r)
      BY <1>5, <2>1 DEF IInv, Apart
    <2>3. \A t \in Slots \ {s} : ~Holds(request[t], r)
      BY <1>2, <1>5, HoldsSame DEF RowFree
    <2> QED  BY <1>8, <1>9, <2>2, <2>3, PriceHeld
  <1> QED  BY <1>3, <1>4, <1>9, <1>10, <1>11, CommitKeeps

----------------------------------------------------------------------------
(* The theorems.                                                           *)

(* Every step keeps the invariant and moves each row by one of the six.    *)
LEMMA NextKeeps ==
  ASSUME IInv, Next
  PROVE  Kept
  <1>1. PICK s \in Slots : Asking(s) \/ Step(s)
    BY DEF Next, Asking
  <1>2. CASE Asking(s)
    BY <1>2, AskingKeeps
  <1>3. CASE Step(s)
    BY <1>3, DecideKeeps, AdvancesKeep, CommitDecisionKeeps, StartKeeps, TakeBackKeeps,
       CommitUndoingKeeps, LockBatchKeeps, LockRowKeeps, CommitSubmitKeeps, CommitKeepKeeps,
       LockPriceKeeps, CommitDetailKeeps, EndKeeps DEF Step
  <1> QED  BY <1>1, <1>2, <1>3

(* The invariant holds of a batch that was just read in.                   *)
LEMMA InitHolds ==
  ASSUME Init
  PROVE  IInv
  <1> DEFINE fresh == [status |-> "NEEDS_REVIEW", version |-> 0, resource |-> Null,
                       mappings |-> <<>>, proposals |-> <<>>]
  <1>1. /\ db = [batch |-> "NEEDS_REVIEW", row |-> [r \in Rows |-> fresh],
                 catalog |-> [c \in Resources |-> IF c \in Known THEN "ACTIVE" ELSE "NONE"],
                 price |-> [r \in Rows |-> Null]]
        /\ request = [s \in Slots |-> Null]
    BY DEF Init
  <1>2. fresh \in Row /\ fresh.version = 0
    BY DEF Row
  <1>3. RowGood(fresh)
    BY DEF RowGood, HasDecision, ConsentStands, Unproposed, DoorsOnce, Standing
  <1> HIDE DEF fresh
  <1>4. db \in Database /\ (\A r \in Rows : db.row[r] = fresh /\ db.price[r] = Null)
    BY <1>1, <1>2 DEF Database, Mutable
  <1>5. Bounded(db) /\ PricedOnce(db.price)
    BY <1>2, <1>4, BoundAssumption DEF Bounded, PricedOnce
  <1>6. DbGood(db)
    BY <1>3, <1>4, <1>5 DEF DbGood
  <1>7. /\ request \in [Slots -> Request \cup {Null}]
        /\ \A s \in Slots : Sound(db, request[s])
        /\ Apart(request)
    BY <1>1 DEF Sound, Apart, Holds, HoldsPrice
  <1> QED  BY <1>6, <1>7 DEF IInv

(* Nothing happening keeps the invariant.                                  *)
LEMMA StutterKeeps ==
  ASSUME IInv, UNCHANGED vars
  PROVE  Kept
  BY DEF Kept, IInv, vars, RowStep

(* The invariant holds in every reachable state.                           *)
THEOREM Invariance == Spec => []IInv
  <1>1. IInv /\ [Next]_vars => IInv'
    BY NextKeeps, StutterKeeps DEF Kept
  <1> QED  BY InitHolds, <1>1, PTL DEF Spec

(* Every reachable database and request is well formed, however the        *)
(* transactions of resolveRow, compensateOwnDecision, submitBatch and      *)
(* keepBatchPrivate overlap: no row's version passes the bound its page    *)
(* was offered under.                                                      *)
THEOREM TypeCorrect == Spec => []TypeOK
  <1>1. IInv => TypeOK
    BY DEF IInv, DbGood, Bounded, TypeOK
  <1> QED  BY Invariance, <1>1, PTL

(* However resolving, bulk acceptance, taking back and submitting overlap, *)
(* a row's resource is that of its last standing decision, what the batch  *)
(* proposed is what was decided, and acceptMachineProvenRows repeats no    *)
(* decision its reviewer took back.                                        *)
THEOREM DecisionsStandAlways == Spec => []DecisionsStand
  <1>1. ASSUME IInv, NEW r \in Rows
        PROVE  HasDecision(db.row[r]) /\ ConsentStands(db.row[r])
    BY <1>1 DEF IInv, DbGood, RowGood
  <1>2. IInv => IdentityHasItsDecision
    BY <1>1 DEF IdentityHasItsDecision, HasDecision
  <1>3. IInv => WithdrawnConsentStands
    BY <1>1 DEF WithdrawnConsentStands, ConsentStands
  <1> QED  BY Invariance, <1>2, <1>3, PTL DEF DecisionsStand

(* submitBatch and submitPrivatePrice each propose a row once, and         *)
(* keepBatchPrivate leaves one private price of a resource, from however   *)
(* many tabs they are pressed.                                             *)
THEOREM OfferedOnce == Spec => []OffersOnce
  <1>1. ASSUME IInv, NEW r \in Rows
        PROVE  DoorsOnce(db.row[r])
    BY <1>1 DEF IInv, DbGood, RowGood
  <1>2. IInv => PricedOnce(db.price)
    BY DEF IInv, DbGood
  <1>3. IInv => OffersOnce
    BY <1>1, <1>2 DEF OffersOnce, DoorsOnce, PricedOnce
  <1> QED  BY Invariance, <1>3, PTL

(* A row that submitBatch or submitPrivatePrice has proposed is neither    *)
(* decided again nor reopened, not even by requests that saw it before.    *)
THEOREM SubmittedRests == Spec => SubmittedRowRests
  <1> DEFINE Rests == \A r \in Rows : db.row[r].status = "SUBMISSION_CREATED" =>
       /\ db'.row[r].status = "SUBMISSION_CREATED"
       /\ db'.row[r].version = db.row[r].version
       /\ db'.row[r].resource = db.row[r].resource
  <1>1. ASSUME IInv, Next
        PROVE  Rests
    <2>1. \A r \in Rows : RowStep(db.row[r], db'.row[r]) /\ db.row[r] \in Row
      BY <1>1, NextKeeps DEF Kept, IInv, DbGood, Database
    <2> QED  BY <2>1, RowStepTells
  <1>2. IInv /\ [Next]_vars => [Rests]_vars
    BY <1>1
  <1> QED  BY Invariance, <1>2, PTL DEF Spec, SubmittedRowRests

----------------------------------------------------------------------------
(* The book: what commits is what ReviewBook does in one step.             *)

Offers(x) == {x.proposals[n] : n \in DOMAIN x.proposals}

(* A row is what its fields are, and the database has rows.                *)
LEMMA RowsTyped ==
  ASSUME IInv
  PROVE  /\ db.row \in [Rows -> Row] /\ db.price \in [Rows -> Resources \cup {Null}]
         /\ \A r \in Rows :
              /\ db.row[r] \in Row /\ RowGood(db.row[r])
              /\ db.row[r].resource \in Resources \cup {Null}
              /\ db.row[r].status # "SUBMISSION_CREATED" => Offers(db.row[r]) = {}
              /\ db.row[r].status = "READY_FOR_SUBMISSION" => db.row[r].resource \in Resources
  <1>1. db.row \in [Rows -> Row] /\ db.price \in [Rows -> Resources \cup {Null}]
    BY DEF IInv, DbGood, Database
  <1>2. ASSUME NEW r \in Rows
        PROVE  /\ db.row[r] \in Row /\ RowGood(db.row[r])
               /\ db.row[r].resource \in Resources \cup {Null}
    BY <1>1 DEF IInv, DbGood, Row
  <1>3. ASSUME NEW r \in Rows
        PROVE  /\ db.row[r].status # "SUBMISSION_CREATED" => Offers(db.row[r]) = {}
               /\ db.row[r].status = "READY_FOR_SUBMISSION" => db.row[r].resource \in Resources
    BY <1>2 DEF RowGood, Unproposed, HasDecision, Offers
  <1> QED  BY <1>1, <1>2, <1>3

(* One row written, its version raised and nothing offered: a turn.        *)
LEMMA BookTurn ==
  ASSUME IInv, NEW r \in Rows, NEW new,
         new.version = db.row[r].version + 1, new.proposals = db.row[r].proposals,
         db'.row = [db.row EXCEPT ![r] = new], db'.price = db.price
  PROVE  Book!Turn(r, new.status, new.resource)
  <1>1. \A o \in Rows : db'.row[o] = IF o = r THEN new ELSE db.row[o]
    BY RowsTyped
  <1>2. [o \in Rows |-> db'.row[o].status]
          = [[o \in Rows |-> db.row[o].status] EXCEPT ![r] = new.status]
    BY <1>1
  <1>3. [o \in Rows |-> db'.row[o].resource]
          = [[o \in Rows |-> db.row[o].resource] EXCEPT ![r] = new.resource]
    BY <1>1
  <1>4. [o \in Rows |-> db'.row[o].version]
          = [[o \in Rows |-> db.row[o].version] EXCEPT ![r] = @ + 1]
    BY <1>1
  <1>5. \A o \in Rows : db'.row[o].proposals = db.row[o].proposals
    BY <1>1
  <1> QED  BY <1>2, <1>3, <1>4, <1>5 DEF Book!Turn

(* A decision commits as it was made.                                      *)
LEMMA DecisionBooked ==
  ASSUME IInv, NEW s \in Slots, CommitDecision(s)
  PROVE  Book!Next
  <1>0. At(s, Deciding, {"READ"})
    BY DEF CommitDecision
  <1>1. PICK x \in Request : /\ x = request[s] /\ x # Null
                             /\ x.ask.kind \in Deciding /\ x.stage = "READ"
                             /\ WellAsked(db, x.ask) /\ Found(db, x)
    BY <1>0, InFlight
  <1> DEFINE q == x.ask
             r == q.row
             old == db.row[r]
             new == x.row
  <1>2. /\ r \in Rows /\ MayTurn(q, old) /\ DecidedFrom(q, old, new)
    BY <1>1 DEF WellAsked, Found, Begun, Stages
  <1>3. db'.row = [db.row EXCEPT ![r] = new] /\ db'.price = db.price
    BY <1>1 DEF CommitDecision, Commit
  <1> HIDE DEF q, r, new
  <1>4. CASE q.kind = "REJECT"
    <2>1. /\ new.status = "REJECTED" /\ new.resource = old.resource
          /\ new.version = old.version + 1 /\ new.proposals = old.proposals
      BY <1>2, <1>4, TurnedFields DEF DecidedFrom
    <2>2. PICK c : c = old.resource
      OBVIOUS
    <2>3. Book!Turn(r, "REJECTED", c)
      BY <1>2, <1>3, <2>1, <2>2, BookTurn
    <2>4. c = [o \in Rows |-> db.row[o].resource][r]
      BY <1>2, <2>2
    <2>5. Book!Reject(r)
      BY <1>2, <2>3, <2>4 DEF Book!Reject, Book!Turn, MayTurn
    <2> QED  BY <1>2, <2>5 DEF Book!Next
  <1>5. CASE q.kind # "REJECT"
    <2>1. PICK next \in {"NEEDS_REVIEW", "READY_FOR_SUBMISSION"} : new = Given(old, q, next)
      BY <1>2, <1>5 DEF DecidedFrom
    <2>2. /\ new.status = next /\ new.resource = q.resource
          /\ new.version = old.version + 1 /\ new.proposals = old.proposals
      BY <2>1, TurnedFields DEF Given
    <2>3. Book!Turn(r, next, q.resource)
      BY <1>2, <1>3, <2>2, BookTurn
    <2>4. q.resource \in Resources /\ old.status = "NEEDS_REVIEW"
      BY <1>2, <1>5 DEF MayTurn
    <2>5. Book!Decide(r, q.resource)
      BY <1>2, <2>1, <2>3, <2>4 DEF Book!Decide
    <2> QED  BY <1>2, <2>4, <2>5 DEF Book!Next
  <1> QED  BY <1>4, <1>5

(* A decision is taken back, or a row reopened, from where it stands.      *)
LEMMA UndoingBooked ==
  ASSUME IInv, NEW s \in Slots, CommitUndoing(s)
  PROVE  Book!Next
  <1>0. At(s, Undoing, {"COUNTED", "LOCKED"})
    BY DEF CommitUndoing, At, Undoing
  <1>1. PICK x \in Request : /\ x = request[s] /\ x # Null
                             /\ x.ask.kind \in Undoing /\ x.stage \in {"COUNTED", "LOCKED"}
                             /\ WellAsked(db, x.ask) /\ Found(db, x)
    BY <1>0, InFlight
  <1> DEFINE r == x.ask.row
             old == db.row[r]
             new == x.row
  <1>2. r \in Rows /\ x.stage \in Begun
    BY <1>1 DEF WellAsked, Begun, Stages
  <1>3. db'.row = [db.row EXCEPT ![r] = new] /\ db'.price = db.price
    BY <1>1 DEF CommitUndoing, Commit
  <1>4. CASE x.ask.kind = "COMPENSATE"
    <2>1. MayWithdraw(old) /\ new = Withdrawn(old)
      BY <1>1, <1>2, <1>4 DEF Found
    <2> HIDE DEF new, r
    <2>2. /\ new.status = "NEEDS_REVIEW" /\ new.resource = Null
          /\ new.version = old.version + 1 /\ new.proposals = old.proposals
      BY <2>1, TurnedFields DEF Withdrawn
    <2>3. Book!Turn(r, "NEEDS_REVIEW", Null)
      BY <1>2, <1>3, <2>2, BookTurn
    <2>4. old.status = "READY_FOR_SUBMISSION" /\ old.resource \in Resources /\ Offers(old) = {}
      BY <1>2, <2>1, RowsTyped DEF MayWithdraw
    <2>5. Book!TakeBack(r)
      BY <1>2, <2>3, <2>4 DEF Book!TakeBack, Book!Ready, Offers
    <2> QED  BY <1>2, <2>5 DEF Book!Next
  <1>5. CASE x.ask.kind = "REOPEN"
    <2>1. MayReturn(old) /\ new = Reopened(old)
      BY <1>1, <1>2, <1>5 DEF Found
    <2> HIDE DEF new, r
    <2>2. /\ new.status = "NEEDS_REVIEW" /\ new.resource = Null
          /\ new.version = old.version + 1 /\ new.proposals = old.proposals
      BY <2>1, TurnedFields DEF Reopened, MayReturn
    <2>3. Book!Turn(r, "NEEDS_REVIEW", Null)
      BY <1>2, <1>3, <2>2, BookTurn
    <2>4. old.status = "REJECTED" /\ old.resource = Null /\ Offers(old) = {}
      BY <1>2, <2>1, RowsTyped DEF MayReturn
    <2>5. Book!Reopen(r)
      BY <1>2, <2>3, <2>4 DEF Book!Reopen, Offers
    <2> QED  BY <1>2, <2>5 DEF Book!Next
  <1> QED  BY <1>1, <1>4, <1>5 DEF Undoing

(* What a proposal adds to the offers of its row.                          *)
LEMMA OfferAdded ==
  ASSUME NEW x \in Row, NEW door, NEW c
  PROVE  Offers(Proposed(x, door, c)) = Offers(x) \cup {[door |-> door, resource |-> c]}
  <1> DEFINE m == [door |-> door, resource |-> c]
             new == Proposed(x, door, c)
             n == Len(x.proposals)
  <1>1. new.proposals = Append(x.proposals, m)
    BY ProposedAppends
  <1>2. x.proposals \in Seq(Proposal) /\ n \in Nat /\ DOMAIN x.proposals = 1..n
    BY DEF Row
  <1> HIDE DEF m, new
  <1>3. /\ DOMAIN new.proposals = 1..(n + 1) /\ new.proposals[n + 1] = m
        /\ \A k \in 1..n : new.proposals[k] = x.proposals[k]
    BY <1>1, <1>2
  <1>4. 1..(n + 1) = 1..n \cup {n + 1}
    BY <1>2
  <1>5. Offers(new) = Offers(x) \cup {m}
    BY <1>2, <1>3, <1>4 DEF Offers
  <1> QED  BY <1>5 DEF m, new

(* The rows locked one by one are submitted at once.                       *)
LEMMA SubmitBooked ==
  ASSUME IInv, NEW s \in Slots, CommitSubmit(s)
  PROVE  Book!Next \/ UNCHANGED Book!vars
  <1>0. At(s, {"SUBMIT"}, {"COUNTED"})
    BY DEF CommitSubmit
  <1>1. PICK x \in Request : /\ x = request[s] /\ x # Null
                             /\ x.ask.kind = "SUBMIT" /\ x.stage = "COUNTED"
                             /\ Found(db, x)
    BY <1>0, InFlight
  <1> DEFINE S == x.locked
  <1>2. S \in SUBSET Rows
    BY DEF Request
  <1>3. \A r \in S : db.row[r].status = "READY_FOR_SUBMISSION" /\ db.row[r].proposals = <<>>
    BY <1>1 DEF Found, WholeBatch, Begun, Stages
  <1>4. /\ db'.row = [r \in Rows |-> IF r \in S
                        THEN Proposed(db.row[r], "BATCH", db.row[r].resource) ELSE db.row[r]]
        /\ db'.price = db.price
    BY <1>1 DEF CommitSubmit, Commit
  <1> HIDE DEF S
  <1>5. ASSUME NEW r \in S
        PROVE  /\ db'.row[r].status = "SUBMISSION_CREATED"
               /\ db'.row[r].version = db.row[r].version
               /\ db'.row[r].resource = db.row[r].resource
               /\ Offers(db'.row[r]) = {[door |-> "BATCH", resource |-> db.row[r].resource]}
               /\ Offers(db.row[r]) = {} /\ db.row[r].resource \in Resources
    <2>1. /\ db.row[r] \in Row /\ Offers(db.row[r]) = {} /\ db.row[r].resource \in Resources
          /\ db'.row[r] = Proposed(db.row[r], "BATCH", db.row[r].resource)
      BY <1>2, <1>3, <1>4, RowsTyped
    <2> QED  BY <2>1, ProposedFields, OfferAdded
  <1>6. \A r \in Rows \ S : db'.row[r] = db.row[r]
    BY <1>4
  <1>7. UNCHANGED [r \in Rows |-> db.row[r].resource]
    BY <1>5, <1>6
  <1>8. UNCHANGED [r \in Rows |-> db.row[r].version]
    BY <1>5, <1>6
  <1>9. CASE S = {}
    <2>1. UNCHANGED [r \in Rows |-> db.row[r].status]
      BY <1>6, <1>9
    <2>2. UNCHANGED [r \in Rows |-> Offers(db.row[r])]
      BY <1>6, <1>9
    <2> QED  BY <1>4, <1>7, <1>8, <2>1, <2>2 DEF Book!vars, Offers
  <1>10. CASE S # {}
    <2>1. [r \in Rows |-> db'.row[r].status]
            = [r \in Rows |-> IF r \in S THEN "SUBMISSION_CREATED"
                              ELSE [o \in Rows |-> db.row[o].status][r]]
      BY <1>5, <1>6
    <2>2. [r \in Rows |-> Offers(db'.row[r])]
            = [r \in Rows |->
                 IF r \in S
                 THEN {[door |-> "BATCH", resource |-> [o \in Rows |-> db.row[o].resource][r]]}
                 ELSE [o \in Rows |-> Offers(db.row[o])][r]]
      BY <1>2, <1>5, <1>6
    <2>3. \A r \in S : Book!Ready(r) /\ [o \in Rows |-> Offers(db.row[o])][r] = {}
      BY <1>2, <1>3, <1>5 DEF Book!Ready
    <2>4. Book!SubmitBatch(S)
      BY <1>4, <1>7, <1>8, <1>10, <2>1, <2>2, <2>3 DEF Book!SubmitBatch, Offers
    <2> QED  BY <1>2, <2>4 DEF Book!Next
  <1> QED  BY <1>9, <1>10

(* Ready rows are kept at once, no resource twice.                         *)
LEMMA KeepBooked ==
  ASSUME IInv, NEW s \in Slots, CommitKeep(s)
  PROVE  Book!Next \/ UNCHANGED Book!vars
  <1>0. At(s, {"KEEP"}, {"LOCKED"})
    BY DEF CommitKeep
  <1>1. PICK x \in Request : /\ x = request[s] /\ x # Null
                             /\ x.ask.kind = "KEEP" /\ x.stage = "LOCKED" /\ Found(db, x)
    BY <1>0, InFlight
  <1> DEFINE chosen == IF x.ask.row = Null THEN x.locked ELSE {x.ask.row}
             S == Priced(chosen)
  <1>2. /\ chosen \subseteq x.locked
        /\ \A r \in S : db.row[r].resource # Null
        /\ db'.row = db.row
        /\ db'.price = [r \in Rows |-> IF r \in S THEN db.row[r].resource ELSE db.price[r]]
    BY <1>1 DEF CommitKeep, Commit
  <1>3. \A r \in x.locked : r \in Rows /\ db.row[r].status = "READY_FOR_SUBMISSION"
    BY <1>1 DEF Found, WholeBatch, Begun, Stages, Request
  <1> HIDE DEF chosen
  <1>4. S \subseteq chosen /\ S \in SUBSET Rows
    BY <1>2, <1>3 DEF Priced
  <1>5. CASE S = {}
    <2>1. db'.price = db.price
      BY <1>2, <1>5, RowsTyped
    <2> QED  BY <1>2, <2>1 DEF Book!vars
  <1>6. CASE S # {}
    <2>1. ASSUME NEW r \in S
          PROVE  Book!Ready(r)
      BY <1>2, <1>3, <1>4, RowsTyped DEF Book!Ready
    <2>2. ASSUME NEW r \in S
          PROVE  db.price[r] = Null /\ \A o \in Rows : db.price[o] # db.row[r].resource
      BY DEF Priced
    <2>3. ASSUME NEW r \in S, NEW o \in S \ {r}
          PROVE  db.row[o].resource # db.row[r].resource
      <3>1. r \in Nat /\ o \in Nat
        BY <1>4, RowsAssumption
      <3>2. r < o \/ o < r
        BY <3>1
      <3>3. r \in chosen /\ o \in chosen /\ db.price[r] = Null /\ db.price[o] = Null
        BY DEF Priced
      <3> QED  BY <3>2, <3>3 DEF Priced
    <2> HIDE DEF S
    <2>4. Book!Keep(S)
      BY <1>2, <1>4, <1>6, <2>1, <2>2, <2>3 DEF Book!Keep
    <2> QED  BY <1>4, <2>4 DEF Book!Next
  <1> QED  BY <1>5, <1>6

(* A private price is proposed on its own once.                            *)
LEMMA DetailBooked ==
  ASSUME IInv, NEW s \in Slots, CommitDetail(s)
  PROVE  Book!Next
  <1>0. At(s, {"DETAIL"}, {"LOCKED"})
    BY DEF CommitDetail
  <1>1. PICK x \in Request : /\ x = request[s] /\ x # Null
                             /\ x.ask.kind = "DETAIL" /\ x.stage = "LOCKED"
                             /\ WellAsked(db, x.ask) /\ Found(db, x)
    BY <1>0, InFlight
  <1> DEFINE r == x.ask.row
             c == db.price[r]
             new == Proposed(db.row[r], "DETAIL", c)
             m == [door |-> "DETAIL", resource |-> c]
  <1>2. r \in Rows /\ c \in Resources /\ NoDetail(db.row[r])
    BY <1>1, RowsTyped DEF WellAsked, Found, Begun, Stages
  <1>3. db'.row = [db.row EXCEPT ![r] = new] /\ db'.price = db.price
    BY <1>1 DEF CommitDetail, Commit
  <1>4. /\ new.status = "SUBMISSION_CREATED" /\ new.version = db.row[r].version
        /\ new.resource = db.row[r].resource /\ Offers(new) = Offers(db.row[r]) \cup {m}
    BY <1>2, RowsTyped, ProposedFields, OfferAdded
  <1> HIDE DEF r, new
  <1>5. \A o \in Rows : db'.row[o] = IF o = r THEN new ELSE db.row[o]
    BY <1>2, <1>3, RowsTyped
  <1>6. [o \in Rows |-> db'.row[o].status]
          = [[o \in Rows |-> db.row[o].status] EXCEPT ![r] = "SUBMISSION_CREATED"]
    BY <1>4, <1>5
  <1>7. [o \in Rows |-> Offers(db'.row[o])]
          = [[o \in Rows |-> Offers(db.row[o])] EXCEPT ![r] = @ \cup {m}]
    BY <1>2, <1>4, <1>5
  <1>8. UNCHANGED [o \in Rows |-> db.row[o].resource]
    BY <1>4, <1>5
  <1>9. UNCHANGED [o \in Rows |-> db.row[o].version]
    BY <1>4, <1>5
  <1>10. \A o \in Offers(db.row[r]) : o.door # "DETAIL"
    BY <1>2 DEF NoDetail, Offers
  <1>11. Book!SubmitPrice(r)
    BY <1>2, <1>3, <1>6, <1>7, <1>8, <1>9, <1>10 DEF Book!SubmitPrice, Offers
  <1> QED  BY <1>2, <1>11 DEF Book!Next

(* Every step is one of the book or leaves it alone.                       *)
LEMMA BookStep == IInv /\ [Next]_vars => [Book!Next]_(Book!vars)
  <1> SUFFICES ASSUME IInv, [Next]_vars
               PROVE  Book!Next \/ UNCHANGED Book!vars
    OBVIOUS
  <1>1. CASE db' = db
    BY <1>1 DEF Book!vars
  <1>2. ASSUME NEW s \in Slots, Asking(s)
        PROVE  db' = db
    BY <1>2 DEF Asking, AskResolve, AskAccept, AskAdmit, AskReject, AskCompensate, AskReopen,
                AskDetail, Ask, Goes
  <1>3. ASSUME NEW s \in Slots, Step(s)
        PROVE  \/ db' = db
               \/ CommitDecision(s) \/ CommitUndoing(s)
               \/ CommitSubmit(s) \/ CommitKeep(s) \/ CommitDetail(s)
    BY <1>3 DEF Step, Decide, CountPending, ReadBatch, Start, TakeBack, LockResource,
                LockBatch, LockRow, CountUndecided, LockPrice, End, Goes
  <1>4. ASSUME Next
        PROVE  \E s \in Slots : Asking(s) \/ Step(s)
    BY <1>4 DEF Next, Asking
  <1> QED
    BY <1>1, <1>2, <1>3, <1>4, DecisionBooked, UndoingBooked, SubmitBooked, KeepBooked,
       DetailBooked DEF vars

(* A batch just read in is a book nobody has written in.                   *)
LEMMA BookInit == Init => Book!Init
  BY DEF Init, Book!Init

(* The transactions on rows and private prices are serialisable: each      *)
(* commit of resolveRow, compensateOwnDecision, reopenRejectedRow,         *)
(* submitBatch, keepBatchPrivate and submitPrivatePrice is one step of the *)
(* book, allowed by what stands when it is written.                        *)
THEOREM BookImplemented == Spec => ImplementsBook
  BY Invariance, BookInit, BookStep, PTL DEF Spec, ImplementsBook, Book!Spec

=============================================================================
