------------------------- MODULE RabLifecycleProofs -------------------------
(* Theorems about RabLifecycle, for every value of its constants.          *)
EXTENDS RabLifecycle, TLAPS

-----------------------------------------------------------------------------
(* Arithmetic of money *)

(* A product of two quantities is a quantity.                              *)
LEMMA ProductType == \A a, b \in Nat : a * b \in Nat
  OBVIOUS

(* Rounding to cents stays within the money the columns hold.              *)
LEMMA CentsType == \A x \in Nat : Cents(x) \in Nat
  BY DEF Cents

(* A sum of cents is rounded to itself.                                    *)
LEMMA CentsExact == \A n \in Nat : 10 * n \in Nat /\ Cents(10 * n) = n
  BY DEF Cents

(* The kernel's money for a resolved basis is money.                       *)
LEMMA KernelMoneyType ==
  ASSUME NEW b \in Basis, b.price # Null, NEW q \in Nat
  PROVE  KernelUnitPrice(b) \in Nat /\ KernelLineTotal(b, q) \in Nat
<1> DEFINE h == HalfCost[b.version][b.price]
<1>1. h \in Nat
  BY MoneyAssumption DEF Basis
<1>2. 2 * h \in Nat /\ q * h \in Nat
  BY <1>1, ProductType
<1> QED
  BY <1>2, CentsType DEF KernelUnitPrice, KernelLineTotal

-----------------------------------------------------------------------------
(* Rows the handlers write are rows *)

(* Money comes in pairs and says where it comes from: the truth constraint *)
(* of the boq_items table.                                                 *)
MoneyPaired(r) ==
  /\ r.unitPrice = Null <=> r.origin = Null
  /\ r.lineTotal = Null <=> r.origin = Null
  /\ r.origin = "MANUAL_CLIENT" =>
       r.lineTotal = Cents(ManualTenths(r.quantity, r.unitPrice))

RowOK(r) == r \in Row /\ MoneyPaired(r)

(* A partial function takes its arguments and values from its two sets.    *)
LEMMA PartialType ==
  ASSUME NEW S, NEW T, NEW f \in Partial(S, T)
  PROVE  DOMAIN f \subseteq S /\ f \in [DOMAIN f -> T]
  BY DEF Partial

(* A client's line is money before and after it is rounded.                *)
LEMMA ManualMoneyType ==
  ASSUME NEW q \in Nat, NEW p \in Nat
  PROVE  ManualTenths(q, p) \in Nat /\ Cents(ManualTenths(q, p)) \in Nat
<1>1. 5 * q \in Nat
  BY ProductType
<1>2. ManualTenths(q, p) \in Nat
  BY <1>1, ProductType DEF ManualTenths
<1> QED
  BY <1>2, CentsType

(* A row written from a request body is well formed and carries no         *)
(* association.                                                            *)
LEMMA FreshRowOK ==
  ASSUME NEW s,
         s.quantity \in Quantities \cup {Undefined},
         s.unit \in BOOLEAN,
         s.unitPrice \in ManualPrices \cup {Null, Undefined}
  PROVE  /\ RowOK(FreshRow(s))
         /\ ~ServerRow(FreshRow(s))
<1> DEFINE q == IF s.quantity = Undefined THEN NoQuantity ELSE s.quantity
           p == IF s.unitPrice = Undefined THEN Null ELSE s.unitPrice
           t == IF p = Null THEN Null ELSE Cents(ManualTenths(q, p))
           o == IF p = Null THEN Null ELSE "MANUAL_CLIENT"
<1>1. q \in Nat
  BY MoneyAssumption DEF NoQuantity
<1>2. p \in Nat \cup {Null} /\ (p # Null => p \in Nat)
  BY MoneyAssumption
<1>3. t \in Nat \cup {Null} /\ (p # Null => t \in Nat)
  BY <1>1, <1>2, ManualMoneyType
<1>4. FreshRow(s) = [quantity |-> q, unit |-> s.unit, unitPrice |-> p,
                     lineTotal |-> t, origin |-> o,
                     version |-> Null, working |-> Null, calc |-> Null]
  BY DEF FreshRow
<1>5. FreshRow(s) \in Row
  BY <1>1, <1>2, <1>3, <1>4 DEF Row
<1> HIDE DEF q
<1>6. MoneyPaired(FreshRow(s)) /\ ~ServerRow(FreshRow(s))
  BY <1>2, <1>3, <1>4, NullAssumption DEF MoneyPaired, ServerRow
<1> QED
  BY <1>5, <1>6 DEF RowOK

(* A save keeps the money of a server row and its quantity or loses the    *)
(* latter; whatever it does, the row is well formed.                       *)
LEMMA ReplacedRowOK ==
  ASSUME NEW r, RowOK(r), NEW s \in Submission
  PROVE  /\ RowOK(ReplacedRow(r, s))
         /\ ServerRow(ReplacedRow(r, s)) <=> ServerRow(r)
         /\ ServerRow(r) => /\ ReplacedRow(r, s).unitPrice = r.unitPrice
                            /\ ReplacedRow(r, s).lineTotal = r.lineTotal
                            /\ ReplacedRow(r, s).calc = r.calc
<1> DEFINE new == FreshRow(s)
           kept == s.sameWork /\ s.unit = r.unit
           bound == [new EXCEPT !.version = IF kept THEN r.version ELSE Null,
                                !.working = IF kept THEN r.working ELSE Null]
           server == [bound EXCEPT !.unitPrice = r.unitPrice,
                                   !.lineTotal = r.lineTotal,
                                   !.origin = r.origin, !.calc = r.calc]
<1>1. RowOK(new) /\ ~ServerRow(new)
  BY FreshRowOK DEF Submission
<1>2. ReplacedRow(r, s) = IF r.origin = "SERVER_COST_KERNEL" THEN server ELSE bound
  BY DEF ReplacedRow
<1> HIDE DEF new, kept
<1>3. bound \in Row /\ MoneyPaired(bound) /\ ~ServerRow(bound)
  <2>1. bound \in Row
    <3> DEFINE v == IF kept THEN r.version ELSE Null
               b == IF kept THEN r.working ELSE Null
    <3>1. v \in Versions \cup {Null} /\ b \in Basis \cup {Null}
      BY DEF RowOK, Row
    <3>2. bound = [new EXCEPT !.version = v, !.working = b]
      OBVIOUS
    <3> HIDE DEF v, b, bound
    <3> QED
      BY <1>1, <3>1, <3>2 DEF RowOK, Row
  <2>2. \A f \in {"quantity", "unit", "unitPrice", "lineTotal", "origin", "calc"} :
          bound[f] = new[f]
    BY <1>1 DEF RowOK, Row
  <2>3. MoneyPaired(bound) /\ ~ServerRow(bound)
    <3> HIDE DEF bound
    <3> QED
      BY <1>1, <2>2 DEF RowOK, MoneyPaired, ServerRow
  <2> QED
    BY <2>1, <2>3
<1> HIDE DEF bound
<1>4. CASE r.origin = "SERVER_COST_KERNEL"
  <2>1. server \in Row
    BY <1>3 DEF RowOK, Row
  <2>2. /\ server.origin = r.origin /\ server.unitPrice = r.unitPrice
        /\ server.lineTotal = r.lineTotal /\ server.calc = r.calc
    BY <1>3 DEF Row
  <2> QED
    BY <1>2, <1>4, <2>1, <2>2 DEF RowOK, MoneyPaired, ServerRow
<1>5. CASE r.origin # "SERVER_COST_KERNEL"
  BY <1>2, <1>3, <1>5 DEF RowOK, ServerRow
<1> QED
  BY <1>4, <1>5

(* What a calculation writes is re-provable there and then.                *)
LEMMA CalculatedRowOK ==
  ASSUME NEW r, RowOK(r), r.working # Null, Calculable(r, r.working)
  PROVE  /\ RowOK(CalculatedRow(r))
         /\ Reproves(CalculatedRow(r))
         /\ CalculatedRow(r).working = Null
         /\ CalculatedRow(r).calc = r.working
<1> DEFINE c == CalculatedRow(r)
<1>1. r.working \in Basis /\ r.quantity \in Nat /\ r.working.price # Null
  BY DEF RowOK, Row, Calculable
<1>2. KernelUnitPrice(r.working) \in Nat /\ KernelLineTotal(r.working, r.quantity) \in Nat
  BY <1>1, KernelMoneyType
<1>3. c \in Row
  BY <1>1, <1>2 DEF CalculatedRow, RowOK, Row
<1>4. /\ c.quantity = r.quantity /\ c.unit = r.unit /\ c.version = r.version
      /\ c.unitPrice = KernelUnitPrice(r.working)
      /\ c.lineTotal = KernelLineTotal(r.working, r.quantity)
      /\ c.origin = "SERVER_COST_KERNEL"
      /\ c.calc = r.working /\ c.working = Null
  BY DEF CalculatedRow, RowOK, Row
<1> HIDE DEF c
<1>5. MoneyPaired(c)
  BY <1>2, <1>4, NullAssumption DEF MoneyPaired
<1>6. Reproves(c)
  BY <1>4, NullAssumption DEF Reproves, Calculable
<1> QED
  BY <1>3, <1>4, <1>5, <1>6 DEF RowOK, c

-----------------------------------------------------------------------------
(* The inductive invariant.  FrozenRowsProven is not inductive: the lock   *)
(* commits on findings it gathered earlier and on a total it never         *)
(* recomputes, so the invariant also says what a running lock knows        *)
(* (LockKnowledge) and that a total, once a row is priced by the server,   *)
(* is exact for server rows (TotalTight).                                  *)

RowsOK == \A i \in DOMAIN rows : RowOK(rows[i])

DocumentOK ==
  /\ rab.status = "NONE" => rab.total = Null
  /\ Frozen <=> rab.lockedBy # Null
  /\ ApprovedIffBaseline

SomeServerRow == \E i \in DOMAIN rows : ServerRow(rows[i])

TrueTotal ==
  /\ DOMAIN rab.total = DOMAIN rows
  /\ \A i \in DOMAIN rows :
       /\ rows[i].unitPrice # Null
       /\ Cents(rab.total[i]) = rows[i].lineTotal
       /\ ServerRow(rows[i]) => rab.total[i] = 10 * rows[i].lineTotal

TotalTight ==
  SomeServerRow => rab.total = Null \/ TrueTotal

LockKnowledge ==
  lockTx # Null =>
    /\ rab.status = "DRAFT"
    /\ DOMAIN rows # {}
    /\ lockTx.done \subseteq lockTx.priced
    /\ lockTx.priced \subseteq DOMAIN rows
    /\ market.chosen \in lockTx.offered
    /\ \A v \in Versions : EligibleVersion(v) => v \in lockTx.lawful
    /\ ~lockTx.findings =>
         /\ \A i \in lockTx.priced : /\ Reproves(rows[i])
                                     /\ rows[i].working = Null
                                     /\ rows[i].calc.price \in lockTx.offered
         /\ \A i \in lockTx.done : rows[i].version \in lockTx.lawful

IInv ==
  /\ TypeOK
  /\ RowsOK
  /\ DocumentOK
  /\ TotalTight
  /\ LockKnowledge
  /\ FrozenRowsProven

-----------------------------------------------------------------------------
(* Steps that leave the draft alone *)

LockTxType ==
  lockTx # Null =>
    lockTx \in [holder : Users, priced : SUBSET Items, done : SUBSET Items,
               findings : BOOLEAN, offered : SUBSET (Prices \cup {Null}),
               lawful : SUBSET Versions]

(* A step that leaves rows, document and baselines alone keeps the         *)
(* invariant when it keeps what it may know of the authorities.            *)
LEMMA QuietStep ==
  ASSUME IInv, UNCHANGED draft,
         deleted' \in BOOLEAN, admitted' \subseteq Users,
         market' \in Market, versions' \in [Versions -> VersionStatus],
         LockTxType', LockKnowledge'
  PROVE  IInv'
<1>1. rows' = rows /\ rab' = rab /\ baselines' = baselines
  BY DEF draft
<1>2. TypeOK'
  BY <1>1 DEF IInv, TypeOK, LockTxType
<1>3. RowsOK' /\ DocumentOK' /\ FrozenRowsProven'
  BY <1>1 DEF IInv, RowsOK, DocumentOK, Frozen, ApprovedIffBaseline,
              FrozenRowsProven, LineSum
<1>4. TotalTight'
  BY <1>1 DEF IInv, TotalTight, SomeServerRow, TrueTotal
<1> QED
  BY <1>2, <1>3, <1>4 DEF IInv

(* Nothing but the requests and the discard flag moves.                    *)
LEMMA AnswerStep ==
  ASSUME IInv, UNCHANGED <<draft, authorities, lockTx>>,
         deleted' \in BOOLEAN, admitted' \subseteq Users
  PROVE  IInv'
<1>1. UNCHANGED <<rows, rab, market, versions, lockTx>>
  BY DEF draft, authorities
<1>2. LockTxType'
  BY <1>1 DEF IInv, TypeOK, LockTxType
<1>3. LockKnowledge'
  BY <1>1 DEF IInv, LockKnowledge, EligibleVersion
<1>4. market' \in Market /\ versions' \in [Versions -> VersionStatus]
  BY <1>1 DEF IInv, TypeOK
<1> QED
  BY <1>2, <1>3, <1>4, QuietStep

(* A lock starts knowing nothing but the answers of this moment.           *)
LEMMA BeginLockStep ==
  ASSUME IInv, NEW u \in Users, BeginLock(u)
  PROVE  IInv'
<1>1. /\ UNCHANGED <<draft, deleted, admitted, market, versions>>
      /\ rows' = rows /\ rab' = rab
      /\ rab.status = "DRAFT" /\ DOMAIN rows # {}
      /\ lockTx' = [holder |-> u, priced |-> {}, done |-> {}, findings |-> FALSE,
                    offered |-> {market.chosen},
                    lawful |-> {v \in Versions : EligibleVersion(v)}]
  BY DEF BeginLock, authorities, draft
<1>2. market.chosen \in Prices \cup {Null}
  BY DEF IInv, TypeOK, Market
<1>3. LockTxType'
  BY <1>1, <1>2 DEF LockTxType
<1>4. LockKnowledge'
  BY <1>1 DEF LockKnowledge, EligibleVersion
<1> QED
  BY <1>1, <1>3, <1>4, QuietStep DEF IInv, TypeOK

(* A row whose price is checked stands on a price that was offered, or     *)
(* the lock has a finding.                                                 *)
LEMMA CheckPriceStep ==
  ASSUME IInv, NEW i \in Items, CheckPrice(i)
  PROVE  IInv'
<1> DEFINE ok == RowStands(rows[i])
<1>1. /\ UNCHANGED <<draft, deleted, admitted, market, versions>>
      /\ rows' = rows /\ rab' = rab
      /\ lockTx # Null /\ i \in DOMAIN rows
      /\ lockTx.priced = lockTx.done
      /\ lockTx' = [lockTx EXCEPT !.priced = @ \cup {i},
                                  !.done = IF ok THEN @ ELSE @ \cup {i},
                                  !.findings = @ \/ ~ok]
  BY DEF CheckPrice, authorities, draft
<1>2. lockTx \in [holder : Users, priced : SUBSET Items, done : SUBSET Items,
                  findings : BOOLEAN, offered : SUBSET (Prices \cup {Null}),
                  lawful : SUBSET Versions]
  BY <1>1 DEF IInv, TypeOK
<1>3. ok \in BOOLEAN
  BY DEF RowStands, Reproves
<1>4. ok => /\ Reproves(rows[i]) /\ rows[i].working = Null
            /\ rows[i].calc.price = market.chosen
  BY DEF RowStands
<1> HIDE DEF ok
<1>5. /\ lockTx'.priced = lockTx.priced \cup {i}
      /\ lockTx'.done = IF ok THEN lockTx.done ELSE lockTx.done \cup {i}
      /\ lockTx'.findings = (lockTx.findings \/ ~ok)
      /\ lockTx'.offered = lockTx.offered /\ lockTx'.lawful = lockTx.lawful
      /\ lockTx'.holder = lockTx.holder
  BY <1>1, <1>2
<1>6. LockTxType'
  BY <1>1, <1>2, <1>3 DEF LockTxType
<1>7. LockKnowledge'
  BY <1>1, <1>4, <1>5 DEF IInv, LockKnowledge, EligibleVersion
<1> QED
  BY <1>1, <1>6, <1>7, QuietStep DEF IInv, TypeOK

(* A row whose version is checked stands on a version that was lawful,     *)
(* or the lock has a finding.                                              *)
LEMMA CheckVersionStep ==
  ASSUME IInv, NEW i \in Items, CheckVersion(i)
  PROVE  IInv'
<1> DEFINE ok == EligibleVersion(rows[i].version)
<1>1. /\ UNCHANGED <<draft, deleted, admitted, market, versions>>
      /\ rows' = rows /\ rab' = rab
      /\ lockTx # Null /\ i \in lockTx.priced
      /\ lockTx' = [lockTx EXCEPT !.done = @ \cup {i},
                                  !.findings = @ \/ ~ok]
  BY DEF CheckVersion, authorities, draft
<1>2. lockTx \in [holder : Users, priced : SUBSET Items, done : SUBSET Items,
                  findings : BOOLEAN, offered : SUBSET (Prices \cup {Null}),
                  lawful : SUBSET Versions]
  BY <1>1 DEF IInv, TypeOK
<1>3. ok \in BOOLEAN
  BY DEF EligibleVersion
<1>4. ~lockTx.findings /\ ok => rows[i].version \in lockTx.lawful
  <2>1. SUFFICES ASSUME ~lockTx.findings, ok
                 PROVE  rows[i].version \in lockTx.lawful
    OBVIOUS
  <2>2. Reproves(rows[i]) /\ i \in DOMAIN rows
    BY <1>1, <2>1 DEF IInv, LockKnowledge
  <2>3. rows[i] \in Row
    BY <2>2 DEF IInv, RowsOK, RowOK
  <2>4. rows[i].calc \in Basis /\ rows[i].version = rows[i].calc.version
    BY <2>2, <2>3 DEF Reproves, Calculable, Row
  <2>5. rows[i].version \in Versions
    BY <2>4 DEF Basis
  <2> QED
    BY <1>1, <2>1, <2>5 DEF IInv, LockKnowledge
<1> HIDE DEF ok
<1>5. /\ lockTx'.done = lockTx.done \cup {i}
      /\ lockTx'.findings = (lockTx.findings \/ ~ok)
      /\ lockTx'.priced = lockTx.priced
      /\ lockTx'.offered = lockTx.offered /\ lockTx'.lawful = lockTx.lawful
  BY <1>1, <1>2
<1>6. LockTxType'
  BY <1>1, <1>2, <1>3 DEF LockTxType
<1>7. LockKnowledge'
  BY <1>1, <1>4, <1>5 DEF IInv, LockKnowledge, EligibleVersion
<1> QED
  BY <1>1, <1>6, <1>7, QuietStep DEF IInv, TypeOK

(* A refused lock forgets everything and has written nothing.              *)
LEMMA RefuseLockStep ==
  ASSUME IInv, RefuseLock
  PROVE  IInv'
<1>1. /\ UNCHANGED <<draft, deleted, market, versions>>
      /\ lockTx' = Null /\ admitted' = admitted \ {lockTx.holder}
  BY DEF RefuseLock, authorities, Answers
<1>2. LockTxType' /\ LockKnowledge'
  BY <1>1 DEF LockTxType, LockKnowledge
<1> QED
  BY <1>1, <1>2, QuietStep DEF IInv, TypeOK

(* The authorities may move under a running lock: what it has been told so *)
(* far stays told, and the new answers are noted.                          *)
LEMMA AuthoritiesStep ==
  ASSUME IInv, UNCHANGED <<draft, deleted, admitted>>,
         market' \in Market, versions' \in [Versions -> VersionStatus],
         Witness(market', versions')
  PROVE  IInv'
<1> DEFINE now == {v \in Versions : versions'[v] \in {"DRAFT", "PUBLISHED"}}
<1>1. rows' = rows /\ rab' = rab
  BY DEF draft
<1>2. CASE lockTx = Null
  <2>1. lockTx' = Null
    BY <1>2 DEF Witness
  <2>2. LockTxType' /\ LockKnowledge'
    BY <2>1 DEF LockTxType, LockKnowledge
  <2> QED
    BY <2>2, QuietStep DEF IInv, TypeOK
<1>3. CASE lockTx # Null
  <2>1. lockTx' = [lockTx EXCEPT !.offered = @ \cup {market'.chosen},
                                 !.lawful = @ \cup now]
    BY <1>3 DEF Witness
  <2>2. lockTx \in [holder : Users, priced : SUBSET Items, done : SUBSET Items,
                    findings : BOOLEAN, offered : SUBSET (Prices \cup {Null}),
                    lawful : SUBSET Versions]
    BY <1>3 DEF IInv, TypeOK
  <2>3. market'.chosen \in Prices \cup {Null}
    BY DEF Market
  <2>4. LockTxType'
    BY <2>1, <2>2, <2>3 DEF LockTxType
  <2>5. /\ lockTx'.priced = lockTx.priced /\ lockTx'.done = lockTx.done
        /\ lockTx'.findings = lockTx.findings
        /\ lockTx'.offered = lockTx.offered \cup {market'.chosen}
        /\ lockTx'.lawful = lockTx.lawful \cup now
    BY <2>1, <2>2
  <2>6. LockKnowledge'
    BY <1>1, <1>3, <2>5 DEF IInv, LockKnowledge, EligibleVersion
  <2> QED
    BY <2>4, <2>6, QuietStep DEF IInv, TypeOK
<1> QED
  BY <1>2, <1>3

(* Publications and AHSP versions are such moves.                          *)
LEMMA EnvironmentStep ==
  ASSUME IInv, Environment
  PROVE  IInv'
<1>1. CASE MoveMarket
  <2>1. /\ market' \in Market /\ Witness(market', versions)
        /\ UNCHANGED <<draft, deleted, admitted, versions>>
    BY <1>1 DEF MoveMarket
  <2> QED
    BY <2>1, AuthoritiesStep DEF IInv, TypeOK
<1>2. ASSUME NEW v \in Versions, CreateAhspVersion(v)
      PROVE  IInv'
  <2>1. /\ UNCHANGED <<draft, deleted, admitted, market>>
        /\ Witness(market, versions')
        /\ versions' \in [Versions -> VersionStatus]
    BY <1>2 DEF CreateAhspVersion, IInv, TypeOK, VersionStatus
  <2> QED
    BY <2>1, AuthoritiesStep DEF IInv, TypeOK
<1>3. ASSUME NEW v \in Versions, NEW status \in {"SUPERSEDED", "ARCHIVED"},
             RetireAhspVersion(v, status)
      PROVE  IInv'
  <2>1. /\ UNCHANGED <<draft, deleted, admitted, market>>
        /\ Witness(market, versions')
        /\ versions' \in [Versions -> VersionStatus]
    BY <1>3 DEF RetireAhspVersion, IInv, TypeOK, VersionStatus
  <2> QED
    BY <2>1, AuthoritiesStep DEF IInv, TypeOK
<1> QED
  BY <1>1, <1>2, <1>3 DEF Environment

-----------------------------------------------------------------------------
(* Steps that edit an open draft *)

RowsType == DOMAIN rows \subseteq Items /\ rows \in [DOMAIN rows -> Row]

RabType ==
  /\ rab.status \in {"NONE", "DRAFT", "LOCKED", "APPROVED"}
  /\ rab.total # Null =>
       DOMAIN rab.total \subseteq Items /\ rab.total \in [DOMAIN rab.total -> Nat]
  /\ rab.lockedBy \in Users \cup {Null}
  /\ rab = [status |-> rab.status, total |-> rab.total, lockedBy |-> rab.lockedBy]

(* An edit of an open draft keeps the invariant when what it writes is     *)
(* well formed and the total it leaves is tight.                           *)
LEMMA EditStep ==
  ASSUME IInv, lockTx = Null, ~Frozen,
         UNCHANGED <<baselines, deleted, authorities, lockTx>>,
         admitted' \subseteq Users,
         RowsType', RowsOK', RabType',
         ~Frozen', rab'.lockedBy = rab.lockedBy,
         rab'.status = "NONE" => rab'.total = Null,
         TotalTight'
  PROVE  IInv'
<1>1. UNCHANGED <<baselines, deleted, market, versions, lockTx>>
  BY DEF authorities
<1>2. TypeOK'
  BY <1>1 DEF IInv, TypeOK, RowsType, RabType
<1>3. DocumentOK'
  BY <1>1 DEF IInv, DocumentOK, ApprovedIffBaseline, Frozen
<1>4. LockKnowledge' /\ FrozenRowsProven'
  BY <1>1 DEF LockKnowledge, FrozenRowsProven
<1> QED
  BY <1>2, <1>3, <1>4 DEF IInv

(* The draft's document may be edited exactly while it is not frozen.      *)
LEMMA EditableIsOpen ==
  ASSUME IInv
  PROVE  CanEditDraft <=> ~Frozen
  BY DEF IInv, TypeOK, DocumentOK, ApprovedIffBaseline, CanEditDraft, Frozen

(* Stating a total leaves the document open.                               *)
LEMMA StateTotalOpen ==
  ASSUME RabType, ~Frozen, NEW t, StateTotal(t),
         t # Null => DOMAIN t \subseteq Items /\ t \in [DOMAIN t -> Nat]
  PROVE  /\ RabType' /\ ~Frozen' /\ rab'.lockedBy = rab.lockedBy
         /\ rab'.status = "DRAFT" /\ rab'.total = t
<1>1. rab' = [status |-> "DRAFT", total |-> t, lockedBy |-> rab.lockedBy]
  BY DEF StateTotal, RabType
<1> QED
  BY <1>1 DEF RabType, Frozen

(* Withdrawing the total leaves the document open.                         *)
LEMMA WithdrawTotalOpen ==
  ASSUME RabType, ~Frozen, rab' = [rab EXCEPT !.total = Null]
  PROVE  /\ RabType' /\ ~Frozen' /\ rab'.lockedBy = rab.lockedBy
         /\ rab'.total = Null
<1>1. rab' = [status |-> rab.status, total |-> Null, lockedBy |-> rab.lockedBy]
  BY DEF RabType
<1> QED
  BY <1>1 DEF RabType, Frozen

(* The rows of a save are those of its body, and well formed.              *)
LEMMA SavedRowsOK ==
  ASSUME RowsOK, NEW body \in Partial(Items, Submission)
  PROVE  /\ DOMAIN SavedRows(body) = DOMAIN body
         /\ DOMAIN body \subseteq Items
         /\ \A i \in DOMAIN body : RowOK(SavedRows(body)[i])
<1>1. DOMAIN body \subseteq Items /\ body \in [DOMAIN body -> Submission]
  BY PartialType
<1>2. ASSUME NEW i \in DOMAIN body
      PROVE  RowOK(SavedRows(body)[i])
  <2>1. body[i] \in Submission
    BY <1>1
  <2>2. CASE i \in DOMAIN rows
    <3>1. RowOK(rows[i])
      BY <2>2 DEF RowsOK
    <3>2. RowOK(ReplacedRow(rows[i], body[i]))
      BY <2>1, <3>1, ReplacedRowOK
    <3> QED
      BY <2>2, <3>2 DEF SavedRows
  <2>3. CASE i \notin DOMAIN rows
    <3>1. RowOK(FreshRow(body[i]))
      BY <2>1, FreshRowOK DEF Submission
    <3> QED
      BY <2>3, <3>1 DEF SavedRows
  <2> QED
    BY <2>2, <2>3
<1> QED
  BY <1>1, <1>2 DEF SavedRows

(* A saved total is the total of the saved lines, to the rounding of       *)
(* manual ones.                                                            *)
LEMMA SavedSumTrue ==
  ASSUME NEW rs, \A i \in DOMAIN rs : RowOK(rs[i]), Priced(rs)
  PROVE  /\ DOMAIN SavedSum(rs) = DOMAIN rs
         /\ SavedSum(rs) \in [DOMAIN rs -> Nat]
         /\ \A i \in DOMAIN rs :
              /\ Cents(SavedSum(rs)[i]) = rs[i].lineTotal
              /\ ServerRow(rs[i]) => SavedSum(rs)[i] = 10 * rs[i].lineTotal
<1>1. ASSUME NEW i \in DOMAIN rs
      PROVE  /\ SavedSum(rs)[i] \in Nat
             /\ Cents(SavedSum(rs)[i]) = rs[i].lineTotal
             /\ ServerRow(rs[i]) => SavedSum(rs)[i] = 10 * rs[i].lineTotal
  <2>1. /\ RowOK(rs[i]) /\ rs[i].unitPrice # Null
        /\ rs[i].quantity \in Nat /\ rs[i].unitPrice \in Nat
        /\ rs[i].lineTotal \in Nat
    BY DEF Priced, RowOK, Row, MoneyPaired
  <2>2. CASE rs[i].origin = "MANUAL_CLIENT"
    <3>1. SavedSum(rs)[i] = ManualTenths(rs[i].quantity, rs[i].unitPrice)
      BY <2>2 DEF SavedSum
    <3>2. ManualTenths(rs[i].quantity, rs[i].unitPrice) \in Nat
      BY <2>1, ManualMoneyType
    <3> QED
      BY <2>1, <2>2, <3>1, <3>2 DEF RowOK, MoneyPaired, ServerRow
  <2>3. CASE rs[i].origin # "MANUAL_CLIENT"
    <3>1. SavedSum(rs)[i] = 10 * rs[i].lineTotal
      BY <2>3 DEF SavedSum
    <3> QED
      BY <2>1, <3>1, CentsExact
  <2> QED
    BY <2>2, <2>3
<1>2. SavedSum(rs) = [i \in DOMAIN rs |-> SavedSum(rs)[i]]
  BY DEF SavedSum
<1> QED
  BY <1>1, <1>2

(* A save states the total of the lines it writes, or none.                *)
LEMMA SaveDraftStep ==
  ASSUME IInv, NEW u \in Users, SaveDraft(u)
  PROVE  IInv'
<1>1. PICK body \in Partial(Items, Submission) :
        /\ ServerRowsProtected(body)
        /\ rows' = SavedRows(body)
        /\ IF Priced(rows') THEN StateTotal(SavedSum(rows'))
           ELSE rab' = [rab EXCEPT !.total = Null]
  BY DEF SaveDraft
<1>2. /\ lockTx = Null /\ CanEditDraft /\ admitted' = admitted \ {u}
      /\ UNCHANGED <<baselines, deleted, authorities, lockTx>>
  BY DEF SaveDraft, Runs, Answers
<1>3. ~Frozen /\ RabType /\ admitted' \subseteq Users
  BY <1>2, EditableIsOpen DEF IInv, TypeOK, RabType
<1>4. RowsType' /\ RowsOK'
  <2>1. /\ DOMAIN rows' \subseteq Items
        /\ \A i \in DOMAIN rows' : RowOK(rows'[i])
    BY <1>1, SavedRowsOK DEF IInv
  <2>2. rows' = [i \in DOMAIN rows' |-> rows'[i]]
    BY <1>1 DEF SavedRows
  <2> QED
    BY <2>1, <2>2 DEF RowsType, RowsOK, RowOK
<1>5. CASE Priced(rows')
  <2>1. StateTotal(SavedSum(rows'))
    BY <1>1, <1>5
  <2>2. /\ DOMAIN SavedSum(rows') = DOMAIN rows'
        /\ SavedSum(rows') \in [DOMAIN rows' -> Nat]
        /\ \A i \in DOMAIN rows' :
             /\ Cents(SavedSum(rows')[i]) = rows'[i].lineTotal
             /\ ServerRow(rows'[i]) => SavedSum(rows')[i] = 10 * rows'[i].lineTotal
    BY <1>4, <1>5, SavedSumTrue DEF RowsOK
  <2>3. /\ RabType' /\ ~Frozen' /\ rab'.lockedBy = rab.lockedBy
        /\ rab'.status = "DRAFT" /\ rab'.total = SavedSum(rows')
    BY <1>3, <1>4, <2>1, <2>2, StateTotalOpen DEF RowsType
  <2>4. TotalTight'
    BY <1>5, <2>2, <2>3 DEF TotalTight, TrueTotal, Priced
  <2> QED
    BY <1>2, <1>3, <1>4, <2>3, <2>4, EditStep
<1>6. CASE ~Priced(rows')
  <2>1. rab' = [rab EXCEPT !.total = Null]
    BY <1>1, <1>6
  <2>2. /\ RabType' /\ ~Frozen' /\ rab'.lockedBy = rab.lockedBy
        /\ rab'.total = Null
    BY <1>3, <2>1, WithdrawTotalOpen
  <2>3. TotalTight'
    BY <2>2 DEF TotalTight
  <2> QED
    BY <1>2, <1>3, <1>4, <2>2, <2>3, EditStep
<1> QED
  BY <1>5, <1>6

(* An edit that leaves the document alone and no row priced by the server. *)
LEMMA UnpricedEdit ==
  ASSUME IInv, lockTx = Null, ~Frozen,
         UNCHANGED <<rab, baselines, deleted, authorities, lockTx>>,
         admitted' \subseteq Users,
         RowsType', RowsOK', ~SomeServerRow'
  PROVE  IInv'
<1>1. RabType' /\ ~Frozen' /\ (rab'.status = "NONE" => rab'.total = Null)
  BY DEF IInv, TypeOK, DocumentOK, RabType, Frozen
<1>2. TotalTight'
  BY DEF TotalTight
<1> QED
  BY <1>1, <1>2, EditStep

(* Setting up an empty draft asks no lifecycle question, and needs none:   *)
(* a frozen draft is not empty.                                            *)
LEMMA InitiateSetupStep ==
  ASSUME IInv, NEW u \in Users, InitiateSetup(u)
  PROVE  IInv'
<1> DEFINE Line == [quantity : Quantities \cup {Undefined}, unit : BOOLEAN,
                    sameWork : {TRUE}, unitPrice : ManualPrices \cup {Undefined}]
<1>1. PICK body \in Partial(Items, Line) :
        rows' = [i \in DOMAIN body |-> FreshRow(body[i])]
  BY DEF InitiateSetup
<1>2. /\ lockTx = Null /\ DOMAIN rows = {} /\ admitted' \subseteq Users
      /\ UNCHANGED <<rab, baselines, deleted, authorities, lockTx>>
  BY DEF InitiateSetup, Runs, Answers, IInv, TypeOK
<1>3. ~Frozen
  BY <1>2 DEF IInv, FrozenRowsProven
<1>4. DOMAIN body \subseteq Items /\ body \in [DOMAIN body -> Line]
  BY PartialType
<1>5. \A i \in DOMAIN body : RowOK(FreshRow(body[i])) /\ ~ServerRow(FreshRow(body[i]))
  <2>1. ASSUME NEW i \in DOMAIN body
        PROVE  RowOK(FreshRow(body[i])) /\ ~ServerRow(FreshRow(body[i]))
    <3>1. body[i] \in Line
      BY <1>4
    <3> QED
      BY <3>1, FreshRowOK
  <2> QED
    BY <2>1
<1>6. RowsType' /\ RowsOK' /\ ~SomeServerRow'
  BY <1>1, <1>4, <1>5 DEF RowsType, RowsOK, RowOK, SomeServerRow
<1> QED
  BY <1>2, <1>3, <1>6, UnpricedEdit

(* An import replaces all money by none, so a total left behind claims     *)
(* nothing about server rows.                                              *)
LEMMA ApproveImportStep ==
  ASSUME IInv, NEW u \in Users, ApproveImport(u)
  PROVE  IInv'
<1>1. PICK quantity \in Partial(Items, Quantities) :
        rows' = [i \in DOMAIN quantity |->
                   FreshRow([quantity |-> quantity[i], unit |-> TRUE,
                             sameWork |-> TRUE, unitPrice |-> Undefined])]
  BY DEF ApproveImport
<1>2. /\ lockTx = Null /\ CanEditDraft /\ admitted' \subseteq Users
      /\ UNCHANGED <<rab, baselines, deleted, authorities, lockTx>>
  BY DEF ApproveImport, Runs, Answers, IInv, TypeOK
<1>3. ~Frozen
  BY <1>2, EditableIsOpen
<1>4. DOMAIN quantity \subseteq Items /\ quantity \in [DOMAIN quantity -> Quantities]
  BY PartialType
<1>5. ASSUME NEW i \in DOMAIN quantity
      PROVE  RowOK(rows'[i]) /\ ~ServerRow(rows'[i])
  <2> DEFINE s == [quantity |-> quantity[i], unit |-> TRUE,
                   sameWork |-> TRUE, unitPrice |-> Undefined]
  <2>1. rows'[i] = FreshRow(s)
    BY <1>1
  <2>2. /\ s.quantity \in Quantities \cup {Undefined}
        /\ s.unit \in BOOLEAN /\ s.unitPrice \in ManualPrices \cup {Null, Undefined}
    BY <1>4
  <2> HIDE DEF s
  <2> QED
    BY <2>1, <2>2, FreshRowOK
<1>6. RowsType' /\ RowsOK' /\ ~SomeServerRow'
  BY <1>1, <1>4, <1>5 DEF RowsType, RowsOK, RowOK, SomeServerRow
<1> QED
  BY <1>2, <1>3, <1>6, UnpricedEdit

(* A selection changes an association and no money.                        *)
LEMMA SelectAhspStep ==
  ASSUME IInv, NEW u \in Users, NEW i \in Items, NEW v \in Versions,
         SelectAhsp(u, i, v)
  PROVE  IInv'
<1> DEFINE b == [version |-> v, price |-> market.chosen]
           r == [rows[i] EXCEPT !.version = v, !.working = b]
<1>1. /\ i \in DOMAIN rows /\ rows' = [rows EXCEPT ![i] = r]
      /\ lockTx = Null /\ CanEditDraft /\ admitted' \subseteq Users
      /\ UNCHANGED <<rab, baselines, deleted, authorities, lockTx>>
  BY DEF SelectAhsp, Runs, Answers, IInv, TypeOK
<1>2. ~Frozen /\ RowsType /\ RowsOK
  BY <1>1, EditableIsOpen DEF IInv, TypeOK, RowsType
<1>3. b \in Basis
  BY DEF Basis, IInv, TypeOK, Market
<1> HIDE DEF b
<1>4. /\ r \in Row
      /\ r.unitPrice = rows[i].unitPrice /\ r.lineTotal = rows[i].lineTotal
      /\ r.origin = rows[i].origin /\ r.quantity = rows[i].quantity
  BY <1>1, <1>2, <1>3 DEF RowsOK, RowOK, Row
<1> HIDE DEF r
<1>5. /\ DOMAIN rows' = DOMAIN rows
      /\ \A j \in DOMAIN rows :
           /\ RowOK(rows'[j])
           /\ ServerRow(rows'[j]) <=> ServerRow(rows[j])
           /\ rows'[j].unitPrice = rows[j].unitPrice
           /\ rows'[j].lineTotal = rows[j].lineTotal
  BY <1>1, <1>2, <1>4 DEF RowsOK, RowOK, RowsType, MoneyPaired, ServerRow
<1>6. RowsType' /\ RowsOK'
  BY <1>1, <1>2, <1>4, <1>5 DEF RowsType, RowsOK
<1>7. TotalTight'
  BY <1>1, <1>5 DEF IInv, TotalTight, SomeServerRow, TrueTotal
<1>8. RabType' /\ ~Frozen' /\ (rab'.status = "NONE" => rab'.total = Null)
  BY <1>1, <1>2 DEF IInv, TypeOK, DocumentOK, RabType, Frozen
<1> QED
  BY <1>1, <1>2, <1>6, <1>7, <1>8, EditStep

(* A calculation prices its row and states the total only when no other    *)
(* row is left unpriced.                                                   *)
LEMMA PersistCalculationStep ==
  ASSUME IInv, NEW u \in Users, NEW i \in Items, PersistCalculation(u, i)
  PROVE  IInv'
<1> DEFINE c == CalculatedRow(rows[i])
           all == \A j \in DOMAIN rows \ {i} : rows[j].unitPrice # Null
           t == IF all THEN LineSum(rows') ELSE Null
<1>1. /\ i \in DOMAIN rows /\ rows' = [rows EXCEPT ![i] = c]
      /\ rows[i].working # Null /\ Calculable(rows[i], rows[i].working)
      /\ StateTotal(t)
      /\ lockTx = Null /\ CanEditDraft /\ admitted' \subseteq Users
      /\ UNCHANGED <<baselines, deleted, authorities, lockTx>>
  BY DEF PersistCalculation, Runs, Answers, IInv, TypeOK
<1>2. ~Frozen /\ RowsType /\ RowsOK /\ RabType
  BY <1>1, EditableIsOpen DEF IInv, TypeOK, RowsType, RabType
<1>3. RowOK(c) /\ Reproves(c)
  BY <1>1, <1>2, CalculatedRowOK DEF RowsOK
<1> HIDE DEF c
<1>4. DOMAIN rows' = DOMAIN rows /\ \A j \in DOMAIN rows : RowOK(rows'[j])
  BY <1>1, <1>2, <1>3 DEF RowsOK, RowsType
<1>5. RowsType' /\ RowsOK'
  BY <1>1, <1>2, <1>3, <1>4 DEF RowsType, RowsOK, RowOK
<1>6. all => /\ \A j \in DOMAIN rows' : rows'[j].unitPrice # Null
             /\ \A j \in DOMAIN rows' : rows'[j].lineTotal \in Nat
  <2>1. c.unitPrice # Null
    BY <1>3, NullAssumption DEF RowOK, MoneyPaired, Reproves
  <2>2. all => \A j \in DOMAIN rows' : rows'[j].unitPrice # Null
    BY <1>1, <1>4, <2>1 DEF RowsType
  <2> QED
    BY <1>4, <2>2 DEF RowOK, MoneyPaired, Row
<1>7. all => /\ DOMAIN t = DOMAIN rows' /\ t \in [DOMAIN t -> Nat]
             /\ \A j \in DOMAIN rows' : /\ t[j] = 10 * rows'[j].lineTotal
                                        /\ Cents(t[j]) = rows'[j].lineTotal
  BY <1>6, CentsExact DEF LineSum
<1>8. t # Null => DOMAIN t \subseteq Items /\ t \in [DOMAIN t -> Nat]
  BY <1>2, <1>4, <1>7 DEF RowsType
<1>9. /\ RabType' /\ ~Frozen' /\ rab'.lockedBy = rab.lockedBy
      /\ rab'.status = "DRAFT" /\ rab'.total = t
  <2> HIDE DEF t
  <2> QED
    BY <1>1, <1>2, <1>8, StateTotalOpen
<1>10. TotalTight'
  <2>1. CASE all
    <3> HIDE DEF t, all
    <3> QED
      BY <1>6, <1>7, <1>9, <2>1 DEF TotalTight, TrueTotal
  <2>2. CASE ~all
    BY <1>9, <2>2 DEF TotalTight
  <2> QED
    BY <2>1, <2>2
<1> QED
  BY <1>1, <1>2, <1>5, <1>9, <1>10, EditStep

-----------------------------------------------------------------------------
(* Freezing and approving *)

(* The commit finds every row checked and nothing found, and a total that  *)
(* nobody recomputes.                                                      *)
LEMMA CommitLockStep ==
  ASSUME IInv, CommitLock
  PROVE  IInv'
<1>1. /\ lockTx # Null /\ lockTx.done = DOMAIN rows
      /\ ~lockTx.findings /\ rab.total # Null
      /\ rab' = [rab EXCEPT !.status = "LOCKED", !.lockedBy = lockTx.holder]
      /\ lockTx' = Null /\ admitted' \subseteq Users
      /\ UNCHANGED <<rows, baselines, deleted, market, versions>>
  BY DEF CommitLock, RowsChecked, Answers, authorities, IInv, TypeOK
<1>2. lockTx.holder \in Users /\ lockTx.holder # Null
  BY <1>1, NullAssumption DEF IInv, TypeOK
<1>3. rab' = [status |-> "LOCKED", total |-> rab.total, lockedBy |-> lockTx.holder]
  BY <1>1 DEF IInv, TypeOK
<1>4. /\ DOMAIN rows # {}
      /\ \A i \in DOMAIN rows : Reproves(rows[i]) /\ rows[i].working = Null
  BY <1>1 DEF IInv, LockKnowledge
<1>5. TrueTotal /\ \A i \in DOMAIN rows : ServerRow(rows[i])
  BY <1>1, <1>4 DEF IInv, TotalTight, SomeServerRow, Reproves, ServerRow
<1>6. rab.total = LineSum(rows)
  BY <1>1, <1>5 DEF IInv, TypeOK, TrueTotal, LineSum
<1>7. TypeOK'
  BY <1>1, <1>2, <1>3 DEF IInv, TypeOK
<1>8. RowsOK' /\ LockKnowledge'
  BY <1>1 DEF IInv, RowsOK, LockKnowledge
<1>9. DocumentOK'
  <2>1. rab.status = "DRAFT"
    BY <1>1 DEF IInv, LockKnowledge
  <2> QED
    BY <1>1, <1>2, <1>3, <2>1 DEF IInv, DocumentOK, ApprovedIffBaseline, Frozen
<1>10. TotalTight'
  BY <1>1, <1>3, <1>5 DEF TotalTight, TrueTotal
<1>11. FrozenRowsProven'
  BY <1>1, <1>3, <1>4, <1>6 DEF FrozenRowsProven, LineSum
<1> QED
  BY <1>7, <1>8, <1>9, <1>10, <1>11 DEF IInv

(* Approval turns the locked document into the approved one and adds the   *)
(* first baseline; the draft stays as it was.                              *)
LEMMA ApproveRabStep ==
  ASSUME IInv, NEW u \in Users, ApproveRab(u)
  PROVE  IInv'
<1>1. /\ rab.status = "LOCKED" /\ rab.lockedBy # Null
      /\ rab' = [rab EXCEPT !.status = "APPROVED"]
      /\ baselines = <<>> /\ baselines' = <<u>>
      /\ lockTx = Null /\ admitted' \subseteq Users
      /\ UNCHANGED <<rows, deleted, market, versions, lockTx>>
  BY DEF ApproveRab, Runs, Answers, authorities, IInv, TypeOK
<1>2. rab' = [status |-> "APPROVED", total |-> rab.total, lockedBy |-> rab.lockedBy]
  BY <1>1 DEF IInv, TypeOK
<1>3. TypeOK'
  BY <1>1, <1>2 DEF IInv, TypeOK
<1>4. RowsOK' /\ LockKnowledge'
  BY <1>1 DEF IInv, RowsOK, LockKnowledge
<1>5. DocumentOK'
  BY <1>1, <1>2 DEF DocumentOK, ApprovedIffBaseline, Frozen
<1>6. TotalTight'
  BY <1>1, <1>2 DEF IInv, TotalTight, SomeServerRow, TrueTotal
<1>7. FrozenRowsProven'
  BY <1>1, <1>2 DEF IInv, FrozenRowsProven, Frozen, LineSum
<1> QED
  BY <1>3, <1>4, <1>5, <1>6, <1>7 DEF IInv

-----------------------------------------------------------------------------
(* The invariant *)

(* A new project satisfies the invariant.                                  *)
LEMMA InitIInv == Init => IInv
<1> SUFFICES ASSUME Init PROVE IInv
  OBVIOUS
<1>1. /\ rows = NoRows /\ DOMAIN rows = {} /\ rab = NoRab /\ baselines = <<>>
      /\ deleted = FALSE /\ admitted = {} /\ lockTx = Null
      /\ market \in Market /\ versions \in [Versions -> VersionStatus]
  BY DEF Init, NoRows, VersionStatus
<1>2. TypeOK
  <2>1. DOMAIN rows \subseteq Items /\ rows \in [DOMAIN rows -> Row]
    BY <1>1 DEF NoRows
  <2>2. RabType
    BY <1>1 DEF NoRab, RabType
  <2>3. baselines \in Seq(Users)
    BY <1>1
  <2> QED
    BY <1>1, <2>1, <2>2, <2>3 DEF TypeOK, RabType
<1>3. RowsOK /\ TotalTight /\ LockKnowledge
  BY <1>1 DEF RowsOK, TotalTight, SomeServerRow, LockKnowledge
<1>4. DocumentOK /\ FrozenRowsProven
  BY <1>1 DEF DocumentOK, ApprovedIffBaseline, FrozenRowsProven, Frozen, NoRab
<1> QED
  BY <1>2, <1>3, <1>4 DEF IInv

(* Every step of every actor keeps it.                                     *)
LEMMA NextKeeps == IInv /\ [Next]_vars => IInv'
<1> SUFFICES ASSUME IInv, [Next]_vars PROVE IInv'
  OBVIOUS
<1>1. ASSUME NEW u \in Users, Admit(u) PROVE IInv'
  BY <1>1, AnswerStep DEF Admit, IInv, TypeOK
<1>2. ASSUME NEW u \in Users, Refuse(u) PROVE IInv'
  BY <1>2, AnswerStep DEF Refuse, Answers, IInv, TypeOK
<1>3. ASSUME NEW u \in Users, DiscardProject(u) PROVE IInv'
  BY <1>3, AnswerStep DEF DiscardProject, Answers, Runs, IInv, TypeOK
<1>4. ASSUME NEW u \in Users, Handler(u) PROVE IInv'
  BY <1>2, <1>3, <1>4, SaveDraftStep, InitiateSetupStep, ApproveImportStep,
     SelectAhspStep, PersistCalculationStep, BeginLockStep, ApproveRabStep
     DEF Handler
<1>5. CASE LockStep
  BY <1>5, CheckPriceStep, CheckVersionStep, CommitLockStep, RefuseLockStep
     DEF LockStep
<1>6. CASE UNCHANGED vars
  BY <1>6, AnswerStep DEF vars, draft, authorities, IInv, TypeOK
<1> QED
  BY <1>1, <1>4, <1>5, <1>6, EnvironmentStep DEF Next

(* The invariant holds of every behaviour of the handlers.                 *)
THEOREM InductiveInvariant == Spec => []IInv
  BY InitIInv, NextKeeps, PTL DEF Spec

(* Every reachable state of the draft, its document, the requests and the  *)
(* lock command is well typed: in particular no handler writes money that  *)
(* is not a number of cents, or a row that is not in the draft.            *)
THEOREM TypeCorrect == Spec => []TypeOK
<1>1. IInv => TypeOK
  BY DEF IInv
<1> QED
  BY <1>1, InductiveInvariant, PTL

(* lockWorkingDraft and approveLockedRab: whatever is locked or approved   *)
(* is re-provable row by row and its total is the total of these rows.     *)
THEOREM FrozenBudgetIsProven == Spec => []FrozenRowsProven
<1>1. IInv => FrozenRowsProven
  BY DEF IInv
<1> QED
  BY <1>1, InductiveInvariant, PTL

(* saveDraftBoq and persistBoqItemCalculation keep the stated total true   *)
(* from the first row on that the server prices.                           *)
THEOREM TotalIsTrue == Spec => []TotalTrueOncePriced
<1>1. IInv => TotalTrueOncePriced
  BY DEF IInv, TotalTight, TrueTotal, SomeServerRow, TotalTrueOncePriced
<1> QED
  BY <1>1, InductiveInvariant, PTL

(* approveLockedRab: the approved status and the single baseline are one   *)
(* fact.                                                                   *)
THEOREM ApprovalIsWhole == Spec => []ApprovedIffBaseline
<1>1. IInv => ApprovedIffBaseline
  BY DEF IInv, DocumentOK
<1> QED
  BY <1>1, InductiveInvariant, PTL

-----------------------------------------------------------------------------
(* What steps may do *)

(* The steps that write no row and no document.                            *)
LEMMA OtherStepsLeaveDraft ==
  ASSUME \/ \E u \in Users : Admit(u) \/ Refuse(u) \/ BeginLock(u) \/ DiscardProject(u)
         \/ \E i \in Items : CheckPrice(i) \/ CheckVersion(i)
         \/ RefuseLock
         \/ Environment
         \/ UNCHANGED vars
  PROVE  UNCHANGED draft
BY DEF Admit, Refuse, BeginLock, DiscardProject, CheckPrice, CheckVersion,
       RefuseLock, Environment, MoveMarket, CreateAhspVersion,
       RetireAhspVersion, vars, draft

(* The steps that edit: they find the draft open and leave it open.        *)
Edits(u) ==
  \/ SaveDraft(u)
  \/ InitiateSetup(u)
  \/ ApproveImport(u)
  \/ \E i \in Items, v \in Versions : SelectAhsp(u, i, v)
  \/ \E i \in Items : PersistCalculation(u, i)

(* Every edit finds the draft open, leaves it open and seals nothing.      *)
LEMMA EditsKeepOpen ==
  ASSUME IInv, NEW u \in Users, Edits(u)
  PROVE  ~Frozen /\ ~Frozen' /\ rab'.lockedBy = rab.lockedBy
<1>1. RabType
  BY DEF IInv, TypeOK, RabType
<1>2. CASE SaveDraft(u)
  <2>1. ~Frozen
    BY <1>2, EditableIsOpen DEF SaveDraft
  <2>2. PICK t : rab' = [rab EXCEPT !.status = "DRAFT", !.total = t]
                 \/ rab' = [rab EXCEPT !.total = Null]
    BY <1>2 DEF SaveDraft, StateTotal
  <2> QED
    BY <1>1, <2>1, <2>2 DEF RabType, Frozen
<1>3. CASE InitiateSetup(u)
  BY <1>3 DEF InitiateSetup, IInv, FrozenRowsProven, Frozen
<1>4. CASE ApproveImport(u)
  BY <1>4, EditableIsOpen DEF ApproveImport, Frozen
<1>5. ASSUME NEW i \in Items, NEW v \in Versions, SelectAhsp(u, i, v)
      PROVE  ~Frozen /\ ~Frozen' /\ rab'.lockedBy = rab.lockedBy
  BY <1>5, EditableIsOpen DEF SelectAhsp, Frozen
<1>6. ASSUME NEW i \in Items, PersistCalculation(u, i)
      PROVE  ~Frozen /\ ~Frozen' /\ rab'.lockedBy = rab.lockedBy
  <2>1. ~Frozen
    BY <1>6, EditableIsOpen DEF PersistCalculation
  <2>2. PICK t : rab' = [rab EXCEPT !.status = "DRAFT", !.total = t]
    BY <1>6 DEF PersistCalculation, StateTotal
  <2> QED
    BY <1>1, <2>1, <2>2 DEF RabType, Frozen
<1> QED
  BY <1>2, <1>3, <1>4, <1>5, <1>6 DEF Edits

(* Every step is an edit, the freeze, the approval or none of the draft's  *)
(* business.                                                               *)
LEMMA StepKinds ==
  ASSUME [Next]_vars
  PROVE  \/ \E u \in Users : Edits(u)
         \/ CommitLock
         \/ \E u \in Users : ApproveRab(u)
         \/ UNCHANGED draft
<1>1. CASE UNCHANGED vars
  BY <1>1, OtherStepsLeaveDraft
<1>2. CASE LockStep
  BY <1>2, OtherStepsLeaveDraft DEF LockStep
<1>3. CASE Environment
  BY <1>3, OtherStepsLeaveDraft
<1>4. ASSUME NEW u \in Users, Admit(u) \/ Handler(u)
      PROVE  Edits(u) \/ ApproveRab(u) \/ UNCHANGED draft
  BY <1>4, OtherStepsLeaveDraft DEF Handler, Edits
<1> QED
  BY <1>1, <1>2, <1>3, <1>4 DEF Next

(* Nothing but the lock's commit freezes a draft, and it commits on what   *)
(* the authorities answered while it ran.                                  *)
LEMMA FreezeStepHolds == IInv /\ [Next]_vars => FreezeStep
<1> SUFFICES ASSUME IInv, [Next]_vars PROVE FreezeStep
  OBVIOUS
<1>1. ASSUME NEW u \in Users, Edits(u) PROVE FreezeStep
  BY <1>1, EditsKeepOpen DEF FreezeStep, Frozen
<1>2. CASE CommitLock
  <2>1. /\ lockTx # Null /\ ~lockTx.findings /\ lockTx.done = DOMAIN rows
    BY <1>2 DEF CommitLock, RowsChecked
  <2>2. \A i \in DOMAIN rows : /\ rows[i].calc.price \in lockTx.offered
                              /\ rows[i].version \in lockTx.lawful
    BY <2>1 DEF IInv, LockKnowledge
  <2> QED
    BY <2>2 DEF FreezeStep
<1>3. ASSUME NEW u \in Users, ApproveRab(u) PROVE FreezeStep
  BY <1>3 DEF ApproveRab, FreezeStep
<1>4. CASE UNCHANGED draft
  BY <1>4 DEF draft, FreezeStep
<1> QED
  BY <1>1, <1>2, <1>3, <1>4, StepKinds

(* lockWorkingDraft: every price and every AHSP version it freezes was the *)
(* authorities' answer at some instant of its own transaction.             *)
THEOREM FreezeIsAnswered == Spec => FreezeStandsOnAnswers
<1>1. IInv /\ [Next]_vars => [FreezeStep]_vars
  BY FreezeStepHolds
<1> QED
  BY <1>1, InductiveInvariant, PTL DEF Spec, FreezeStandsOnAnswers

(* The four ways an edit treats server money: a save carries it over, a    *)
(* selection does not touch it, a calculation replaces that of its own     *)
(* row, an import leaves no money at all.                                  *)
LEMMA ServerMoneyStepHolds == IInv /\ [Next]_vars => ServerMoneyStep
<1> SUFFICES ASSUME IInv, [Next]_vars,
                    NEW i \in DOMAIN rows, ServerRow(rows[i])
             PROVE  \/ /\ i \in DOMAIN rows'
                       /\ rows'[i].unitPrice = rows[i].unitPrice
                       /\ rows'[i].lineTotal = rows[i].lineTotal
                       /\ rows'[i].calc = rows[i].calc
                       /\ ServerRow(rows'[i])
                    \/ /\ i \in DOMAIN rows'
                       /\ ServerRow(rows'[i])
                       /\ rows'[i].calc = rows[i].working
                       /\ Reproves(rows'[i])
                    \/ \A j \in DOMAIN rows' : rows'[j].origin = Null
                                             /\ rows'[j].version = Null
  BY DEF ServerMoneyStep
<1> DEFINE Kept == /\ i \in DOMAIN rows'
                   /\ rows'[i].unitPrice = rows[i].unitPrice
                   /\ rows'[i].lineTotal = rows[i].lineTotal
                   /\ rows'[i].calc = rows[i].calc
                   /\ ServerRow(rows'[i])
           Recalculated == /\ i \in DOMAIN rows'
                           /\ ServerRow(rows'[i])
                           /\ rows'[i].calc = rows[i].working
                           /\ Reproves(rows'[i])
           Unpriced == \A j \in DOMAIN rows' : rows'[j].origin = Null
                                            /\ rows'[j].version = Null
<1> SUFFICES Kept \/ Recalculated \/ Unpriced
  OBVIOUS
<1>1. /\ RowOK(rows[i]) /\ rows[i] \in Row
      /\ DOMAIN rows \subseteq Items /\ rows = [j \in DOMAIN rows |-> rows[j]]
  BY DEF IInv, TypeOK, RowsOK, RowOK
<1>2. ASSUME NEW u \in Users, SaveDraft(u) PROVE Kept
  <2>1. PICK body \in Partial(Items, Submission) :
          ServerRowsProtected(body) /\ rows' = SavedRows(body)
    BY <1>2 DEF SaveDraft
  <2>2. i \in DOMAIN body
    BY <2>1 DEF ServerRowsProtected, ServerRow
  <2>3. body[i] \in Submission
    BY <2>2, PartialType
  <2>4. i \in DOMAIN rows' /\ rows'[i] = ReplacedRow(rows[i], body[i])
    BY <2>1, <2>2 DEF SavedRows
  <2> QED
    BY <1>1, <2>3, <2>4, ReplacedRowOK
<1>3. ASSUME NEW u \in Users, ApproveImport(u) PROVE Unpriced
  <2>1. PICK quantity \in Partial(Items, Quantities) :
          rows' = [j \in DOMAIN quantity |->
                     FreshRow([quantity |-> quantity[j], unit |-> TRUE,
                               sameWork |-> TRUE, unitPrice |-> Undefined])]
    BY <1>3 DEF ApproveImport
  <2> QED
    BY <2>1 DEF FreshRow
<1>4. ASSUME NEW u \in Users, NEW k \in Items, NEW v \in Versions, SelectAhsp(u, k, v)
      PROVE  Kept
  <2> DEFINE r == [rows[k] EXCEPT !.version = v,
                     !.working = [version |-> v, price |-> market.chosen]]
  <2>1. k \in DOMAIN rows /\ rows' = [rows EXCEPT ![k] = r]
    BY <1>4 DEF SelectAhsp
  <2>2. CASE k = i
    <3>1. r.unitPrice = rows[i].unitPrice /\ r.lineTotal = rows[i].lineTotal
          /\ r.calc = rows[i].calc /\ r.origin = rows[i].origin
      BY <1>1, <2>2 DEF Row
    <3> HIDE DEF r
    <3> QED
      BY <1>1, <2>1, <2>2, <3>1 DEF ServerRow
  <2>3. CASE k # i
    <3> HIDE DEF r
    <3> QED
      BY <1>1, <2>1, <2>3
  <2> QED
    BY <2>2, <2>3
<1>5. ASSUME NEW u \in Users, NEW k \in Items, PersistCalculation(u, k)
      PROVE  Kept \/ Recalculated
  <2> DEFINE c == CalculatedRow(rows[k])
  <2>1. /\ k \in DOMAIN rows /\ rows' = [rows EXCEPT ![k] = c]
        /\ rows[k].working # Null /\ Calculable(rows[k], rows[k].working)
    BY <1>5 DEF PersistCalculation
  <2>2. Reproves(c) /\ c.calc = rows[k].working
    BY <2>1, CalculatedRowOK DEF IInv, RowsOK
  <2> HIDE DEF c
  <2>3. CASE k = i
    BY <1>1, <2>1, <2>2, <2>3 DEF Reproves, ServerRow
  <2>4. CASE k # i
    BY <1>1, <2>1, <2>4
  <2> QED
    BY <2>3, <2>4
<1>6. ASSUME NEW u \in Users, Edits(u) PROVE Kept \/ Recalculated \/ Unpriced
  BY <1>2, <1>3, <1>4, <1>5, <1>6 DEF Edits, InitiateSetup
<1>7. CASE UNCHANGED rows
  BY <1>7
<1>8. CommitLock \/ (\E u \in Users : ApproveRab(u)) \/ UNCHANGED draft
        => UNCHANGED rows
  BY DEF CommitLock, ApproveRab, draft
<1> QED
  BY <1>6, <1>7, <1>8, StepKinds

(* saveDraftBoq, selectForBoqItem and persistBoqItemCalculation: server    *)
(* money is replaced by the kernel, or with the whole draft, or not at     *)
(* all.                                                                    *)
THEOREM ServerMoneyIsTheKernels == Spec => ServerMoneyOnlyByKernel
<1>1. IInv /\ [Next]_vars => [ServerMoneyStep]_vars
  BY ServerMoneyStepHolds
<1> QED
  BY <1>1, InductiveInvariant, PTL DEF Spec, ServerMoneyOnlyByKernel

(* A running lock command is a request that has not been answered.         *)
HolderWaits == lockTx # Null => lockTx.holder \in admitted

(* No step answers the holder of the project row before the row is free.   *)
LEMMA HolderWaitsKept ==
  ASSUME IInv, HolderWaits, [Next]_vars
  PROVE  HolderWaits'
<1>1. CASE UNCHANGED vars
  BY <1>1 DEF vars, HolderWaits
<1>2. ASSUME NEW u \in Users, Admit(u) PROVE HolderWaits'
  BY <1>2 DEF Admit, HolderWaits
<1>3. ASSUME NEW u \in Users, Handler(u), ~BeginLock(u) PROVE lockTx' = Null
  BY <1>3 DEF Handler, Refuse, SaveDraft, InitiateSetup, ApproveImport, SelectAhsp,
     PersistCalculation, ApproveRab, DiscardProject, Runs
<1>4. ASSUME NEW u \in Users, BeginLock(u) PROVE HolderWaits'
  BY <1>4 DEF BeginLock, Runs, HolderWaits
<1>5. ASSUME NEW i \in Items, CheckPrice(i) \/ CheckVersion(i) PROVE HolderWaits'
  <2>1. lockTx # Null
    BY <1>5 DEF CheckPrice, CheckVersion
  <2>2. lockTx \in [holder : Users, priced : SUBSET Items, done : SUBSET Items,
                    findings : BOOLEAN, offered : SUBSET (Prices \cup {Null}),
                    lawful : SUBSET Versions]
    BY <2>1 DEF IInv, TypeOK
  <2>3. lockTx'.holder = lockTx.holder /\ UNCHANGED admitted
    BY <1>5, <2>2 DEF CheckPrice, CheckVersion
  <2> QED
    BY <2>1, <2>3 DEF HolderWaits
<1>6. CommitLock \/ RefuseLock => lockTx' = Null
  BY DEF CommitLock, RefuseLock
<1>7. CASE Environment
  <2>1. UNCHANGED admitted /\ \E m, v : Witness(m, v)
    BY <1>7 DEF Environment, MoveMarket, CreateAhspVersion, RetireAhspVersion
  <2>2. CASE lockTx = Null
    BY <2>1, <2>2 DEF Witness, HolderWaits
  <2>3. CASE lockTx # Null
    <3>1. lockTx \in [holder : Users, priced : SUBSET Items, done : SUBSET Items,
                      findings : BOOLEAN, offered : SUBSET (Prices \cup {Null}),
                      lawful : SUBSET Versions]
      BY <2>3 DEF IInv, TypeOK
    <3>2. lockTx'.holder = lockTx.holder
      BY <2>1, <2>3, <3>1 DEF Witness
    <3> QED
      BY <2>1, <2>3, <3>2 DEF HolderWaits
  <2> QED
    BY <2>2, <2>3
<1> QED
  BY <1>1, <1>2, <1>3, <1>4, <1>5, <1>6, <1>7 DEF Next, LockStep, HolderWaits

(* discardDraftProject: with the last admitted request answered, nothing   *)
(* writes the deleted project any more.                                    *)
THEOREM DeletedRests == Spec => DeletedProjectRests
<1>1. ASSUME IInv, HolderWaits, [Next]_vars, deleted, admitted = {}
      PROVE  UNCHANGED <<draft, deleted, admitted>>
  <2>1. lockTx = Null
    BY <1>1 DEF HolderWaits
  <2>2. ~LockStep
    BY <2>1 DEF LockStep, CheckPrice, CheckVersion, CommitLock, RefuseLock, RowsChecked
  <2>3. ASSUME NEW u \in Users PROVE ~Admit(u) /\ ~Handler(u)
    BY <1>1 DEF Admit, Handler, Refuse, SaveDraft, InitiateSetup, ApproveImport,
       SelectAhsp, PersistCalculation, BeginLock, ApproveRab, DiscardProject, Runs
  <2>4. CASE Environment
    BY <2>4 DEF Environment, MoveMarket, CreateAhspVersion, RetireAhspVersion
  <2>5. CASE UNCHANGED vars
    BY <2>5 DEF vars, draft
  <2> QED
    BY <1>1, <2>2, <2>3, <2>4, <2>5 DEF Next
<1>2. Init => HolderWaits
  BY DEF Init, HolderWaits
<1>3. IInv /\ HolderWaits /\ [Next]_vars => HolderWaits'
  BY HolderWaitsKept
<1>4. IInv /\ HolderWaits /\ [Next]_vars
        => [deleted /\ admitted = {} => UNCHANGED <<draft, deleted, admitted>>]_vars
  BY <1>1
<1> QED
  BY <1>2, <1>3, <1>4, InductiveInvariant, PTL DEF Spec, DeletedProjectRests

-----------------------------------------------------------------------------
(* The refinement: RabLifecycle implements RabFreeze *)

(* The abstract budget a state of the draft stands for.                    *)
Phase == CASE rab.status = "LOCKED" -> "SEALED"
           [] rab.status = "APPROVED" -> "OFFICIAL"
           [] OTHER -> "OPEN"
Lines == [i \in DOMAIN rows |->
            [money |-> rows[i].lineTotal,
             proven |-> Reproves(rows[i]) /\ rows[i].working = Null]]

(* A new project is an empty, open budget.                                 *)
LEMMA InitRefines == Init => Freeze!Init
<1> SUFFICES ASSUME Init PROVE Freeze!Init
  OBVIOUS
<1>1. Phase = "OPEN"
  BY DEF Init, NoRab, Phase
<1>2. DOMAIN rows = {}
  BY DEF Init, NoRows
<1>3. Lines = [i \in {} |-> 0]
  BY <1>2 DEF Lines
<1>4. rab.total = Null /\ rab.lockedBy = Null
  BY DEF Init, NoRab
<1> QED
  BY <1>1, <1>3, <1>4 DEF Freeze!Init, Phase, Lines

(* Every step of the handlers is a step of the abstract budget.            *)
LEMMA StepRefines ==
  ASSUME IInv, IInv', [Next]_vars
  PROVE  [Freeze!Next]_(Freeze!vars)
<1>1. ASSUME NEW u \in Users, Edits(u) PROVE Freeze!Next
  <2>1. Phase = "OPEN" /\ Phase' = "OPEN" /\ rab'.lockedBy = rab.lockedBy
    BY <1>1, EditsKeepOpen DEF Phase, Frozen
  <2>2. DOMAIN Lines' = DOMAIN rows' /\ DOMAIN rows' \subseteq Items
    BY DEF Lines, IInv, TypeOK
  <2>3. ASSUME NEW i \in DOMAIN rows'
        PROVE  Lines'[i] \in [money : Nat \cup {Null}, proven : BOOLEAN]
    <3>1. rows'[i].lineTotal \in Nat \cup {Null}
      BY DEF IInv, RowsOK, RowOK, Row
    <3>2. (Reproves(rows'[i]) /\ rows'[i].working = Null) \in BOOLEAN
      BY DEF Reproves
    <3> QED
      BY <3>1, <3>2 DEF Lines
  <2>4. Freeze!Edit
    BY <2>1, <2>2, <2>3 DEF Freeze!Edit, Freeze!Line, Phase, Lines
  <2> QED
    BY <2>4 DEF Freeze!Next
<1>2. CASE CommitLock
  <2>1. /\ rab.status = "DRAFT" /\ lockTx.holder \in Users
        /\ rab' = [status |-> "LOCKED", total |-> rab.total, lockedBy |-> lockTx.holder]
        /\ UNCHANGED rows
    BY <1>2 DEF CommitLock, RowsChecked, IInv, TypeOK, LockKnowledge
  <2>2. /\ DOMAIN rows # {} /\ rab.total = LineSum(rows)
        /\ \A i \in DOMAIN rows : Reproves(rows[i]) /\ rows[i].working = Null
    BY <2>1 DEF IInv, FrozenRowsProven, Frozen, LineSum
  <2>3. /\ Phase = "OPEN" /\ Phase' = "SEALED" /\ Lines' = Lines
        /\ rab'.total = rab.total /\ rab'.lockedBy = lockTx.holder
    BY <2>1 DEF Phase, Lines
  <2>4. /\ DOMAIN Lines = DOMAIN rows
        /\ \A i \in DOMAIN rows : Lines[i].money = rows[i].lineTotal /\ Lines[i].proven
    BY <2>2 DEF Lines
  <2>5. /\ DOMAIN Lines # {} /\ \A i \in DOMAIN Lines : Lines[i].proven
        /\ rab.total = [i \in DOMAIN Lines |-> 10 * Lines[i].money]
    BY <2>2, <2>4 DEF LineSum
  <2>6. Freeze!Seal(lockTx.holder)
    BY <2>3, <2>5 DEF Freeze!Seal, Freeze!Sealable, Phase, Lines
  <2> QED
    BY <2>1, <2>6 DEF Freeze!Next
<1>3. ASSUME NEW u \in Users, ApproveRab(u) PROVE Freeze!Next
  <2>1. /\ rab.status = "LOCKED" /\ UNCHANGED rows
        /\ rab' = [status |-> "APPROVED", total |-> rab.total, lockedBy |-> rab.lockedBy]
    BY <1>3 DEF ApproveRab, IInv, TypeOK
  <2>2. /\ Phase = "SEALED" /\ Phase' = "OFFICIAL" /\ Lines' = Lines
        /\ rab'.total = rab.total /\ rab'.lockedBy = rab.lockedBy
    BY <2>1 DEF Phase, Lines
  <2>3. Freeze!Officialise
    BY <2>2 DEF Freeze!Officialise, Phase, Lines
  <2> QED
    BY <2>3 DEF Freeze!Next
<1>4. CASE UNCHANGED draft
  <2>1. Phase' = Phase /\ Lines' = Lines /\ UNCHANGED rab
    BY <1>4 DEF draft, Phase, Lines
  <2> QED
    BY <2>1 DEF Freeze!vars, Phase, Lines
<1> QED
  BY <1>1, <1>2, <1>3, <1>4, StepKinds

(* The Working Draft keeps what RabFreeze promises: lines, total and       *)
(* sealer stand still from the freeze on, and nothing unproven is frozen.  *)
THEOREM LifecycleImplementsFreeze == Spec => ImplementsFreeze
<1>1. Init => Freeze!Init
  BY InitRefines
<1>2. IInv /\ IInv' /\ [Next]_vars => [Freeze!Next]_(Freeze!vars)
  BY StepRefines
<1> QED
  BY <1>1, <1>2, InductiveInvariant, PTL DEF Spec, ImplementsFreeze, Freeze!Spec

=============================================================================
