------------------------ MODULE ProgressEntriesProofs -----------------------
(***************************************************************************)
(* Proofs about ProgressEntries.  A handler decides once and commits       *)
(* later.  The invariant says that no two requests hold conflicting locks, *)
(* and that what each one decided is therefore still true for as long as   *)
(* it holds the lock it decided under.  The rest follows commit by commit. *)
(***************************************************************************)
EXTENDS ProgressEntries, SequenceTheorems, TLAPS

(* No two requests hold locks that conflict.                               *)
LocksExclude ==
  \A r, s \in Slots : r # s => \A k \in Held(r), l \in Held(s) : ~Conflict(k, l)

(* What a request has decided on still holds.                              *)
Decided(x) ==
  LET q == x.ask IN
  /\ q.context \subseteq Ids
  /\ q.kind = "CORRECT" /\ x.taken >= 1 =>
       /\ ~Superseded(q.entry)
       /\ x.seen = entries[q.entry].status /\ x.seen \in Effective
  /\ q.kind \in {"VERIFY", "ACCEPT"} /\ x.taken >= 1 =>
       /\ ~Superseded(q.entry)
       /\ entries[q.entry].status = IF q.kind = "VERIFY" THEN "SUBMITTED" ELSE "VERIFIED"
       /\ SeparateDuties(q.kind, q.by, {entries[q.entry].by})
       /\ q.kind = "ACCEPT" => SeparateDuties(q.kind, q.by, {entries[q.entry].by} \cup Verifiers(q.entry))
  /\ q.kind = "ATTEST" /\ x.taken = 3 =>
       /\ ~Superseded(q.entry)
       /\ entries[q.entry].status \in {"VERIFIED", "ACCEPTED"}
       /\ q.context = Context(q.item)
       /\ SeparateDuties(q.kind, q.by, {entries[q.entry].by})
DecisionsHold == \A r \in Slots : request[r] # Null => Decided(request[r])

(* Attestations speak of entries that existed.                             *)
AttestedThePast == \A v \in events : v.context \subseteq Ids

Story ==
  /\ AttestedThePast
  /\ TrailMatchesStatus
  /\ FourEyes
  /\ OneReportOneAct
  /\ ProvenIsCurrent

IInv == TypeOK /\ LocksExclude /\ DecisionsHold /\ Story

----------------------------------------------------------------------------
(* Shape.                                                                  *)

(* Null is no request.                                                     *)
LEMMA RequestTyped ==
  ASSUME TypeOK, NEW r \in Slots, request[r] # Null
  PROVE  /\ request[r] \in Request
         /\ request[r].ask \in Ask
         /\ request[r].taken \in 0..3
         /\ request[r].ask.kind = "SUBMIT" => request[r].ask.entry = 0
         /\ request[r].ask.kind # "SUBMIT" =>
              /\ request[r].ask.entry \in Ids
              /\ request[r].ask.item = entries[request[r].ask.entry].item
  BY DEF TypeOK, Request

(* What an id in use names is an entry.                                    *)
LEMMA EntryTyped ==
  ASSUME TypeOK, NEW e \in Ids
  PROVE  entries[e] \in Entry /\ Ids \subseteq Nat /\ Len(entries) \in Nat
  BY DEF TypeOK, Ids

(* The locks a request takes, in order.                                    *)
LEMMA LocksInOrder ==
  ASSUME NEW q \in Ask
  PROVE  /\ q.kind = "SUBMIT" => Locks(q) = <<ProjectShared, ItemForUpdate(q.item)>>
         /\ q.kind = "CORRECT" =>
              Locks(q) = <<EntryForUpdate(q.entry), ItemForUpdate(q.item), ProjectShared>>
         /\ q.kind \in {"VERIFY", "ACCEPT"} =>
              Locks(q) = <<EntryForUpdate(q.entry), ProjectShared>>
         /\ q.kind = "ATTEST" => Locks(q) =
              <<ProjectForUpdate, EntryForUpdate(q.entry), ItemForUpdate(q.item)>>
  BY DEF Locks, Ask

(* Which locks protect a decision, and which a request holds at its end.   *)
LEMMA HeldLocks ==
  ASSUME TypeOK, NEW r \in Slots, request[r] # Null
  PROVE  /\ request[r].ask.kind \in {"CORRECT", "VERIFY", "ACCEPT"} /\ request[r].taken >= 1 =>
              EntryForUpdate(request[r].ask.entry) \in Held(r)
         /\ request[r].ask.kind = "ATTEST" /\ request[r].taken = 3 =>
              /\ EntryForUpdate(request[r].ask.entry) \in Held(r)
              /\ ItemForUpdate(request[r].ask.item) \in Held(r)
         /\ Ready(r) =>
              /\ request[r].taken >= 1
              /\ request[r].ask.kind = "ATTEST" => request[r].taken = 3
              /\ request[r].ask.kind \in {"SUBMIT", "CORRECT"} =>
                   ItemForUpdate(request[r].ask.item) \in Held(r)
  <1> DEFINE x == request[r]
             q == x.ask
  <1>1. q \in Ask /\ x.taken \in 0..3
    BY RequestTyped
  <1>2. Held(r) = {Locks(q)[n] : n \in 1..x.taken}
    BY DEF Held
  <1>3. \A n \in 1..x.taken : Locks(q)[n] \in Held(r)
    BY <1>2
  <1>4. CASE q.kind = "SUBMIT"
    <2>1. Locks(q) = <<ProjectShared, ItemForUpdate(q.item)>>
      BY <1>1, <1>4, LocksInOrder
    <2>2. Ready(r) => x.taken = 2
      BY <2>1 DEF Ready
    <2>3. x.taken = 2 => Locks(q)[2] \in Held(r)
      BY <1>3
    <2> QED  BY <1>4, <2>1, <2>2, <2>3
  <1>5. CASE q.kind = "CORRECT"
    BY <1>1, <1>3, <1>5, LocksInOrder DEF Ready
  <1>6. CASE q.kind \in {"VERIFY", "ACCEPT"}
    BY <1>1, <1>3, <1>6, LocksInOrder DEF Ready
  <1>7. CASE q.kind = "ATTEST"
    <2>1. Locks(q) = <<ProjectForUpdate, EntryForUpdate(q.entry), ItemForUpdate(q.item)>>
      BY <1>1, <1>7, LocksInOrder
    <2>2. Locks(q)[2] = EntryForUpdate(q.entry) /\ Locks(q)[3] = ItemForUpdate(q.item)
      BY <2>1
    <2>3. x.taken = 3 => 2 \in 1..x.taken /\ 3 \in 1..x.taken
      OBVIOUS
    <2>4. Ready(r) => x.taken = 3
      BY <2>1 DEF Ready
    <2> QED  BY <1>3, <1>7, <2>2, <2>3, <2>4
  <1> QED  BY <1>1, <1>4, <1>5, <1>6, <1>7 DEF Ask

(* Two requests hold no row for update together.                           *)
LEMMA RowsApart ==
  ASSUME LocksExclude, NEW r \in Slots, NEW s \in Slots, r # s
  PROVE  /\ \A e : EntryForUpdate(e) \in Held(r) => EntryForUpdate(e) \notin Held(s)
         /\ \A i : ItemForUpdate(i) \in Held(r) => ItemForUpdate(i) \notin Held(s)
  BY DEF LocksExclude, Conflict, EntryForUpdate, ItemForUpdate

----------------------------------------------------------------------------
(* What a step of r leaves alone: entries grow and keep their content and  *)
(* their place; their status, what supersedes or verifies them and the     *)
(* entries of an item change only under the lock r holds.                  *)
Kept(r) ==
  /\ Ids \subseteq Ids'
  /\ \A e \in Ids :
       /\ entries'[e].item = entries[e].item
       /\ entries'[e].by = entries[e].by
       /\ entries'[e].command = entries[e].command
       /\ entries'[e].parent = entries[e].parent
       /\ EntryForUpdate(e) \notin Held(r) =>
            /\ entries'[e] = entries[e]
            /\ Superseded(e)' <=> Superseded(e)
            /\ Verifiers(e)' = Verifiers(e)
  /\ \A i \in Items : ItemForUpdate(i) \notin Held(r) => Context(i)' = Context(i)

(* The commits, by what they do to entries and events.                     *)
Adds(q) ==
  /\ Ids' = Ids \cup {Len(entries) + 1}
  /\ Len(entries') = Len(entries) + 1
  /\ entries'[Len(entries) + 1] = NewEntry(q)

(* A submission or correction makes an entry that points back.             *)
LEMMA NewEntryTyped ==
  ASSUME TypeOK, NEW r \in Slots, request[r] # Null,
         request[r].ask.kind \in {"SUBMIT", "CORRECT"}
  PROVE  /\ NewEntry(request[r].ask) \in Entry
         /\ NewEntry(request[r].ask).parent < Len(entries) + 1
  BY RequestTyped DEF NewEntry, Entry, Ask, Effective, TypeOK, Ids

(* A submission adds one entry and changes none.                           *)
LEMMA SubmitEffect ==
  ASSUME TypeOK, NEW r \in Slots, CommitSubmit(r)
  PROVE  /\ entries' \in Seq(Entry)
         /\ Adds(request[r].ask)
         /\ \A e \in Ids : entries'[e] = entries[e]
         /\ \A e \in Ids' : entries'[e].parent < e
  <1> DEFINE n == NewEntry(request[r].ask)
  <1>1. n \in Entry /\ n.parent < Len(entries) + 1
    BY NewEntryTyped DEF CommitSubmit, Ready
  <1>2. entries \in Seq(Entry) /\ entries' = Append(entries, n)
    BY DEF TypeOK, CommitSubmit
  <1> HIDE DEF n
  <1>3. /\ entries' \in Seq(Entry)
        /\ Len(entries') = Len(entries) + 1
        /\ entries'[Len(entries) + 1] = n
        /\ \A e \in 1..Len(entries) : entries'[e] = entries[e]
    BY <1>1, <1>2
  <1>4. Ids' = Ids \cup {Len(entries) + 1}
    BY <1>2, <1>3 DEF Ids
  <1>5. \A e \in Ids : entries[e].parent < e
    BY DEF TypeOK
  <1> QED  BY <1>1, <1>3, <1>4, <1>5 DEF Adds, n, Ids

(* A correction adds one entry and returns the one it supersedes if that   *)
(* was only submitted.                                                     *)
LEMMA CorrectEffect ==
  ASSUME TypeOK, NEW r \in Slots, CommitCorrect(r)
  PROVE  /\ entries' \in Seq(Entry)
         /\ Adds(request[r].ask)
         /\ \A e \in Ids : entries'[e] =
              IF e = request[r].ask.entry /\ request[r].seen = "SUBMITTED"
              THEN [entries[e] EXCEPT !.status = "RETURNED"] ELSE entries[e]
         /\ \A e \in Ids' : entries'[e].parent < e
  <1> DEFINE q == request[r].ask
             n == NewEntry(q)
             old == IF request[r].seen = "SUBMITTED"
                    THEN [entries EXCEPT ![q.entry].status = "RETURNED"] ELSE entries
  <1>1. n \in Entry /\ n.parent < Len(entries) + 1
    BY NewEntryTyped DEF CommitCorrect, Ready
  <1>2. q.entry \in Ids /\ entries \in Seq(Entry) /\ entries' = Append(old, n)
    BY RequestTyped DEF TypeOK, CommitCorrect, Ready
  <1>3. \A e \in Ids : [entries[e] EXCEPT !.status = "RETURNED"] \in Entry
    BY EntryTyped DEF Entry, Effective
  <1>4. /\ old \in Seq(Entry) /\ Len(old) = Len(entries)
        /\ \A e \in Ids : old[e] =
              IF e = q.entry /\ request[r].seen = "SUBMITTED"
              THEN [entries[e] EXCEPT !.status = "RETURNED"] ELSE entries[e]
    BY <1>2, <1>3, SMTT(30) DEF Ids
  <1> HIDE DEF n, old, q
  <1>5. /\ entries' \in Seq(Entry)
        /\ Len(entries') = Len(entries) + 1
        /\ entries'[Len(entries) + 1] = n
        /\ \A e \in 1..Len(entries) : entries'[e] = old[e]
    BY <1>1, <1>2, <1>4
  <1>6. Ids' = Ids \cup {Len(entries) + 1}
    BY <1>2, <1>5 DEF Ids
  <1>7. \A e \in Ids : entries'[e].parent = entries[e].parent /\ entries[e].parent < e
    <2>1. \A e \in Ids : [entries[e] EXCEPT !.status = "RETURNED"].parent = entries[e].parent
      BY EntryTyped DEF Entry
    <2>2. \A e \in Ids : old[e].parent = entries[e].parent
      BY <1>4, <2>1
    <2>3. \A e \in Ids : entries'[e] = old[e]
      BY <1>5 DEF Ids
    <2> QED  BY <2>2, <2>3 DEF TypeOK
  <1> QED  BY <1>1, <1>4, <1>5, <1>6, <1>7 DEF Adds, n, q, Ids

(* A verification or acceptance changes the status of its entry alone.     *)
LEMMA TransitionEffect ==
  ASSUME TypeOK, NEW r \in Slots, CommitTransition(r)
  PROVE  /\ entries' \in Seq(Entry) /\ Ids' = Ids
         /\ \A e \in Ids : entries'[e] =
              IF e = request[r].ask.entry
              THEN [entries[e] EXCEPT !.status =
                     IF request[r].ask.kind = "VERIFY" THEN "VERIFIED" ELSE "ACCEPTED"]
              ELSE entries[e]
  <1> DEFINE q == request[r].ask
             next == IF q.kind = "VERIFY" THEN "VERIFIED" ELSE "ACCEPTED"
  <1>1. q.entry \in Ids /\ entries \in Seq(Entry)
        /\ entries' = [entries EXCEPT ![q.entry].status = next]
    BY RequestTyped DEF TypeOK, CommitTransition, Ready
  <1>2. \A e \in Ids : [entries[e] EXCEPT !.status = next] \in Entry
    BY EntryTyped DEF Entry, Effective
  <1> HIDE DEF q, next
  <1>3. entries' \in Seq(Entry) /\ Len(entries') = Len(entries)
        /\ \A e \in Ids : entries'[e] =
              IF e = q.entry THEN [entries[e] EXCEPT !.status = next] ELSE entries[e]
    BY <1>1, <1>2, SMTT(30) DEF Ids
  <1> QED  BY <1>3 DEF Ids, q, next

(* A request that asks.                                                    *)
Opens(r) ==
  \/ \E command \in Commands, by \in Holders["SUBMIT"], item \in Items :
       Submit(r, command, by, item)
  \/ \E kind \in {"CORRECT", "VERIFY", "ACCEPT", "ATTEST"} :
       \E command \in Commands, by \in Holders[AskedAs(kind)], e \in Ids :
         Act(r, kind, command, by, e)

(* What it asks is well formed and past the first checks.                  *)
Asked(r, q) ==
  /\ q \in Ask
  /\ request' = [request EXCEPT ![r] = [ask |-> q, taken |-> 0, seen |-> Null]]
  /\ UNCHANGED <<entries, events>>
  /\ q.context \subseteq Ids
  /\ Checks(q, 0)
  /\ IF q.kind = "SUBMIT" THEN q.entry = 0
     ELSE q.entry \in Ids /\ q.item = entries[q.entry].item

(* A request that opens asks something that makes sense.                   *)
LEMMA OpensWith ==
  ASSUME TypeOK, NEW r \in Slots, Opens(r)
  PROVE  \E q : Asked(r, q)
  <1>1. ASSUME NEW command \in Commands, NEW by \in Holders["SUBMIT"], NEW item \in Items,
               Submit(r, command, by, item)
        PROVE  \E q : Asked(r, q)
    <2> DEFINE q == [kind |-> "SUBMIT", command |-> command, by |-> by, item |-> item,
                     entry |-> 0, context |-> {}]
    <2>1. by \in People
      BY HoldersAssumption
    <2>2. q \in Ask
      BY <2>1 DEF Ask
    <2>3. Asked(r, q)
      BY <1>1, <2>2 DEF Submit, Begin, Asked
    <2> QED  BY <2>3
  <1>2. ASSUME NEW kind \in {"CORRECT", "VERIFY", "ACCEPT", "ATTEST"},
               NEW command \in Commands, NEW by \in Holders[AskedAs(kind)],
               NEW e \in Ids, Act(r, kind, command, by, e)
        PROVE  \E q : Asked(r, q)
    <2> DEFINE c == IF kind = "ATTEST" THEN Context(entries[e].item) ELSE {}
               q == [kind |-> kind, command |-> command, by |-> by,
                     item |-> entries[e].item, entry |-> e, context |-> c]
    <2>1. by \in People /\ c \subseteq Ids /\ entries[e].item \in Items
      BY HoldersAssumption, EntryTyped DEF Context, Entry, AskedAs
    <2>2. c \in SUBSET Nat /\ e \in Nat
      BY <2>1, EntryTyped
    <2>3. q \in Ask
      BY <2>1, <2>2 DEF Ask
    <2>4. Asked(r, q)
      BY <1>2, <2>1, <2>3 DEF Act, Begin, Asked
    <2> QED  BY <2>4
  <1> QED  BY <1>1, <1>2 DEF Opens

(* Every step but asking leaves the slot empty or takes its next lock.     *)
LEMMA StepRequest ==
  ASSUME TypeOK, NEW r \in Slots, Step(r)
  PROVE  /\ request[r] # Null
         /\ \A s \in Slots : s # r => request'[s] = request[s]
         /\ DOMAIN request' = Slots
         /\ request'[r] = Null \/ Proceed(r)
  BY DEF Step, Proceed, Refuse, Collide, Abort, CommitSubmit, CommitCorrect,
         CommitTransition, CommitAttest, Answer, Granted, Waiting, Ready, TypeOK

(* One lock further is still a lock of the list.                           *)
LEMMA NextLock ==
  ASSUME NEW n \in 0..3, NEW m \in {2, 3}, n < m
  PROVE  n + 1 \in 0..3 /\ n + 1 \in 1..m
  OBVIOUS

(* Taking a lock changes the request alone: one lock more, its check       *)
(* passed, the status seen by a correction noted.                          *)
LEMMA ProceedRequest ==
  ASSUME TypeOK, NEW r \in Slots, Proceed(r)
  PROVE  /\ request'[r] \in Request
         /\ request'[r].ask = request[r].ask
         /\ request'[r].taken = request[r].taken + 1
         /\ request[r].taken + 1 \in 1..Len(Locks(request[r].ask))
         /\ request'[r].seen = IF request[r].ask.kind = "CORRECT" /\ request[r].taken = 0
                               THEN entries[request[r].ask.entry].status ELSE request[r].seen
         /\ Checks(request[r].ask, request[r].taken + 1)
         /\ UNCHANGED <<entries, events>>
  <1> DEFINE x == request[r]
             seen == IF x.ask.kind = "CORRECT" /\ x.taken = 0
                     THEN entries[x.ask.entry].status ELSE x.seen
  <1>1. x \in Request /\ x.ask \in Ask /\ x.taken \in 0..3 /\ x # Null
    BY RequestTyped DEF Proceed, Granted, Waiting
  <1>2. request'[r] = [ask |-> x.ask, taken |-> x.taken + 1, seen |-> seen]
    BY DEF Proceed, TypeOK
  <1>3. x.taken < Len(Locks(x.ask)) /\ Checks(x.ask, x.taken + 1)
    BY DEF Proceed, Granted, Waiting
  <1>4. Len(Locks(x.ask)) = 2 \/ Len(Locks(x.ask)) = 3
    BY <1>1, LocksInOrder DEF Ask
  <1>5. seen \in Effective \cup {Null}
    <2>1. CASE x.ask.kind = "CORRECT" /\ x.taken = 0
      BY <1>3, <2>1, SMT DEF Checks, MayCorrect
    <2>2. CASE ~(x.ask.kind = "CORRECT" /\ x.taken = 0)
      BY <1>1, <2>2 DEF Request
    <2> QED  BY <2>1, <2>2
  <1> HIDE DEF x, seen
  <1>6. x.taken + 1 \in 0..3 /\ x.taken + 1 \in 1..Len(Locks(x.ask))
    BY <1>1, <1>3, <1>4, NextLock
  <1>7. request'[r] \in Request
    BY <1>1, <1>2, <1>5, <1>6 DEF Request
  <1> QED  BY <1>2, <1>3, <1>6, <1>7 DEF Proceed, seen, x

----------------------------------------------------------------------------
(* What a step keeps.                                                      *)

(* What a step changes, at most, of other requests, entries and events.    *)
LEMMA StepKeeps ==
  ASSUME TypeOK, NEW r \in Slots, Step(r)
  PROVE  Kept(r)
  <1> USE DEF Kept
  <1>1. CASE UNCHANGED <<entries, events>>
    BY <1>1 DEF Ids, Superseded, Verifiers, Context
  <1>2. ASSUME Adds(request[r].ask), events' = events, request[r].ask.item \in Items,
               ItemForUpdate(request[r].ask.item) \in Held(r),
               \A e \in Ids :
                 /\ entries'[e].item = entries[e].item
                 /\ entries'[e].by = entries[e].by
                 /\ entries'[e].command = entries[e].command
                 /\ entries'[e].parent = entries[e].parent
                 /\ EntryForUpdate(e) \notin Held(r) => entries'[e] = entries[e],
               request[r].ask.entry \in Ids =>
                 EntryForUpdate(request[r].ask.entry) \in Held(r)
        PROVE  Kept(r)
    <2> DEFINE q == request[r].ask
               new == Len(entries) + 1
    <2>1. entries'[new].item = q.item /\ entries'[new].parent = q.entry
      BY <1>2 DEF Adds, NewEntry
    <2>2. Ids' = Ids \cup {new} /\ new \notin Ids
      BY <1>2 DEF Adds, Ids, TypeOK
    <2>3. ASSUME NEW e \in Ids, EntryForUpdate(e) \notin Held(r)
          PROVE  Superseded(e)' <=> Superseded(e)
      <3>1. q.entry # e
        BY <1>2, <2>3
      <3> QED  BY <1>2, <2>1, <2>2, <3>1 DEF Superseded
    <2>4. \A e : Verifiers(e)' = Verifiers(e)
      BY <1>2 DEF Verifiers
    <2>5. ASSUME NEW i \in Items, ItemForUpdate(i) \notin Held(r)
          PROVE  Context(i)' = Context(i)
      <3>1. q.item # i
        BY <1>2, <2>5
      <3> QED  BY <1>2, <2>1, <2>2, <3>1 DEF Context
    <2> QED  BY <1>2, <2>2, <2>3, <2>4, <2>5
  <1>3. CASE CommitSubmit(r)
    <2>1. /\ request[r].ask.item \in Items /\ request[r].ask.entry = 0
          /\ ItemForUpdate(request[r].ask.item) \in Held(r)
      BY <1>3, RequestTyped, HeldLocks DEF CommitSubmit, Ready, Ask
    <2>2. 0 \notin Ids
      BY DEF Ids
    <2> QED  BY <1>2, <1>3, <2>1, <2>2, SubmitEffect DEF CommitSubmit
  <1>4. CASE CommitCorrect(r)
    <2>1. /\ request[r].ask.item \in Items
          /\ ItemForUpdate(request[r].ask.item) \in Held(r)
          /\ EntryForUpdate(request[r].ask.entry) \in Held(r)
      BY <1>4, RequestTyped, HeldLocks DEF CommitCorrect, Ready, Ask
    <2>2. ASSUME NEW e \in Ids
          PROVE  /\ entries'[e].item = entries[e].item
                 /\ entries'[e].by = entries[e].by
                 /\ entries'[e].command = entries[e].command
                 /\ entries'[e].parent = entries[e].parent
                 /\ EntryForUpdate(e) \notin Held(r) => entries'[e] = entries[e]
      BY <1>4, <2>1, CorrectEffect, EntryTyped DEF Entry
    <2> QED  BY <1>2, <1>4, <2>1, <2>2, CorrectEffect DEF CommitCorrect
  <1>5. CASE CommitTransition(r)
    <2> DEFINE q == request[r].ask
    <2>1. EntryForUpdate(q.entry) \in Held(r)
      BY <1>5, RequestTyped, HeldLocks DEF CommitTransition, Ready
    <2>2. /\ Ids' = Ids
          /\ \A e \in Ids :
               /\ entries'[e].item = entries[e].item
               /\ entries'[e].by = entries[e].by
               /\ entries'[e].command = entries[e].command
               /\ entries'[e].parent = entries[e].parent
               /\ EntryForUpdate(e) \notin Held(r) => entries'[e] = entries[e]
      BY <1>5, <2>1, TransitionEffect, EntryTyped DEF Entry
    <2>3. \A e : Superseded(e)' <=> Superseded(e)
      BY <2>2 DEF Superseded
    <2>4. \A i : Context(i)' = Context(i)
      BY <2>2 DEF Context
    <2>5. ASSUME NEW e \in Ids, EntryForUpdate(e) \notin Held(r)
          PROVE  Verifiers(e)' = Verifiers(e)
      <3>1. q.entry # e
        BY <2>1, <2>5
      <3> QED  BY <1>5, <3>1 DEF Verifiers, CommitTransition, EventOf
    <2> QED  BY <2>2, <2>3, <2>4, <2>5
  <1>6. CASE CommitAttest(r)
    <2>1. \A e : Verifiers(e)' = Verifiers(e)
      BY <1>6 DEF CommitAttest, EventOf, Verifiers
    <2> QED  BY <1>6, <2>1 DEF CommitAttest, Ids, Superseded, Context
  <1> QED  BY <1>1, <1>3, <1>4, <1>5, <1>6 DEF Step, Proceed, Refuse, Collide, Abort

----------------------------------------------------------------------------
(* Types.                                                                  *)

(* Without entries, events and requests the state is well formed.          *)
LEMMA TypeInit == Init => TypeOK
  BY DEF Init, TypeOK, Ids

(* What requests name is still there.                                      *)
LEMMA RequestsTyped ==
  ASSUME TypeOK, NEW r \in Slots, Step(r)
  PROVE  /\ request' \in [Slots -> Request \cup {Null}]
         /\ \A s \in Slots : request'[s] # Null =>
              LET q == request'[s].ask IN
              IF q.kind = "SUBMIT" THEN q.entry = 0
              ELSE q.entry \in Ids' /\ q.item = entries'[q.entry].item
  <1>1. ASSUME NEW s \in Slots
        PROVE  /\ request'[s] \in Request \cup {Null}
               /\ request'[s] # Null =>
                    /\ request[s] # Null
                    /\ request'[s].ask = request[s].ask
    BY StepRequest, ProceedRequest DEF TypeOK
  <1>2. request' = [s \in Slots |-> request'[s]]
    BY DEF Step, Proceed, Refuse, Collide, Abort, CommitSubmit, CommitCorrect,
           CommitTransition, CommitAttest, Answer, TypeOK
  <1>3. Kept(r)
    BY StepKeeps
  <1>4. ASSUME NEW s \in Slots, request'[s] # Null
        PROVE  LET q == request'[s].ask IN
               IF q.kind = "SUBMIT" THEN q.entry = 0
               ELSE q.entry \in Ids' /\ q.item = entries'[q.entry].item
    BY <1>1, <1>3, <1>4, RequestTyped DEF Kept
  <1> QED  BY <1>1, <1>2, <1>4

(* A transition or attestation writes an event about an entry that exists. *)
LEMMA EventTyped ==
  ASSUME TypeOK, NEW r \in Slots, request[r] # Null,
         request[r].ask.kind \in {"VERIFY", "ACCEPT", "ATTEST"}
  PROVE  EventOf(request[r].ask) \in Event /\ EventOf(request[r].ask).entry \in Ids
  <1>1. request[r].ask \in Ask /\ request[r].ask.entry \in Ids
    BY RequestTyped
  <1>2. request[r].ask.entry \in Nat
    BY <1>1 DEF Ask
  <1> QED  BY <1>1, <1>2 DEF EventOf, Event, Ask

(* Every step of a request keeps the state well formed.                    *)
LEMMA StepTyped ==
  ASSUME TypeOK, NEW r \in Slots, Step(r)
  PROVE  TypeOK'
  <1>1. Ids \subseteq Ids'
    BY StepKeeps DEF Kept
  <1>2. /\ entries' \in Seq(Entry) /\ \A e \in Ids' : entries'[e].parent < e
        /\ events' \subseteq Event /\ \A v \in events' : v.entry \in Ids'
    <2>1. CASE UNCHANGED <<entries, events>>
      BY <2>1 DEF TypeOK, Ids
    <2>2. CASE CommitSubmit(r)
      BY <1>1, <2>2, SubmitEffect DEF CommitSubmit, TypeOK
    <2>3. CASE CommitCorrect(r)
      BY <1>1, <2>3, CorrectEffect DEF CommitCorrect, TypeOK
    <2>4. CASE CommitTransition(r)
      <3>1. \A e \in Ids' : entries'[e].parent < e
        <4>1. \A e \in Ids : entries'[e].parent = entries[e].parent
          BY StepKeeps DEF Kept
        <4> QED  BY <2>4, <4>1, TransitionEffect DEF TypeOK
      <3>2. events' \subseteq Event /\ \A v \in events' : v.entry \in Ids'
        BY <1>1, <2>4, EventTyped DEF CommitTransition, Ready, TypeOK
      <3> QED  BY <2>4, <3>1, <3>2, TransitionEffect
    <2>5. CASE CommitAttest(r)
      BY <1>1, <2>5, EventTyped DEF CommitAttest, Ready, TypeOK, Ids
    <2> QED  BY <2>1, <2>2, <2>3, <2>4, <2>5 DEF Step, Proceed, Refuse, Collide, Abort
  <1> QED  BY <1>2, RequestsTyped DEF TypeOK

(* A request that opens is well formed.                                    *)
LEMMA OpensTyped ==
  ASSUME TypeOK, NEW r \in Slots, Opens(r)
  PROVE  TypeOK'
  <1>1. PICK q : Asked(r, q)
    BY OpensWith
  <1> DEFINE x == [ask |-> q, taken |-> 0, seen |-> Null]
  <1>2. x \in Request /\ x.ask = q
    BY <1>1 DEF Asked, Request
  <1> HIDE DEF x
  <1>3. request' = [request EXCEPT ![r] = x] /\ UNCHANGED <<entries, events>> /\ Ids' = Ids
    BY <1>1 DEF Asked, x, Ids
  <1>4. ASSUME NEW s \in Slots, request'[s] # Null
        PROVE  LET y == request'[s].ask IN
               IF y.kind = "SUBMIT" THEN y.entry = 0
               ELSE y.entry \in Ids /\ y.item = entries[y.entry].item
    <2>1. CASE s = r
      BY <1>1, <1>2, <1>3, <2>1 DEF Asked, TypeOK
    <2>2. CASE s # r
      BY <1>3, <1>4, <2>2, RequestTyped DEF TypeOK
    <2> QED  BY <2>1, <2>2
  <1> QED  BY <1>2, <1>3, <1>4 DEF TypeOK

(* Whatever happens is a request opening or taking a step.                 *)
LEMMA NextIsStep ==
  ASSUME Next
  PROVE  \E r \in Slots : Opens(r) \/ Step(r)
  BY DEF Next, Opens

(* Every step keeps the state well formed.                                 *)
LEMMA TypeStep == TypeOK /\ [Next]_vars => TypeOK'
  <1> SUFFICES ASSUME TypeOK, [Next]_vars
               PROVE  TypeOK'
    OBVIOUS
  <1>1. CASE UNCHANGED vars
    BY <1>1 DEF vars, TypeOK, Ids
  <1> QED  BY <1>1, NextIsStep, OpensTyped, StepTyped

(* Every reachable state is well formed: corrections point back, and what  *)
(* a request or an event names exists.                                     *)
THEOREM TypeCorrect == Spec => []TypeOK
  BY TypeInit, TypeStep, PTL DEF Spec

----------------------------------------------------------------------------
(* Locks.                                                                  *)

(* A lock is taken only when nobody has it.                                *)
LEMMA StepLocks ==
  ASSUME TypeOK, LocksExclude, NEW r \in Slots, Step(r)
  PROVE  LocksExclude'
  <1>1. \A s \in Slots : s # r => Held(s)' = Held(s)
    BY StepRequest DEF Held
  <1>2. \A s \in Slots : s # r =>
           \A k \in Held(r)', l \in Held(s) : ~Conflict(k, l) /\ ~Conflict(l, k)
    <2>1. CASE request'[r] = Null
      BY <2>1 DEF Held
    <2>2. CASE Proceed(r)
      <3>1. \A k \in Held(r)' : k \in Held(r) \/ k = Wanted(r)
        <4>1. request'[r].ask = request[r].ask /\ request'[r].taken = request[r].taken + 1
          BY <2>2, ProceedRequest
        <4>2. request[r] # Null /\ request[r].taken \in 0..3
          BY <2>2, RequestTyped DEF Proceed, Granted, Waiting
        <4> QED  BY <4>1, <4>2 DEF Held, Wanted
      <3>2. \A s \in Slots : s # r => \A l \in Held(s) : ~Conflict(l, Wanted(r))
        BY <2>2 DEF Proceed, Granted, Blockers
      <3> QED  BY <3>1, <3>2 DEF LocksExclude, Conflict
    <2> QED  BY <2>1, <2>2, StepRequest
  <1> QED  BY <1>1, <1>2 DEF LocksExclude

(* A request that opens holds no lock.                                     *)
LEMMA OpensLocks ==
  ASSUME TypeOK, LocksExclude, NEW r \in Slots, Opens(r)
  PROVE  LocksExclude'
  <1>1. PICK q : Asked(r, q)
    BY OpensWith
  <1>2. \A s \in Slots : s # r => Held(s)' = Held(s)
    BY <1>1 DEF Asked, Held, TypeOK
  <1>3. Held(r)' = {}
    BY <1>1 DEF Asked, Held, TypeOK
  <1> QED  BY <1>2, <1>3 DEF LocksExclude

----------------------------------------------------------------------------
(* Decisions.                                                              *)

(* The step of another request touches nothing a request has locked.       *)
LEMMA LockedKept ==
  ASSUME TypeOK, LocksExclude, NEW r \in Slots, Step(r), NEW s \in Slots, s # r
  PROVE  /\ Ids \subseteq Ids'
         /\ \A e \in Ids : EntryForUpdate(e) \in Held(s) =>
              /\ entries'[e] = entries[e]
              /\ Superseded(e)' <=> Superseded(e)
              /\ Verifiers(e)' = Verifiers(e)
         /\ \A i \in Items : ItemForUpdate(i) \in Held(s) => Context(i)' = Context(i)
  BY StepKeeps, RowsApart DEF Kept

(* What another request decided under its locks survives a step.           *)
LEMMA DecidedKept ==
  ASSUME TypeOK, LocksExclude, DecisionsHold, NEW r \in Slots, Step(r),
         NEW s \in Slots, s # r, NEW x, x = request[s], x # Null
  PROVE  Decided(x)'
  <1> DEFINE q == x.ask
  <1>1. Decided(x)
    BY DEF DecisionsHold
  <1>2. q \in Ask /\ (q.kind # "SUBMIT" => q.entry \in Ids) /\ q.item \in Items
    BY RequestTyped DEF Ask
  <1>3. /\ q.kind \in {"CORRECT", "VERIFY", "ACCEPT"} /\ x.taken >= 1 =>
             EntryForUpdate(q.entry) \in Held(s)
        /\ q.kind = "ATTEST" /\ x.taken = 3 =>
             EntryForUpdate(q.entry) \in Held(s) /\ ItemForUpdate(q.item) \in Held(s)
    BY HeldLocks
  <1> HIDE DEF q
  <1>4. Ids \subseteq Ids'
    BY LockedKept
  <1>5. EntryForUpdate(q.entry) \in Held(s) /\ q.entry \in Ids =>
          /\ entries'[q.entry] = entries[q.entry]
          /\ Superseded(q.entry)' <=> Superseded(q.entry)
          /\ Verifiers(q.entry)' = Verifiers(q.entry)
    BY LockedKept
  <1>6. ItemForUpdate(q.item) \in Held(s) => Context(q.item)' = Context(q.item)
    BY <1>2, LockedKept
  <1>7. q.context \subseteq Ids'
    BY <1>1, <1>4 DEF Decided, q
  <1>8. q.kind = "CORRECT" /\ x.taken >= 1 =>
          /\ ~Superseded(q.entry)'
          /\ x.seen = entries'[q.entry].status /\ x.seen \in Effective
    BY <1>1, <1>2, <1>3, <1>5 DEF Decided, q
  <1>9. q.kind \in {"VERIFY", "ACCEPT"} /\ x.taken >= 1 =>
          /\ ~Superseded(q.entry)'
          /\ entries'[q.entry].status = IF q.kind = "VERIFY" THEN "SUBMITTED" ELSE "VERIFIED"
          /\ SeparateDuties(q.kind, q.by, {entries'[q.entry].by})
          /\ q.kind = "ACCEPT" =>
               SeparateDuties(q.kind, q.by, {entries'[q.entry].by} \cup Verifiers(q.entry)')
    BY <1>1, <1>2, <1>3, <1>5 DEF Decided, q
  <1>10. q.kind = "ATTEST" /\ x.taken = 3 =>
          /\ ~Superseded(q.entry)'
          /\ entries'[q.entry].status \in {"VERIFIED", "ACCEPTED"}
          /\ q.context = Context(q.item)'
          /\ SeparateDuties(q.kind, q.by, {entries'[q.entry].by})
    BY <1>1, <1>2, <1>3, <1>5, <1>6 DEF Decided, q
  <1> QED  BY <1>7, <1>8, <1>9, <1>10 DEF Decided, q, SeparateDuties

(* What a check that passed has established.                               *)
LEMMA ChecksSaid ==
  ASSUME NEW q, NEW n \in Nat, Checks(q, n)
  PROVE  /\ n = 1 /\ q.kind = "CORRECT" => MayCorrect(q)
         /\ n = 1 /\ q.kind = "VERIFY" => MayVerify(q)
         /\ n = 1 /\ q.kind = "ACCEPT" => MayAccept(q)
         /\ n = 3 /\ q.kind = "ATTEST" => MayAttest(q)
  <1>1. CASE n = 1 /\ q.kind = "CORRECT"
    BY <1>1 DEF Checks
  <1>2. CASE n = 1 /\ q.kind = "VERIFY"
    BY <1>2 DEF Checks
  <1>3. CASE n = 1 /\ q.kind = "ACCEPT"
    BY <1>3 DEF Checks
  <1>4. CASE n = 3 /\ q.kind = "ATTEST"
    BY <1>4 DEF Checks
  <1> QED  BY <1>1, <1>2, <1>3, <1>4

(* Taking a lock, a request decides.                                       *)
LEMMA ProceedDecides ==
  ASSUME TypeOK, DecisionsHold, NEW r \in Slots, Proceed(r)
  PROVE  Decided(request'[r])
  <1> DEFINE x == request[r]
             y == request'[r]
             q == x.ask
  <1>1. x # Null /\ q \in Ask /\ x.taken \in 0..3
    BY RequestTyped DEF Proceed, Granted, Waiting
  <1>2. Decided(x)
    BY <1>1 DEF DecisionsHold
  <1>3. /\ y.ask = q /\ y.taken = x.taken + 1
        /\ y.seen = IF q.kind = "CORRECT" /\ x.taken = 0 THEN entries[q.entry].status ELSE x.seen
        /\ Checks(q, x.taken + 1)
    BY ProceedRequest
  <1> SUFFICES Decided(y)
    OBVIOUS
  <1> HIDE DEF x, y
  <1>4. q.context \subseteq Ids
    BY <1>2 DEF Decided
  <1>5. x.taken = 0 \/ x.taken >= 1
    BY <1>1
  <1>6. CASE q.kind = "SUBMIT"
    BY <1>3, <1>4, <1>6 DEF Decided
  <1>7. CASE q.kind = "CORRECT"
    <2>1. CASE x.taken = 0
      <3>1. MayCorrect(q)
        BY <1>3, <1>7, <2>1, ChecksSaid
      <3> QED  BY <1>3, <1>4, <1>7, <2>1, <3>1 DEF Decided, MayCorrect
    <2>2. CASE x.taken >= 1
      BY <1>1, <1>2, <1>3, <1>4, <1>7, <2>2 DEF Decided
    <2> QED  BY <1>5, <2>1, <2>2
  <1>8. CASE q.kind \in {"VERIFY", "ACCEPT"}
    <2>1. CASE x.taken = 0
      <3>1. IF q.kind = "VERIFY" THEN MayVerify(q) ELSE MayAccept(q)
        BY <1>3, <1>8, <2>1, ChecksSaid
      <3> QED  BY <1>3, <1>4, <1>8, <2>1, <3>1 DEF Decided, MayVerify, MayAccept, SeparateDuties
    <2>2. CASE x.taken >= 1
      BY <1>1, <1>2, <1>3, <1>4, <1>8, <2>2 DEF Decided
    <2> QED  BY <1>5, <2>1, <2>2
  <1>9. CASE q.kind = "ATTEST"
    <2>1. x.taken + 1 = 3 => MayAttest(q)
      BY <1>1, <1>3, <1>9, ChecksSaid
    <2> QED  BY <1>3, <1>4, <1>9, <2>1 DEF Decided, MayAttest
  <1> QED  BY <1>1, <1>6, <1>7, <1>8, <1>9 DEF Ask

(* What each request has decided under its locks stands after a step.      *)
LEMMA StepDecisions ==
  ASSUME TypeOK, LocksExclude, DecisionsHold, NEW r \in Slots, Step(r)
  PROVE  DecisionsHold'
  <1>1. ASSUME Proceed(r)
        PROVE  Decided(request[r])'
    <2>1. UNCHANGED <<entries, events>>
      BY <1>1 DEF Proceed
    <2> QED  BY <1>1, <2>1, ProceedDecides
               DEF Decided, Ids, Superseded, Verifiers, Context
  <1>2. ASSUME NEW s \in Slots, request'[s] # Null
        PROVE  Decided(request[s])'
    <2>1. CASE s = r
      BY <1>1, <1>2, <2>1, StepRequest
    <2>2. CASE s # r
      <3>1. PICK x : x = request[s]
        OBVIOUS
      <3>2. request'[s] = x
        BY <2>2, <3>1, StepRequest
      <3>3. Decided(x)'
        BY <1>2, <2>2, <3>1, <3>2, DecidedKept
      <3> QED  BY <3>2, <3>3
    <2> QED  BY <2>1, <2>2
  <1> QED  BY <1>2 DEF DecisionsHold

(* A request that opens has decided nothing.                               *)
LEMMA OpensDecisions ==
  ASSUME TypeOK, DecisionsHold, NEW r \in Slots, Opens(r)
  PROVE  DecisionsHold'
  <1>1. PICK q : Asked(r, q)
    BY OpensWith
  <1> DEFINE x == [ask |-> q, taken |-> 0, seen |-> Null]
  <1>2. Decided(x)
    BY <1>1 DEF Asked, Decided
  <1>3. ASSUME NEW s \in Slots, request'[s] # Null
        PROVE  Decided(request'[s])
    <2>1. CASE s = r
      BY <1>1, <1>2, <2>1 DEF Asked, TypeOK
    <2>2. CASE s # r
      BY <1>1, <1>3, <2>2 DEF Asked, DecisionsHold, TypeOK
    <2> QED  BY <2>1, <2>2
  <1>4. UNCHANGED <<entries, events>>
    BY <1>1 DEF Asked
  <1> QED  BY <1>3, <1>4
             DEF DecisionsHold, Decided, Ids, Superseded, Verifiers, Context

----------------------------------------------------------------------------
(* The story the rows tell, commit by commit.                              *)

(* A new entry, written under the lock of its item: nobody has spoken of   *)
(* it, and it makes every attestation of its item a thing of the past.     *)
LEMMA AddsStory ==
  ASSUME TypeOK, Story, NEW q, Adds(q), events' = events, ~Reported(q.command),
         q.entry = 0 \/ (/\ q.entry \in Ids /\ ~Superseded(q.entry)
                         /\ q.item = entries[q.entry].item),
         \A e \in Ids :
           /\ entries'[e].item = entries[e].item
           /\ entries'[e].by = entries[e].by
           /\ entries'[e].command = entries[e].command
           /\ entries'[e].parent = entries[e].parent
           /\ \/ entries'[e].status = entries[e].status
              \/ entries[e].status = "SUBMITTED" /\ entries'[e].status = "RETURNED"
  PROVE  Story'
  <1> DEFINE new == Len(entries) + 1
  <1>1. Ids' = Ids \cup {new} /\ new \notin Ids
    BY DEF Adds, Ids, TypeOK
  <1>2. /\ entries'[new].item = q.item /\ entries'[new].command = q.command
        /\ entries'[new].parent = q.entry /\ entries'[new].status = "SUBMITTED"
    BY DEF Adds, NewEntry
  <1>3. \A v \in events : v.entry \in Ids
    BY DEF TypeOK
  <1> HIDE DEF new
  <1>4. AttestedThePast'
    BY <1>1 DEF Story, AttestedThePast
  <1>5. TrailMatchesStatus'
    <2>1. ASSUME NEW e \in Ids
          PROVE  /\ entries'[e].status \in {"VERIFIED", "ACCEPTED"} <=>
                      \E v \in events : v.act = "VERIFY" /\ v.entry = e
                 /\ entries'[e].status = "ACCEPTED" <=>
                      \E v \in events : v.act = "ACCEPT" /\ v.entry = e
      BY DEF Story, TrailMatchesStatus
    <2> QED  BY <1>1, <1>2, <1>3, <2>1 DEF Story, TrailMatchesStatus
  <1>6. FourEyes'
    BY <1>3 DEF Story, FourEyes, Verifiers
  <1>7. OneReportOneAct'
    <2>1. \A e \in Ids : entries[e].command # q.command
      BY DEF Reported
    <2>2. \A e \in Ids : entries[e].parent = q.entry => q.entry = 0
      BY DEF Superseded
    <2> QED  BY <1>1, <1>2, <2>1, <2>2 DEF Story, OneReportOneAct
  <1>8. ProvenIsCurrent'
    <2> SUFFICES ASSUME NEW e \in Ids', NEW v \in events, v.act = "ATTEST", v.entry = e,
                        v.context = Context(entries[e].item)'
                 PROVE  ~Superseded(e)' /\ entries'[e].status \in {"VERIFIED", "ACCEPTED"}
      BY DEF ProvenIsCurrent, Proven
    <2>1. e \in Ids /\ v.context \subseteq Ids
      BY <1>3 DEF Story, AttestedThePast
    <2>2. v.context = {f \in Ids' : entries'[f].item = entries[e].item}
      BY <2>1 DEF Context
    <2>3. q.item # entries[e].item
      BY <1>1, <1>2, <2>1, <2>2
    <2>4. v.context = Context(entries[e].item)
      BY <1>1, <1>2, <2>2, <2>3 DEF Context
    <2>5. ~Superseded(e) /\ entries[e].status \in {"VERIFIED", "ACCEPTED"}
      BY <2>1, <2>4 DEF Story, ProvenIsCurrent, Proven
    <2>6. q.entry # e
      BY <2>1, <2>3 DEF Ids
    <2>7. ~Superseded(e)'
      BY <1>1, <1>2, <2>5, <2>6 DEF Superseded
    <2> QED  BY <2>1, <2>5, <2>7
  <1> QED  BY <1>4, <1>5, <1>6, <1>7, <1>8 DEF Story

(* A submission goes on with the story.                                    *)
LEMMA SubmitStory ==
  ASSUME TypeOK, Story, NEW r \in Slots, CommitSubmit(r)
  PROVE  Story'
  <1>1. request[r].ask.entry = 0 /\ ~Reported(request[r].ask.command)
    BY RequestTyped DEF CommitSubmit, Ready, UniqueReport
  <1> QED  BY <1>1, AddsStory, SubmitEffect DEF CommitSubmit

(* A correction goes on with the story: what it supersedes is superseded   *)
(* once.                                                                   *)
LEMMA CorrectStory ==
  ASSUME TypeOK, DecisionsHold, Story, NEW r \in Slots, CommitCorrect(r)
  PROVE  Story'
  <1> DEFINE x == request[r]
             q == x.ask
  <1>1. /\ q.entry \in Ids /\ q.item = entries[q.entry].item
        /\ ~Reported(q.command) /\ ~Superseded(q.entry)
    BY RequestTyped DEF CommitCorrect, Ready, UniqueReport
  <1>2. x.seen = entries[q.entry].status
    BY HeldLocks DEF CommitCorrect, Ready, DecisionsHold, Decided
  <1>3. ASSUME NEW e \in Ids
        PROVE  /\ entries'[e].item = entries[e].item
               /\ entries'[e].by = entries[e].by
               /\ entries'[e].command = entries[e].command
               /\ entries'[e].parent = entries[e].parent
               /\ \/ entries'[e].status = entries[e].status
                  \/ entries[e].status = "SUBMITTED" /\ entries'[e].status = "RETURNED"
    <2>1. entries'[e] = IF e = q.entry /\ x.seen = "SUBMITTED"
                        THEN [entries[e] EXCEPT !.status = "RETURNED"] ELSE entries[e]
      BY CorrectEffect
    <2>2. entries[e] \in Entry
      BY EntryTyped
    <2> HIDE DEF q, x
    <2> QED  BY <1>2, <2>1, <2>2 DEF Entry
  <1>4. Adds(q) /\ events' = events
    BY CorrectEffect DEF CommitCorrect
  <1> HIDE DEF q
  <1> QED  BY <1>1, <1>3, <1>4, AddsStory

(* A verification or an acceptance moves the status and leaves its event   *)
(* in one step; the lock kept since the decision rules out another one.    *)
LEMMA TransitionStory ==
  ASSUME TypeOK, DecisionsHold, Story, NEW r \in Slots, CommitTransition(r)
  PROVE  Story'
  <1> PICK x : x = request[r]
    OBVIOUS
  <1> DEFINE q == x.ask
             w == EventOf(q)
             e == q.entry
  <1>1. q.kind \in {"VERIFY", "ACCEPT"} /\ e \in Ids /\ ~Acted(q.command)
    BY RequestTyped DEF CommitTransition, Ready, UniqueEvent
  <1>2. /\ ~Superseded(e)
        /\ entries[e].status = IF q.kind = "VERIFY" THEN "SUBMITTED" ELSE "VERIFIED"
        /\ SeparateDuties(q.kind, q.by, {entries[e].by})
        /\ q.kind = "ACCEPT" => SeparateDuties(q.kind, q.by, {entries[e].by} \cup Verifiers(e))
    BY HeldLocks DEF CommitTransition, Ready, DecisionsHold, Decided
  <1>3. /\ events' = events \cup {w}
        /\ w.act = q.kind /\ w.command = q.command /\ w.by = q.by /\ w.entry = e
    BY DEF CommitTransition, EventOf
  <1>4. /\ Ids' = Ids
        /\ entries'[e].status = IF q.kind = "VERIFY" THEN "VERIFIED" ELSE "ACCEPTED"
        /\ \A f \in Ids :
             /\ entries'[f].item = entries[f].item
             /\ entries'[f].by = entries[f].by
             /\ entries'[f].command = entries[f].command
             /\ entries'[f].parent = entries[f].parent
             /\ f # e => entries'[f].status = entries[f].status
    <2>1. /\ Ids' = Ids
          /\ \A f \in Ids : entries'[f] =
               IF f = e THEN [entries[f] EXCEPT !.status =
                                IF q.kind = "VERIFY" THEN "VERIFIED" ELSE "ACCEPTED"]
               ELSE entries[f]
      BY TransitionEffect
    <2> HIDE DEF e, q
    <2> QED  BY <1>1, <2>1, EntryTyped DEF Entry
  <1>5. w.context \subseteq Ids
    BY DEF CommitTransition, Ready, DecisionsHold, Decided, EventOf
  <1>6. \A v \in events : v.entry \in Ids /\ v.context \subseteq Ids
    BY DEF TypeOK, Story, AttestedThePast
  <1> HIDE DEF q, w, e
  <1>7. AttestedThePast'
    BY <1>3, <1>4, <1>5, <1>6 DEF AttestedThePast
  <1>8. /\ q.kind = "VERIFY" =>
             ~ \E v \in events : v.act \in {"VERIFY", "ACCEPT"} /\ v.entry = e
        /\ q.kind = "ACCEPT" =>
             /\ \E v \in events : v.act = "VERIFY" /\ v.entry = e
             /\ ~ \E v \in events : v.act = "ACCEPT" /\ v.entry = e
    BY <1>1, <1>2 DEF Story, TrailMatchesStatus
  <1>9. TrailMatchesStatus'
    <2>1. ASSUME NEW f \in Ids
          PROVE  /\ entries'[f].status \in {"VERIFIED", "ACCEPTED"} <=>
                      \E v \in events' : v.act = "VERIFY" /\ v.entry = f
                 /\ entries'[f].status = "ACCEPTED" <=>
                      \E v \in events' : v.act = "ACCEPT" /\ v.entry = f
      <3>1. CASE f = e
        BY <1>1, <1>3, <1>4, <1>8, <3>1
      <3>2. CASE f # e
        <4>1. \A v \in events' : v.entry = f => v \in events
          BY <1>3, <3>2
        <4> QED  BY <1>3, <1>4, <3>2, <4>1 DEF Story, TrailMatchesStatus
      <3> QED  BY <3>1, <3>2
    <2>2. \A v, u \in events' :
            v.entry = u.entry /\ v.act = u.act /\ v.act # "ATTEST" => v = u
      BY <1>1, <1>3, <1>8 DEF Story, TrailMatchesStatus
    <2> QED  BY <1>4, <2>1, <2>2 DEF TrailMatchesStatus
  <1>10. FourEyes'
    <2>1. \A f : f # e \/ q.kind = "ACCEPT" => Verifiers(f)' = Verifiers(f)
      BY <1>3 DEF Verifiers
    <2>2. \A v \in events : v.act = "ACCEPT" => Verifiers(v.entry)' = Verifiers(v.entry)
      BY <1>1, <1>8, <2>1
    <2>3. w.by \notin MayCombine[AskedAs(w.act)] =>
            /\ w.by # entries'[w.entry].by
            /\ w.act = "ACCEPT" => w.by \notin Verifiers(w.entry)'
      BY <1>1, <1>2, <1>3, <1>4, <2>1 DEF SeparateDuties
    <2> QED  BY <1>3, <1>4, <1>6, <2>2, <2>3 DEF Story, FourEyes
  <1>11. OneReportOneAct'
    BY <1>1, <1>3, <1>4 DEF Story, OneReportOneAct, Acted
  <1>12. ProvenIsCurrent'
    <2>1. \A f : Context(f)' = Context(f)
      BY <1>4 DEF Context
    <2>2. \A f : Superseded(f)' <=> Superseded(f)
      BY <1>4 DEF Superseded
    <2>3. \A f \in Ids : Proven(f)' => Proven(f)
      BY <1>1, <1>3, <1>4, <2>1 DEF Proven
    <2>4. entries'[e].status \in {"VERIFIED", "ACCEPTED"}
      BY <1>4
    <2> QED  BY <1>4, <2>2, <2>3, <2>4 DEF Story, ProvenIsCurrent
  <1> QED  BY <1>7, <1>9, <1>10, <1>11, <1>12 DEF Story

(* An attestation commits under the locks of its entry and its item: what  *)
(* it read is what stands.                                                 *)
LEMMA AttestStory ==
  ASSUME TypeOK, DecisionsHold, Story, NEW r \in Slots, CommitAttest(r)
  PROVE  Story'
  <1> PICK x : x = request[r]
    OBVIOUS
  <1> DEFINE q == x.ask
             w == EventOf(q)
             e == q.entry
  <1>1. q.kind = "ATTEST" /\ e \in Ids /\ ~Acted(q.command) /\ q.item = entries[e].item
    BY RequestTyped DEF CommitAttest, Ready, UniqueEvent
  <1>2. /\ ~Superseded(e) /\ entries[e].status \in {"VERIFIED", "ACCEPTED"}
        /\ q.context \subseteq Ids
        /\ SeparateDuties(q.kind, q.by, {entries[e].by})
    BY HeldLocks DEF CommitAttest, Ready, DecisionsHold, Decided
  <1>3. /\ events' = events \cup {w} /\ entries' = entries /\ Ids' = Ids
        /\ w.act = "ATTEST" /\ w.command = q.command /\ w.by = q.by /\ w.entry = e
        /\ w.context = q.context
    BY DEF CommitAttest, EventOf, Ids
  <1> HIDE DEF q, w, e
  <1>4. AttestedThePast'
    BY <1>2, <1>3 DEF Story, AttestedThePast
  <1>5. TrailMatchesStatus'
    BY <1>3 DEF Story, TrailMatchesStatus
  <1>6. \A f : Verifiers(f)' = Verifiers(f)
    BY <1>3 DEF Verifiers
  <1>7. FourEyes'
    BY <1>1, <1>2, <1>3, <1>6 DEF Story, FourEyes, SeparateDuties
  <1>8. OneReportOneAct'
    BY <1>1, <1>3 DEF Story, OneReportOneAct, Acted
  <1>9. ProvenIsCurrent'
    <2>1. \A f : (Superseded(f)' <=> Superseded(f)) /\ Context(f)' = Context(f)
      BY <1>3 DEF Superseded, Context
    <2>2. \A f \in Ids : Proven(f)' => Proven(f) \/ f = e
      BY <1>3, <2>1 DEF Proven
    <2> QED  BY <1>2, <1>3, <2>1, <2>2 DEF Story, ProvenIsCurrent
  <1> QED  BY <1>4, <1>5, <1>7, <1>8, <1>9 DEF Story

(* The story goes on while entries and events rest.                        *)
LEMMA StoryKept ==
  ASSUME Story, UNCHANGED <<entries, events>>
  PROVE  Story'
  BY DEF Story, AttestedThePast, TrailMatchesStatus, FourEyes, OneReportOneAct,
         ProvenIsCurrent, Proven, Ids, Superseded, Verifiers, Context

----------------------------------------------------------------------------
(* The invariant.                                                          *)

(* The invariant holds before the first entry.                             *)
LEMMA InvInit == Init => IInv
  <1> SUFFICES ASSUME Init
               PROVE  IInv
    OBVIOUS
  <1>1. Ids = {} /\ events = {} /\ \A r \in Slots : request[r] = Null
    BY DEF Init, Ids
  <1>2. Story
    BY <1>1 DEF Story, AttestedThePast, TrailMatchesStatus, FourEyes,
              OneReportOneAct, ProvenIsCurrent
  <1>3. LocksExclude /\ DecisionsHold
    BY <1>1 DEF LocksExclude, DecisionsHold, Held
  <1> QED  BY <1>2, <1>3, TypeInit DEF IInv

(* Every step keeps the invariant.                                         *)
LEMMA InvStep == IInv /\ [Next]_vars => IInv'
  <1> SUFFICES ASSUME IInv, [Next]_vars
               PROVE  IInv'
    OBVIOUS
  <1>1. TypeOK /\ LocksExclude /\ DecisionsHold /\ Story
    BY DEF IInv
  <1>2. TypeOK'
    BY <1>1, TypeStep
  <1>3. CASE UNCHANGED vars
    <2>1. \A r \in Slots : Held(r)' = Held(r)
      BY <1>3 DEF vars, Held
    <2>2. \A r \in Slots : Decided(request[r])' <=> Decided(request[r])
      BY <1>3 DEF vars, Decided, Ids, Superseded, Verifiers, Context
    <2>3. LocksExclude' /\ DecisionsHold'
      BY <1>1, <1>3, <2>1, <2>2 DEF vars, LocksExclude, DecisionsHold
    <2> QED  BY <1>1, <1>2, <1>3, <2>3, StoryKept DEF vars, IInv
  <1>4. ASSUME NEW r \in Slots, Opens(r)
        PROVE  IInv'
    <2>1. UNCHANGED <<entries, events>>
      BY <1>1, <1>4, OpensWith DEF Asked
    <2> QED  BY <1>1, <1>2, <1>4, <2>1, OpensLocks, OpensDecisions, StoryKept DEF IInv
  <1>5. ASSUME NEW r \in Slots, Step(r)
        PROVE  IInv'
    <2>1. \/ UNCHANGED <<entries, events>>
          \/ CommitSubmit(r) \/ CommitCorrect(r) \/ CommitTransition(r) \/ CommitAttest(r)
      BY <1>5 DEF Step, Proceed, Refuse, Collide, Abort
    <2>2. Story'
      BY <1>1, <2>1, SubmitStory, CorrectStory, TransitionStory, AttestStory, StoryKept
    <2> QED  BY <1>1, <1>2, <1>5, <2>2, StepLocks, StepDecisions DEF IInv
  <1> QED  BY <1>3, <1>4, <1>5, NextIsStep

(* The invariant holds in every reachable state.                           *)
LEMMA Invariant == Spec => []IInv
  BY InvInit, InvStep, PTL DEF Spec

(* However corrections, verifications and acceptances of one entry         *)
(* interleave, its status and the audit trail agree                        *)
(* (transitionEntry locks the entry before it reads it).                   *)
THEOREM TrailTells == Spec => []TrailMatchesStatus
  <1>1. IInv => TrailMatchesStatus
    BY DEF IInv, Story
  <1> QED  BY <1>1, Invariant, PTL

(* Nobody vouches for his own quantity, nor accepts what he verified       *)
(* (requireSeparationPolicy, asked under the lock of the entry).           *)
THEOREM FourEyesKept == Spec => []FourEyes
  <1>1. IInv => FourEyes
    BY DEF IInv, Story
  <1> QED  BY <1>1, Invariant, PTL

(* A report is not asked for under an id that an act used, and writes      *)
(* under the id it was asked for.                                          *)
LEMMA StepSpends ==
  ASSUME IInv, NEW r \in Slots, Opens(r) \/ Step(r), NEW k \in Commands, Spent(k)
  PROVE  Spent(k)' /\ (Reported(k)' => Reported(k))
  <1>1. TypeOK /\ Acted(k) /\ ~Reporting(k)
    BY DEF IInv, Spent
  <1>2. Acted(k)'
    <2>1. events \subseteq events'
      BY <1>1, OpensWith DEF Asked, Step, Proceed, Refuse, Collide, Abort, CommitSubmit,
         CommitCorrect, CommitTransition, CommitAttest
    <2> QED  BY <1>1, <2>1 DEF Acted
  <1>3. ~Reporting(k)'
    <2>1. CASE Opens(r)
      <3>1. PICK q : Asked(r, q)
        BY <1>1, <2>1, OpensWith
      <3>2. q.kind \in {"SUBMIT", "CORRECT"} => q.command # k
        BY <1>1, <3>1 DEF Asked, Checks, UnusedReports
      <3>3. /\ request'[r].ask = q
            /\ \A s \in Slots : s # r => request'[s] = request[s]
        BY <1>1, <3>1 DEF Asked, TypeOK
      <3> QED  BY <1>1, <3>2, <3>3 DEF Reporting
    <2>2. CASE Step(r)
      <3>1. \A s \in Slots : request'[s] # Null =>
               request[s] # Null /\ request'[s].ask = request[s].ask
        BY <1>1, <2>2, StepRequest, ProceedRequest
      <3> QED  BY <1>1, <3>1 DEF Reporting
    <2> QED  BY <2>1, <2>2
  <1>4. ASSUME ~Reported(k)
        PROVE  ~Reported(k)'
    <2>1. CASE UNCHANGED <<entries, events>>
      BY <1>4, <2>1 DEF Reported, Ids
    <2>2. CASE CommitSubmit(r) \/ CommitCorrect(r)
      <3>1. request[r].ask.command # k
        BY <1>1, <2>2 DEF Reporting, CommitSubmit, CommitCorrect, Ready
      <3>2. Adds(request[r].ask) /\ Kept(r)
        BY <1>1, <2>2, SubmitEffect, CorrectEffect, StepKeeps DEF Step
      <3> QED  BY <1>4, <3>1, <3>2 DEF Reported, Adds, NewEntry, Kept
    <2>3. CASE CommitTransition(r) \/ CommitAttest(r)
      <3>1. Ids' = Ids
        BY <1>1, <2>3, TransitionEffect DEF CommitAttest, Ids
      <3>2. Kept(r)
        BY <1>1, <2>3, StepKeeps DEF Step
      <3> QED  BY <1>4, <3>1, <3>2 DEF Reported, Kept
    <2> QED  BY <1>1, <2>1, <2>2, <2>3, OpensWith
             DEF Asked, Step, Proceed, Refuse, Collide, Abort
  <1> QED  BY <1>2, <1>3, <1>4 DEF Spent

(* A command leaves at most one entry and at most one event, an entry has  *)
(* at most one correction, and an id that an act used bears no later       *)
(* report, whatever was checked before the locks (the unique indexes, and  *)
(* COMMAND_ID_AUDIT_CONFLICT of submitFieldProgress and correctEntry).     *)
THEOREM CommandsOnce == Spec => CommandsSpent
  <1>1. IInv => OneReportOneAct
    BY DEF IInv, Story
  <1>2. IInv /\ [Next]_vars =>
          [\A k \in Commands : Spent(k) => Spent(k)' /\ (Reported(k)' => Reported(k))]_vars
    BY NextIsStep, StepSpends DEF vars
  <1> QED  BY <1>1, <1>2, Invariant, PTL DEF Spec, CommandsSpent

(* What the reader calls proven is a current entry that was verified:      *)
(* entries are written under the lock of the item an attestation takes.    *)
THEOREM ProvenCurrent == Spec => []ProvenIsCurrent
  <1>1. IInv => ProvenIsCurrent
    BY DEF IInv, Story
  <1> QED  BY <1>1, Invariant, PTL

(* No step changes a superseded entry or adds to what is said of it.       *)
LEMMA StepFrozen ==
  ASSUME IInv, NEW r \in Slots, Step(r), NEW e \in Ids, Superseded(e)
  PROVE  entries'[e] = entries[e] /\ \A v \in events' \ events : v.entry # e
  <1>1. TypeOK /\ DecisionsHold
    BY DEF IInv
  <1>2. CASE UNCHANGED <<entries, events>>
    BY <1>2
  <1>3. CASE CommitSubmit(r)
    BY <1>1, <1>3, SubmitEffect DEF CommitSubmit
  <1>4. CASE CommitCorrect(r)
    <2>1. request[r].ask.entry # e
      BY <1>4 DEF CommitCorrect, UniqueReport
    <2> QED  BY <1>1, <1>4, <2>1, CorrectEffect DEF CommitCorrect
  <1>5. CASE CommitTransition(r)
    <2>1. request[r].ask.entry # e
      BY <1>1, <1>5, HeldLocks DEF CommitTransition, Ready, DecisionsHold, Decided
    <2>2. entries'[e] = entries[e]
      BY <1>1, <1>5, <2>1, TransitionEffect
    <2> QED  BY <1>5, <2>1, <2>2 DEF CommitTransition, EventOf
  <1>6. CASE CommitAttest(r)
    <2>1. request[r].ask.entry # e
      BY <1>1, <1>6, HeldLocks DEF CommitAttest, Ready, DecisionsHold, Decided
    <2> QED  BY <1>6, <2>1 DEF CommitAttest, EventOf
  <1> QED  BY <1>2, <1>3, <1>4, <1>5, <1>6 DEF Step, Proceed, Refuse, Collide, Abort

(* A request that opens writes nothing.                                    *)
LEMMA OpensQuiet ==
  ASSUME IInv, NEW r \in Slots, Opens(r)
  PROVE  UNCHANGED <<entries, events>>
  BY OpensWith DEF Asked, IInv

(* A superseded entry is history: whoever decided before the correction    *)
(* committed held the lock the correction had to wait for.                 *)
THEOREM SupersededRests == Spec => SupersededIsFrozen
  <1>1. IInv /\ [Next]_vars =>
          [\A e \in Ids : Superseded(e) =>
             /\ entries'[e] = entries[e]
             /\ \A v \in events' \ events : v.entry # e]_vars
    BY NextIsStep, OpensQuiet, StepFrozen DEF vars
  <1> QED  BY <1>1, Invariant, PTL DEF Spec, SupersededIsFrozen

(* An attestation commits on the entries that stand then.                  *)
LEMMA StepAttests ==
  ASSUME IInv, NEW r \in Slots, Step(r), NEW v \in events' \ events, v.act = "ATTEST"
  PROVE  v.context = Context(entries[v.entry].item) /\ ~Superseded(v.entry)
  <1>1. TypeOK /\ DecisionsHold
    BY DEF IInv
  <1>2. CASE CommitTransition(r)
    BY <1>2 DEF CommitTransition, EventOf
  <1>3. CASE CommitAttest(r)
    <2>1. v = EventOf(request[r].ask)
      BY <1>3 DEF CommitAttest
    <2>2. request[r].ask.item = entries[request[r].ask.entry].item
      BY <1>1, <1>3, RequestTyped DEF CommitAttest, Ready
    <2>3. /\ request[r].ask.context = Context(request[r].ask.item)
          /\ ~Superseded(request[r].ask.entry)
      BY <1>1, <1>3, HeldLocks DEF CommitAttest, Ready, DecisionsHold, Decided
    <2> QED  BY <2>1, <2>2, <2>3 DEF EventOf
  <1> QED  BY <1>2, <1>3 DEF Step, Proceed, Refuse, Collide, Abort, CommitSubmit, CommitCorrect

(* An attestation is committed on the entries that stand at that moment    *)
(* (attestEntrySemantics recomputes the context under its locks).          *)
THEOREM AttestedStood == Spec => AttestedWhatStood
  <1>1. IInv /\ [Next]_vars =>
          [\A v \in events' \ events : v.act = "ATTEST" =>
             /\ v.context = Context(entries[v.entry].item)
             /\ ~Superseded(v.entry)]_vars
    BY NextIsStep, OpensQuiet, StepAttests DEF vars
  <1> QED  BY <1>1, Invariant, PTL DEF Spec, AttestedWhatStood

----------------------------------------------------------------------------
(* The ledger: what commits is what ProgressLedger does in one step.       *)

(* A request comes from somebody entitled to it, and only an attestation   *)
(* names a context.                                                        *)
Entitled ==
  \A r \in Slots : request[r] # Null =>
    /\ request[r].ask.by \in Holders[AskedAs(request[r].ask.kind)]
    /\ request[r].ask.kind # "ATTEST" => request[r].ask.context = {}

(* Opening is where the position of the person is looked at.               *)
LEMMA OpensEntitled ==
  ASSUME TypeOK, NEW r \in Slots, Opens(r)
  PROVE  request'[r] # Null =>
           /\ request'[r].ask.by \in Holders[AskedAs(request'[r].ask.kind)]
           /\ request'[r].ask.kind # "ATTEST" => request'[r].ask.context = {}
  <1>1. ASSUME NEW command \in Commands, NEW by \in Holders["SUBMIT"], NEW item \in Items,
               Submit(r, command, by, item)
        PROVE  request'[r].ask.kind = "SUBMIT" /\ request'[r].ask.by = by
               /\ request'[r].ask.context = {}
    BY <1>1 DEF Submit, Begin, TypeOK
  <1>2. ASSUME NEW kind \in {"CORRECT", "VERIFY", "ACCEPT", "ATTEST"},
               NEW command \in Commands, NEW by \in Holders[AskedAs(kind)], NEW e \in Ids,
               Act(r, kind, command, by, e)
        PROVE  request'[r].ask.kind = kind /\ request'[r].ask.by = by
               /\ (kind # "ATTEST" => request'[r].ask.context = {})
    BY <1>2 DEF Act, Begin, TypeOK
  <1> QED  BY <1>1, <1>2 DEF Opens, AskedAs

(* The position stays that of the person who asked.                        *)
LEMMA EntitledStep == TypeOK /\ Entitled /\ [Next]_vars => Entitled'
  <1> SUFFICES ASSUME TypeOK, Entitled, [Next]_vars
               PROVE  Entitled'
    OBVIOUS
  <1>1. CASE UNCHANGED vars
    BY <1>1 DEF vars, Entitled
  <1>2. ASSUME NEW r \in Slots, Opens(r)
        PROVE  Entitled'
    <2>1. \A s \in Slots : s # r => request'[s] = request[s]
      BY <1>2, OpensWith DEF Asked, TypeOK
    <2> QED  BY <1>2, <2>1, OpensEntitled DEF Entitled
  <1>3. ASSUME NEW r \in Slots, Step(r)
        PROVE  Entitled'
    BY <1>3, StepRequest, ProceedRequest DEF Entitled
  <1> QED  BY <1>1, <1>2, <1>3, NextIsStep

(* Both specifications read the rows in the same way.                      *)
LEMMA LedgerReads ==
  ASSUME TypeOK
  PROVE  /\ Ledger!Ids = Ids
         /\ \A e \in Ids : ~Superseded(e) <=> Ledger!Current(e)
         /\ \A i : Ledger!Standing(i) = Context(i)
         /\ \A k : Reported(k) <=> ~Ledger!FreshReport(k)
         /\ \A k : Acted(k) <=> ~Ledger!FreshEvent(k)
         /\ \A act, p, e : SeparateDuties(act, p, {entries[e].by}) <=>
              Ledger!Impartial(AskedAs(act), p, e)
         /\ \A p, e : SeparateDuties("ACCEPT", p, {entries[e].by} \cup Verifiers(e)) =>
              /\ Ledger!Impartial("ACCEPT", p, e)
              /\ p \in MayCombine["ACCEPT"] \/ ~Ledger!Verifier(e, p)
  <1>1. Ledger!Ids = Ids
    BY DEF Ledger!Ids, Ids
  <1>2. \A e \in Ids : ~Superseded(e) <=> Ledger!Current(e)
    BY <1>1 DEF Superseded, Ledger!Current
  <1>3. \A i : Ledger!Standing(i) = Context(i)
    BY <1>1 DEF Ledger!Standing, Context
  <1>4. /\ \A k : Reported(k) <=> ~Ledger!FreshReport(k)
        /\ \A k : Acted(k) <=> ~Ledger!FreshEvent(k)
    BY <1>1 DEF Ledger!FreshReport, Ledger!FreshEvent, Reported, Acted
  <1>5. \A act, p, e : SeparateDuties(act, p, {entries[e].by}) <=>
          Ledger!Impartial(AskedAs(act), p, e)
    BY DEF SeparateDuties, Ledger!Impartial, Ledger!Recorder
  <1>6. \A p, e : SeparateDuties("ACCEPT", p, {entries[e].by} \cup Verifiers(e)) =>
          /\ Ledger!Impartial("ACCEPT", p, e)
          /\ p \in MayCombine["ACCEPT"] \/ ~Ledger!Verifier(e, p)
    BY DEF SeparateDuties, AskedAs, Verifiers, Ledger!Impartial, Ledger!Recorder, Ledger!Verifier
  <1> QED  BY <1>1, <1>2, <1>3, <1>4, <1>5, <1>6

(* A submission commits as a report.                                       *)
LEMMA SubmitReports ==
  ASSUME TypeOK, Entitled, NEW r \in Slots, CommitSubmit(r)
  PROVE  Ledger!Next
  <1> PICK x : x = request[r]
    OBVIOUS
  <1> DEFINE q == x.ask
  <1>1. /\ q \in Ask /\ q.kind = "SUBMIT" /\ q.entry = 0
        /\ q.by \in Holders["SUBMIT"] /\ ~Reported(q.command)
    BY RequestTyped DEF CommitSubmit, Ready, Entitled, UniqueReport, AskedAs
  <1>2. entries' = Append(entries, NewEntry(q)) /\ events' = events
    BY DEF CommitSubmit
  <1> HIDE DEF q
  <1>3. NewEntry(q) = Ledger!Quantity(q.command, q.by, q.item, 0)
    BY <1>1 DEF NewEntry, Ledger!Quantity
  <1>4. Ledger!Report(q.command, q.by, q.item)
    BY <1>1, <1>2, <1>3, LedgerReads DEF Ledger!Report
  <1>5. q.command \in Commands /\ q.item \in Items
    BY <1>1 DEF Ask
  <1> QED  BY <1>1, <1>4, <1>5 DEF Ledger!Next

(* A correction commits as a correction of the entry as it is now: what    *)
(* the handler saw when it took the lock has not changed since.            *)
LEMMA CorrectCorrects ==
  ASSUME TypeOK, DecisionsHold, Entitled, NEW r \in Slots, CommitCorrect(r)
  PROVE  Ledger!Next
  <1> PICK x : x = request[r]
    OBVIOUS
  <1> DEFINE q == x.ask
             e == q.entry
             back == [f \in Ids |-> IF f = e /\ entries[e].status = "SUBMITTED"
                                    THEN [entries[e] EXCEPT !.status = "RETURNED"]
                                    ELSE entries[f]]
             kept == IF x.seen = "SUBMITTED"
                     THEN [entries EXCEPT ![e].status = "RETURNED"] ELSE entries
  <1>1. /\ q \in Ask /\ q.kind = "CORRECT" /\ e \in Ids /\ q.item = entries[e].item
        /\ q.by \in Holders["CORRECT"] /\ ~Reported(q.command)
    BY RequestTyped DEF CommitCorrect, Ready, Entitled, UniqueReport, AskedAs
  <1>2. ~Superseded(e) /\ x.seen = entries[e].status /\ x.seen \in Effective
    BY HeldLocks DEF CommitCorrect, Ready, DecisionsHold, Decided
  <1>3. entries' = Append(kept, NewEntry(q)) /\ events' = events
    BY DEF CommitCorrect
  <1> HIDE DEF q, e
  <1>4. kept = back
    <2>1. entries = [f \in Ids |-> entries[f]]
      BY DEF TypeOK, Ids
    <2>2. CASE x.seen = "SUBMITTED"
      <3>1. DOMAIN entries = Ids
        BY <2>1
      <3> QED  BY <1>1, <1>2, <2>2, <3>1
    <2>3. CASE x.seen # "SUBMITTED"
      BY <1>2, <2>1, <2>3
    <2> QED  BY <2>2, <2>3
  <1>5. NewEntry(q) = Ledger!Quantity(q.command, q.by, entries[e].item, e)
    BY <1>1 DEF NewEntry, Ledger!Quantity, e
  <1>6. entries[e].status # "RETURNED"
    BY <1>2 DEF Effective
  <1>7. entries' = Append(back, Ledger!Quantity(q.command, q.by, entries[e].item, e))
    BY <1>3, <1>4, <1>5
  <1>8. Ledger!Correct(q.command, q.by, e)
    BY <1>1, <1>2, <1>3, <1>6, <1>7, LedgerReads DEF Ledger!Correct
  <1>9. q.command \in Commands /\ e \in Ledger!Ids
    BY <1>1, LedgerReads DEF Ask
  <1> QED  BY <1>1, <1>8, <1>9 DEF Ledger!Next

(* A verification or acceptance commits with the guards it had passed.     *)
LEMMA TransitionPromotes ==
  ASSUME TypeOK, DecisionsHold, Entitled, NEW r \in Slots, CommitTransition(r)
  PROVE  Ledger!Next
  <1> PICK x : x = request[r]
    OBVIOUS
  <1> DEFINE q == x.ask
             e == q.entry
  <1>1. /\ q \in Ask /\ q.kind \in {"VERIFY", "ACCEPT"} /\ e \in Ids
        /\ q.by \in Holders[q.kind] /\ ~Acted(q.command) /\ q.context = {}
    BY RequestTyped DEF CommitTransition, Ready, Entitled, UniqueEvent, AskedAs
  <1>2. /\ ~Superseded(e)
        /\ entries[e].status = IF q.kind = "VERIFY" THEN "SUBMITTED" ELSE "VERIFIED"
        /\ SeparateDuties(q.kind, q.by, {entries[e].by})
        /\ q.kind = "ACCEPT" => SeparateDuties(q.kind, q.by, {entries[e].by} \cup Verifiers(e))
    BY HeldLocks DEF CommitTransition, Ready, DecisionsHold, Decided
  <1>3. /\ entries' = [entries EXCEPT ![e].status =
                         IF q.kind = "VERIFY" THEN "VERIFIED" ELSE "ACCEPTED"]
        /\ events' = events \cup {EventOf(q)}
    BY DEF CommitTransition
  <1> HIDE DEF q
  <1>4. EventOf(q) = [act |-> q.kind, command |-> q.command, by |-> q.by,
                      entry |-> e, context |-> {}]
    BY <1>1 DEF EventOf
  <1> HIDE DEF e
  <1>5. q.command \in Commands /\ e \in Ledger!Ids
        /\ Ledger!FreshEvent(q.command) /\ Ledger!Current(e)
    BY <1>1, <1>2, LedgerReads DEF Ask
  <1>6. CASE q.kind = "VERIFY"
    <2>1. Ledger!Impartial("VERIFY", q.by, e)
      BY <1>2, <1>6, LedgerReads DEF AskedAs
    <2>2. Ledger!Verify(q.command, q.by, e)
      BY <1>2, <1>3, <1>4, <1>5, <1>6, <2>1 DEF Ledger!Verify, Ledger!Promote
    <2> QED  BY <1>1, <1>5, <1>6, <2>2 DEF Ledger!Next
  <1>7. CASE q.kind = "ACCEPT"
    <2>1. /\ Ledger!Impartial("ACCEPT", q.by, e)
          /\ q.by \in MayCombine["ACCEPT"] \/ ~Ledger!Verifier(e, q.by)
      BY <1>2, <1>7, LedgerReads
    <2>2. Ledger!Accept(q.command, q.by, e)
      BY <1>2, <1>3, <1>4, <1>5, <1>7, <2>1 DEF Ledger!Accept, Ledger!Promote
    <2> QED  BY <1>1, <1>5, <1>7, <2>2 DEF Ledger!Next
  <1> QED  BY <1>1, <1>6, <1>7

(* An attestation commits with the context that stands.                    *)
LEMMA AttestAttests ==
  ASSUME TypeOK, DecisionsHold, Entitled, NEW r \in Slots, CommitAttest(r)
  PROVE  Ledger!Next
  <1> PICK x : x = request[r]
    OBVIOUS
  <1> DEFINE q == x.ask
             e == q.entry
  <1>1. /\ q \in Ask /\ q.kind = "ATTEST" /\ e \in Ids /\ q.item = entries[e].item
        /\ q.by \in Holders["VERIFY"] /\ ~Acted(q.command)
    BY RequestTyped DEF CommitAttest, Ready, Entitled, UniqueEvent, AskedAs
  <1>2. /\ ~Superseded(e) /\ entries[e].status \in {"VERIFIED", "ACCEPTED"}
        /\ q.context = Context(q.item)
        /\ SeparateDuties(q.kind, q.by, {entries[e].by})
    BY HeldLocks DEF CommitAttest, Ready, DecisionsHold, Decided
  <1>3. entries' = entries /\ events' = events \cup {EventOf(q)}
    BY DEF CommitAttest
  <1> HIDE DEF q
  <1>4. EventOf(q) = [act |-> "ATTEST", command |-> q.command, by |-> q.by,
                      entry |-> e, context |-> Ledger!Standing(entries[e].item)]
    BY <1>1, <1>2, LedgerReads DEF EventOf
  <1> HIDE DEF e
  <1>5. Ledger!Attest(q.command, q.by, e)
    BY <1>1, <1>2, <1>3, <1>4, LedgerReads DEF AskedAs, Ledger!Attest
  <1>6. q.command \in Commands /\ e \in Ledger!Ids
    BY <1>1, LedgerReads DEF Ask
  <1> QED  BY <1>1, <1>5, <1>6 DEF Ledger!Next

(* Every step is one of the ledger or leaves it alone.                     *)
LEMMA LedgerStep == IInv /\ Entitled /\ [Next]_vars => [Ledger!Next]_(Ledger!vars)
  <1> SUFFICES ASSUME IInv, Entitled, [Next]_vars
               PROVE  Ledger!Next \/ UNCHANGED Ledger!vars
    OBVIOUS
  <1>1. TypeOK /\ DecisionsHold
    BY DEF IInv
  <1>2. CASE UNCHANGED <<entries, events>>
    BY <1>2 DEF Ledger!vars
  <1>3. ASSUME NEW r \in Slots, Step(r)
        PROVE  Ledger!Next \/ UNCHANGED <<entries, events>>
    BY <1>1, <1>3, SubmitReports, CorrectCorrects, TransitionPromotes, AttestAttests
    DEF Step, Proceed, Refuse, Collide, Abort
  <1> QED  BY <1>2, <1>3, NextIsStep, OpensQuiet DEF vars, Ledger!vars

(* The handlers are serialisable: each commit is one step of the ledger,   *)
(* decided on the entries and events that stand when it is written, though *)
(* each of the four reads under locks it took one by one.                  *)
THEOREM Serialisable == Spec => ImplementsLedger
  <1>1. Init => Ledger!Init
    BY DEF Init, Ledger!Init
  <1>2. Init => Entitled
    BY DEF Init, Entitled
  <1>3. IInv => TypeOK
    BY DEF IInv
  <1> QED
    BY <1>1, <1>2, <1>3, InvInit, InvStep, EntitledStep, LedgerStep, PTL
    DEF Spec, ImplementsLedger, Ledger!Spec

=============================================================================
