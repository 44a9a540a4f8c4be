----------------------------- MODULE ReviewBook -----------------------------
(***************************************************************************)
(* What the rows of an imported price list promise to the person who       *)
(* reviews them, with none of the machinery: a row is decided, turned      *)
(* down, taken back or reopened in one step that counts; the batch offers  *)
(* all its ready rows in one step, each as it was decided; what is offered *)
(* is not decided again; and a resource gets one private price.            *)
(*                                                                         *)
(* ImportReview, where each of these is a transaction that decides before  *)
(* it commits while others are under way, is shown to implement this       *)
(* specification.  The status of the batch is not part of the promise: it  *)
(* is written from what a transaction did not lock.                        *)
(***************************************************************************)
EXTENDS Integers

CONSTANTS Rows,        \* rows of the batch
          Resources,   \* what a row can be the price of
          Null         \* no resource

VARIABLES status,     \* [row -> where it stands]
          resource,   \* [row -> what was decided of it, or Null]
          turn,       \* [row -> how often it was decided or taken back]
          offers,     \* [row -> what was offered to the community for it]
          price       \* [row -> resource of its private price, or Null]

vars == <<status, resource, turn, offers, price>>

Init ==
  /\ status = [r \in Rows |-> "NEEDS_REVIEW"]
  /\ resource = [r \in Rows |-> Null]
  /\ turn = [r \in Rows |-> 0]
  /\ offers = [r \in Rows |-> {}]
  /\ price = [r \in Rows |-> Null]

Ready(r) == status[r] = "READY_FOR_SUBMISSION" /\ resource[r] \in Resources

Turn(r, next, c) ==
  /\ status' = [status EXCEPT ![r] = next]
  /\ resource' = [resource EXCEPT ![r] = c]
  /\ turn' = [turn EXCEPT ![r] = @ + 1]
  /\ UNCHANGED <<offers, price>>

(* A row whose resource another row claims keeps waiting for its reviewer. *)
Decide(r, c) ==
  /\ status[r] = "NEEDS_REVIEW"
  /\ \E next \in {"NEEDS_REVIEW", "READY_FOR_SUBMISSION"} : Turn(r, next, c)

Reject(r) ==
  /\ status[r] = "NEEDS_REVIEW"
  /\ Turn(r, "REJECTED", resource[r])

TakeBack(r) ==
  /\ Ready(r) /\ offers[r] = {}
  /\ Turn(r, "NEEDS_REVIEW", Null)

Reopen(r) ==
  /\ status[r] = "REJECTED" /\ resource[r] = Null /\ offers[r] = {}
  /\ Turn(r, "NEEDS_REVIEW", Null)

(* All of them or none.                                                    *)
SubmitBatch(S) ==
  /\ S # {}
  /\ \A r \in S : Ready(r) /\ offers[r] = {}
  /\ status' = [r \in Rows |-> IF r \in S THEN "SUBMISSION_CREATED" ELSE status[r]]
  /\ offers' = [r \in Rows |-> IF r \in S THEN {[door |-> "BATCH", resource |-> resource[r]]}
                               ELSE offers[r]]
  /\ UNCHANGED <<resource, turn, price>>

(* A private price is offered on its own once, offered with its batch or   *)
(* not.                                                                    *)
SubmitPrice(r) ==
  /\ price[r] \in Resources
  /\ \A o \in offers[r] : o.door # "DETAIL"
  /\ status' = [status EXCEPT ![r] = "SUBMISSION_CREATED"]
  /\ offers' = [offers EXCEPT ![r] = @ \cup {[door |-> "DETAIL", resource |-> price[r]]}]
  /\ UNCHANGED <<resource, turn, price>>

Keep(S) ==
  /\ S # {}
  /\ \A r \in S :
       /\ Ready(r) /\ price[r] = Null
       /\ \A o \in Rows : price[o] # resource[r]
       /\ \A o \in S \ {r} : resource[o] # resource[r]
  /\ price' = [r \in Rows |-> IF r \in S THEN resource[r] ELSE price[r]]
  /\ UNCHANGED <<status, resource, turn, offers>>

Next ==
  \/ \E r \in Rows :
       \/ \E c \in Resources : Decide(r, c)
       \/ Reject(r) \/ TakeBack(r) \/ Reopen(r) \/ SubmitPrice(r)
  \/ \E S \in SUBSET Rows : SubmitBatch(S) \/ Keep(S)

Spec == Init /\ [][Next]_vars

=============================================================================
