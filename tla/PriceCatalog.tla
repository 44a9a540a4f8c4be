---------------------------- MODULE PriceCatalog ----------------------------
(***************************************************************************)
(* What the catalog of Basic Prices promises to whoever asks it for the    *)
(* prices of a day, with none of the machinery.  There are no submissions, *)
(* reviews or audit records: there is, for each day, the set of prices the *)
(* catalog answers with, and what may change these answers.                *)
(*                                                                         *)
(* One human accepts a price and another publishes it.  A price published  *)
(* in place of another takes its place in one step and from today on; the  *)
(* answers for earlier days lose nothing by it.  A withdrawal takes a      *)
(* price out from the day it names, and only once.  Nothing that was taken *)
(* out of an answer ever comes back.                                       *)
(*                                                                         *)
(* PriceGovernance, which computes each answer from audit records with     *)
(* dates of their own, is shown to implement this specification.           *)
(***************************************************************************)
EXTENDS Integers

CONSTANTS Prices,      \* what may become a price
          Humans,      \* who decides on it
          Days,        \* the calendar
          ContextOf,   \* resource and region of each price
          Null         \* nobody, no day

VARIABLES today,       \* the day it is
          acceptor,    \* [price -> who accepted it, or Null]
          from,        \* [price -> the first day it holds, or Null]
          published,   \* prices that were published
          replaced,    \* prices another one was published in place of
          withdrawn,   \* prices that were withdrawn
          lent,        \* prices the shared catalog restates
          answer       \* [day -> prices on offer for it]

vars == <<today, acceptor, from, published, replaced, withdrawn, lent, answer>>

Init ==
  /\ today = 0
  /\ acceptor = [p \in Prices |-> Null]
  /\ from = [p \in Prices |-> Null]
  /\ published = {} /\ replaced = {} /\ withdrawn = {} /\ lent = {}
  /\ answer = [d \in Days |-> {}]

NextDay ==
  /\ today' = today + 1
  /\ UNCHANGED <<acceptor, from, published, replaced, withdrawn, lent, answer>>

Accept(p, h) ==
  /\ acceptor[p] = Null
  /\ acceptor' = [acceptor EXCEPT ![p] = h]
  /\ \E d \in Days : from' = [from EXCEPT ![p] = d]
  /\ UNCHANGED <<today, published, replaced, withdrawn, lent, answer>>

(* Accepted by somebody else, and not yet published.                       *)
Publishable(p, h) == acceptor[p] \notin {Null, h} /\ p \notin published

With(p, d) == IF from[p] <= d THEN {p} ELSE {}

Publish(p, h) ==
  /\ Publishable(p, h)
  /\ published' = published \cup {p}
  /\ answer' = [d \in Days |-> answer[d] \cup With(p, d)]
  /\ UNCHANGED <<today, acceptor, from, replaced, withdrawn, lent>>

Replace(p, h, old) ==
  /\ Publishable(p, h)
  /\ old \in published \ replaced /\ ContextOf[old] = ContextOf[p]
  /\ published' = published \cup {p}
  /\ replaced' = replaced \cup {old}
  /\ answer' = [d \in Days |->
       (IF d >= today THEN answer[d] \ {old} ELSE answer[d]) \cup With(p, d)]
  /\ UNCHANGED <<today, acceptor, from, withdrawn, lent>>

Withdraw(p, day) ==
  /\ p \in published \ withdrawn
  /\ withdrawn' = withdrawn \cup {p}
  /\ answer' = [d \in Days |-> IF d >= day THEN answer[d] \ {p} ELSE answer[d]]
  /\ UNCHANGED <<today, acceptor, from, published, replaced, lent>>

(* Only what is the last word on its resource is lent, and once.           *)
Lend(p) ==
  /\ p \in published \ (replaced \cup lent)
  /\ lent' = lent \cup {p}
  /\ UNCHANGED <<today, acceptor, from, published, replaced, withdrawn, answer>>

Next ==
  \/ NextDay
  \/ \E p \in Prices :
       \/ \E h \in Humans :
            Accept(p, h) \/ Publish(p, h) \/ \E old \in Prices : Replace(p, h, old)
       \/ \E day \in Days : Withdraw(p, day)
       \/ Lend(p)

Spec == Init /\ [][Next]_vars

=============================================================================
