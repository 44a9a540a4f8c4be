------------------------------ MODULE RabFreeze ------------------------------
(***************************************************************************)
(* What the budget (RAB) of a project promises to everybody who relies on  *)
(* it, with none of the machinery: while it is OPEN its lines may change   *)
(* at will; one person seals it, which is possible only when every line    *)
(* can be proven and the total is the total of these lines; a sealed       *)
(* budget becomes official by a second act; and from the seal on neither   *)
(* the lines, nor the total, nor the person who sealed it ever change.     *)
(*                                                                         *)
(* RabLifecycle is shown to implement this specification.                  *)
(***************************************************************************)
EXTENDS Integers

CONSTANTS Lines,    \* the identities a budget line can have
          People,   \* those who may seal a budget
          Null      \* a value that is not there

VARIABLES phase,    \* "OPEN", "SEALED" or "OFFICIAL"
          lines,    \* from each line of the budget to what it says
          total,    \* the summands of the stated total, or Null
          sealer    \* who sealed it, or Null

vars == <<phase, lines, total, sealer>>

Line == [money : Nat \cup {Null}, proven : BOOLEAN]

(* Money is kept in cents and the summands of a total in tenths of a cent. *)
Sealable ==
  /\ DOMAIN lines # {}
  /\ \A i \in DOMAIN lines : lines[i].proven
  /\ total = [i \in DOMAIN lines |-> 10 * lines[i].money]

Init ==
  /\ phase = "OPEN"
  /\ lines = [i \in {} |-> 0]
  /\ total = Null
  /\ sealer = Null

Edit ==
  /\ phase = "OPEN"
  /\ DOMAIN lines' \subseteq Lines
  /\ \A i \in DOMAIN lines' : lines'[i] \in Line
  /\ UNCHANGED <<phase, sealer>>

Seal(p) ==
  /\ phase = "OPEN"
  /\ Sealable
  /\ phase' = "SEALED"
  /\ sealer' = p
  /\ UNCHANGED <<lines, total>>

Officialise ==
  /\ phase = "SEALED"
  /\ phase' = "OFFICIAL"
  /\ UNCHANGED <<lines, total, sealer>>

Next == Edit \/ (\E p \in People : Seal(p)) \/ Officialise

Spec == Init /\ [][Next]_vars

=============================================================================
