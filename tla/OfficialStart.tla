---------------------------- MODULE OfficialStart ----------------------------
(***************************************************************************)
(* What the start of a project's execution promises to whoever measures    *)
(* progress from it, with none of the machinery.  Three things are fixed   *)
(* once and never move again: the first day of work, the sealed plan, and  *)
(* the start itself.  The first two may come in either order; the start    *)
(* comes last, and only when no planned interval begins before day one.    *)
(*                                                                         *)
(* ExecutionGate is shown to implement this specification.                 *)
(***************************************************************************)
EXTENDS Integers

CONSTANTS Days,     \* calendar days, as integers
          Null      \* a value that is not there

VARIABLES dayOne,   \* the first day of work, or Null
          sealed,   \* the sealed plan: a set of intervals, or Null
          begun     \* whether execution was officially started

vars == <<dayOne, sealed, begun>>

Init == dayOne = Null /\ sealed = Null /\ begun = FALSE

FixDayOne ==
  /\ dayOne = Null
  /\ dayOne' \in Days
  /\ UNCHANGED <<sealed, begun>>

Seal ==
  /\ sealed = Null
  /\ sealed' # Null
  /\ UNCHANGED <<dayOne, begun>>

Begin ==
  /\ ~begun /\ dayOne # Null /\ sealed # Null
  /\ \A r \in sealed : r.from >= dayOne
  /\ begun' = TRUE
  /\ UNCHANGED <<dayOne, sealed>>

Next == FixDayOne \/ Seal \/ Begin

Spec == Init /\ [][Next]_vars

=============================================================================
