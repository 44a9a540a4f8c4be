--------------------------- MODULE MCRabLifecycle ---------------------------
(* Values for the constants of RabLifecycle.                               *)
EXTENDS RabLifecycle, TLC

CONSTANT p1

(* The costs are chosen so that rounding shows: 7 tenths of a cent for     *)
(* half a unit make a unit price of 1 cent and, for a unit and a half, a   *)
(* line total of 2 cents.                                                  *)
OneVersion == {1}
TwoVersions == {1, 2}
OneCost == [v \in OneVersion |-> (p1 :> 7)]
TwoVersionCosts ==
  [v \in TwoVersions |-> IF v = 1 THEN (p1 :> 7) ELSE (p1 :> 4)]

(* Rows are interchangeable: no definition tells one from another.         *)
RowSymmetry == Permutations(Items)

=============================================================================
