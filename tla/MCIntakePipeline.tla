-------------------------- MODULE MCIntakePipeline --------------------------
(* Values for the constants of IntakePipeline.                             *)
EXTENDS IntakePipeline, TLC

CONSTANTS u1, u2, u3, f1, f2, r1, r2, r3

(* The first file is uploaded twice.                                       *)
TwoOfOne == u1 :> f1 @@ u2 :> f1 @@ u3 :> f2
RowsOfBoth == f1 :> {r1, r2} @@ f2 :> {r3}
OneOfOne == u1 :> f1
RowsOfFirst == f1 :> {r1, r2}

=============================================================================
