--------------------------- MODULE MCImportReview ---------------------------
(* Values for the constants of ImportReview.                               *)
EXTENDS ImportReview, TLC

CONSTANTS s1, s2

(* Room on one row to decide, take back and decide again.                  *)
ThreeThenTwo == 1 :> 3 @@ 2 :> 2
Alike == Permutations({s1, s2})

=============================================================================
