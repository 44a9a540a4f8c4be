------------------------- MODULE MCPriceGovernance -------------------------
(* Values for the constants of PriceGovernance.                            *)
EXTENDS PriceGovernance, TLC

(* Prices of one resource and region, any of which may claim to correct    *)
(* any other; or each of another one.                                      *)
OneContext == [p \in Prices |-> 1]
OwnContexts == [p \in Prices |-> p]

(* Prices are interchangeable: no definition tells one from another.       *)
PriceSymmetry == Permutations(Prices)

=============================================================================
