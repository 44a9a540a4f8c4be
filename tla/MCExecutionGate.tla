-------------------------- MODULE MCExecutionGate ---------------------------
(* Values for the constants of ExecutionGate.                              *)
EXTENDS ExecutionGate, TLC

CONSTANTS i1, a, b, p, q, k1, k2

Two == i1 :> 2
Day1To2 == 1..2
Day1To3 == 1..3
Row(from, to, quantity) == [item |-> i1, from |-> from, to |-> to, quantity |-> quantity]
(* Two and one intervals with a credit on day two; a sum that falls short. *)
SomeDrafts == {{Row(1, 1, 1), Row(2, 2, 1)}, {Row(1, 2, 2)}, {Row(2, 2, 2)}}
(* One plan credits its quantity before a day one of 2, one after it.      *)
FewDrafts == {{Row(1, 1, 2)}, {Row(1, 2, 2)}, {Row(2, 2, 2)}}
ClientsAlike == Permutations({a, b}) \cup Permutations({p, q}) \cup Permutations({k1, k2})

=============================================================================
