-------------------------- MODULE MCProgressEntries --------------------------
(* Values for the constants of ProgressEntries.                            *)
EXTENDS ProgressEntries, TLC

CONSTANTS p1, p2, k1, k2, k3, k4, r1, r2

(* A foreman who reports and a supervisor who corrects; both verify and    *)
(* accept.  The supervisor may verify what he recorded, the foreman may    *)
(* accept what he recorded or verified, and neither may do the other.      *)
ForemanAndSupervisor ==
  [SUBMIT |-> {p1}, CORRECT |-> {p2}, VERIFY |-> {p1, p2}, ACCEPT |-> {p1, p2}]
TwoPolicies == [VERIFY |-> {p2}, ACCEPT |-> {p1}]

Alike == {k @@ r : k \in Permutations({k1, k2, k3, k4}), r \in Permutations({r1, r2})}

=============================================================================
