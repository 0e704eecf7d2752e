------------------------ MODULE MCRolloutTransaction ------------------------
(* Model-checking instance of RolloutTransaction. *)
EXTENDS RolloutClaims, RolloutInvariant, TLC

CONSTANT StartData  \* what a target may hold before the first transaction

Start == Init /\ \A t \in Target : Data(target[t]) \in StartData
MCSpec == Start /\ [][Next]_vars
MCFairSpec == MCSpec /\ Fairness

Symmetry == Permutations(Ino)
=============================================================================
