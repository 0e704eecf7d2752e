---------------------------- MODULE MCHelperSync -----------------------------
(***************************************************************************)
(* HelperSync for TLC: of the two targets the first has a foreign file and *)
(* the second has none, so that both ways of a rollback are taken.         *)
(***************************************************************************)
EXTENDS SyncInvariant, TLC

Symmetric == Permutations(Process) \cup Permutations(Source) \cup Permutations(Map)

Mixture == Init /\ file[1] # Absent /\ file[2] = Absent

MCSpec == Mixture /\ [][Next]_vars
===============================================================================
