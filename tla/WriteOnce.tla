------------------------------ MODULE WriteOnce ------------------------------
(***************************************************************************)
(* What _publish_immutable_snapshot and write_immutable_bytes of           *)
(* scripts/catalog_rollout_evidence.py promise: what is at a name is there *)
(* completely or not at all, and is never replaced or taken away by them.  *)
(* Somebody else may remove it (a checkout, a clean build); then the name  *)
(* is free again.                                                          *)
(***************************************************************************)
EXTENDS Naturals

CONSTANTS Key, Value, NoValue

VARIABLES
  register, \* [Key -> Value or NoValue]
  losses    \* how often somebody else removed one

Init == register = [k \in Key |-> NoValue] /\ losses = 0

Put(k) ==
  /\ register[k] = NoValue /\ register'[k] \in Value
  /\ register' = [register EXCEPT ![k] = register'[k]]
  /\ UNCHANGED losses

Lose(k) ==
  /\ losses' = losses + 1
  /\ register' = [register EXCEPT ![k] = NoValue]

Next == \E k \in Key : Put(k) \/ Lose(k)

Spec == Init /\ [][Next]_<<register, losses>>
===============================================================================
