----------------------------- MODULE SyncClaims ------------------------------
(***************************************************************************)
(* A statement of sync-publishing-signing-support.py about itself that the *)
(* code does not meet.                                                     *)
(***************************************************************************)
EXTENDS HelperSync

\* _replace_and_read_back, 538-540: "an interrupted/partially completed os.replace
\* must still enter rollback, whose CAS check makes a pre-replace failure a safe
\* no-op/conflict": a rollback changes a target only if the call has renamed its
\* file to it.
RollbackOwn ==
  \A p \in Process : pc[p] \in {"put", "unlink"} =>
    Last(replaced[p]) \in wrote[p] \/ Unchanged(p, Last(replaced[p]))
===============================================================================
