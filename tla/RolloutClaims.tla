---------------------------- MODULE RolloutClaims ----------------------------
(***************************************************************************)
(* What docs/lessons/2026-10-24-immutable-catalog-rollout-evidence.md says *)
(* of the rollout transaction and the code does not do.  Each property is  *)
(* refuted by a configuration of its own.                                  *)
(***************************************************************************)
EXTENDS RolloutTransaction

\* Lines 34-35: when the deletion of the identity or of the journal is
\* interrupted, the marker remains and finalization can be resumed.  The
\* journal is deleted before the marker, and recovery without a journal refuses
\* a marker instead of finishing.
MarkerResumes == Quiet /\ run.pc = "idle" /\ marker # NoFile ~> Settled

\* Lines 46-48: the two ledgers of a promotion are updated together through a
\* journal that a rerun can recover.  A target that already holds the desired
\* bytes is taken for an unrecorded publication, in the first run and in every
\* rerun, so the transaction never completes.
RerunCompletes == Quiet /\ begun # NoFile ~> Settled

\* Lines 28-29: an interrupted quarantine is turned back into rollback evidence
\* by the next recovery.  An entry that has reached a private name inside the
\* directory is rejected by every recovery.
QuarantineReturns == Quiet /\ run.pc = "idle" /\ Quarantines # {} ~> Quarantines = {}

\* Lines 30-31: the rollback tombstone of a target that did not exist before is
\* cleaned up by the next run.  Its name carries a process id where recovery
\* looks for the transaction id, and is reported as another transaction's.
RolledBack == {t \in Target : debris[t]["rollback"] # NoFile
                                /\ debris[t]["rollback"].at = "base"}
TombstoneCleaned == Quiet /\ run.pc = "idle" /\ RolledBack # {} ~> RolledBack = {}

\* Lines 35-36: with the marker present, a target that does not hold the desired
\* bytes is not applied again.  The check is made once, before the publication
\* loop, which writes a target found at its prior bytes by then.
NoReapply ==
  [][\A t \in Target :
       /\ marker # NoFile
       /\ Data(target[t]) # begun.want[t]
       /\ faults'.external = faults.external
       => Data(target'[t]) # begun.want[t]]_vars
===============================================================================
