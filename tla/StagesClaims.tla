----------------------------- MODULE StagesClaims ----------------------------
(***************************************************************************)
(* What the plan of scripts/run-catalog-validation.py says of an           *)
(* interrupted stage, and the code does not do.                            *)
(***************************************************************************)
EXTENDS StagedValidation

\* "Interrupted same-stage resume는 PASS receipt의 input/output SHA를 다시 검증해
\* 재사용하고": a stage that is run again is not blocked by the receipts of jobs that
\* passed for the same manifest.
ResumeReuses ==
  \A v \in Value, s \in Stage :
    (aggregate[<<v, s>>] # Nothing /\ aggregate[<<v, s>>].why = "exists") =>
      \A j \in 1..Jobs[s] :
        evidence[<<v, <<s, j>>>>] # [status |-> "PASS", manifest |-> aggregate[<<v, s>>].manifest]
===============================================================================
