----------------------------- MODULE JobsClaims ------------------------------
(***************************************************************************)
(* What the design of issues #242 and #243, and a comment in the code, say *)
(* of the inputs of a job and the code does not do.                        *)
(***************************************************************************)
EXTENDS BoundedJobs

\* docs/superpowers/specs/2026-09-06-issues-242-243-dependency-signing-governance-design.md:356-358:
\* the inputs are checked again after the child, so source that was changed during
\* the run is never recorded as the output of the verified HEAD ("must never be
\* attested", run-issues-242-243-validation.py:2340-2342).  A change that is undone
\* before the check is not seen, whatever the child has read.
EditsNoticed ==
  \A j \in Job : [](j \in edited /\ Alive(j) => [](job[j].verdict # "pass"))
=============================================================================
