---------------------------- MODULE MCBoundedJobs ----------------------------
(* Model-checking instance of BoundedJobs. *)
EXTENDS JobsInvariant
=============================================================================
