---------------------------- MODULE JobsInvariant ----------------------------
(***************************************************************************)
(* The inductive invariant of BoundedJobs: what the scheduler knows of the *)
(* jobs it has submitted and collected at each of its statements.          *)
(***************************************************************************)
EXTENDS BoundedJobs

Collected == {j \in Job : j < next /\ j \notin futures}
Unpassed  == {j \in Collected : job[j].verdict # "pass"}

\* A future goes from queued to done; a live group has a thread that watches it,
\* or could not be killed.
ThreadOK(j) ==
  /\ job[j].at = "new" <=> j >= next
  /\ job[j].verdict = "none" <=> job[j].at # "done"
  /\ Alive(j) => \/ job[j].at \in {"reading", "waiting"}
                 \/ job[j].at = "done" /\ j \in Stubborn /\ job[j].verdict # "pass"
  /\ job[j].verdict = "cancelled" => cancel

\* What was collected is what the job came to, nothing else is recorded.
CollectedOK(j) ==
  /\ j \in Collected =>
       /\ job[j].at = "done" /\ job[j].verdict # "unstarted"
       /\ j \in errors <=> job[j].verdict = "error"
       /\ results[j] = IF job[j].verdict = "error" THEN "none" ELSE job[j].verdict
  /\ j \notin Collected => results[j] = "none" /\ j \notin errors

\* Inputs that differed while a child lived, and were not put back, still differ.
InputsOK(j) == j \in tainted => j \in edited /\ job[j].verdict # "pass"

\* While jobs are submitted nothing has failed, and the pool is full until the
\* items end.
SubmittingOK ==
  pc \in {"submit", "wait"} =>
    /\ first = 0 /\ ~cancel /\ errors = {} /\ cancelled = {}
    /\ \A j \in Collected : job[j].verdict = "pass"
    /\ next <= N => Cardinality(futures) + quota = W

\* The first failure is a collected one.
BlameOK ==
  /\ first # 0 => first \in Collected /\ job[first].verdict \in {"fail", "error", "expired"}
  /\ pc = "drain" => first # 0 /\ cancelled = {}

\* After the submissions: all is collected, or something was blamed.
EndOK ==
  /\ pc \in {"shutdown", "returned"} =>
       /\ futures = {}
       /\ first = 0 => next > N /\ \A j \in Collected : job[j].verdict = "pass"
       /\ cancelled = Skipped
  /\ pc \in {"abort", "raised"} => \A j \in Job : job[j].at # "queued"
  /\ pc \in {"returned", "raised"} => Busy = {}
  /\ \A j \in Job : job[j].verdict = "unstarted" => pc \in {"abort", "raised"}

JobsInv ==
  /\ TypeOK
  /\ \A j \in futures : j < next
  /\ \A j \in Job : ThreadOK(j) /\ CollectedOK(j) /\ InputsOK(j)
  /\ SubmittingOK /\ BlameOK /\ EndOK
  /\ Cardinality(futures \cup Unpassed) + quota <= W
  /\ pc = "wait" => quota = 0
=============================================================================
