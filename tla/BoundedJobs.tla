----------------------------- MODULE BoundedJobs -----------------------------
(***************************************************************************)
(* The jobs of one validation phase: run_bounded_jobs, execute_job and     *)
(* run_command of scripts/run-issues-242-243-validation.py.                *)
(*                                                                         *)
(* A scheduler submits jobs in order to W threads, a new one for each that *)
(* was collected.  A thread checks the inputs of its job, answers from the *)
(* evidence cache or runs a child process, and watches the child until its *)
(* group is gone.  The first failure sets an event that the threads poll;  *)
(* the scheduler then waits for what it submitted and submits no more.     *)
(***************************************************************************)
EXTENDS Integers, FiniteSets

CONSTANTS
  N,          \* number of jobs; they are ordered
  W,          \* max_workers
  Producing,  \* jobs that publish artifacts and never answer from the cache
  Stubborn,   \* jobs whose process group may refuse signals or survive SIGKILL
  MaxEdit     \* bound: jobs whose inputs differ at the same time

Job == 1..N

ASSUME JobsAssumption ==
  /\ N \in Nat /\ W \in Nat \ {0}
  /\ Producing \subseteq Job /\ Stubborn \subseteq Job
  /\ MaxEdit \in Nat

VARIABLES
  pc,        \* statement of run_bounded_jobs
  next,      \* first item that was not submitted
  quota,     \* calls of submit_next that are due
  futures,   \* submitted and not collected
  results,   \* [Job -> status of the collected result]
  errors,    \* collected exceptions
  cancelled, \* jobs reported as not run
  first,     \* first_failure, 0 for None
  cancel,    \* the cancel event
  job,       \* [Job -> statement of its thread and what the job came to]
  child,     \* [Job -> its process group]
  cached,    \* jobs with a valid entry in the evidence cache
  edited,    \* jobs whose inputs differ from the recorded ones
  expired,   \* the deadline of the phase has passed
  tainted    \* history: jobs whose inputs differed while their child lived and
             \*   have not been put back since

scheduler == <<pc, next, quota, futures, results, errors, cancelled, first, cancel>>
vars      == <<scheduler, job, child, cached, edited, expired, tainted>>

Status == {"pass", "fail", "expired", "cancelled"}
Verdict == Status \cup {"none", "error", "unstarted"}

Statement == {"new", "queued", "checked", "hit", "missed", "launch", "spawn",
              "reading", "waiting", "attest", "done"}

Group == [leader : {"none", "runs", "zero", "nonzero"}, \* or how it ended
          others : BOOLEAN,                             \* descendants live
          open   : BOOLEAN]                             \* the output is held open

NoChild == [leader |-> "none", others |-> FALSE, open |-> FALSE]

\* _process_group_alive
Alive(j) == child[j].leader = "runs" \/ child[j].others

Finish(j, verdict) == job' = [job EXCEPT ![j] = [at |-> "done", verdict |-> verdict]]
Goto(j, at)        == job' = [job EXCEPT ![j] = [at |-> at, verdict |-> job[j].verdict]]
-------------------------------------------------------------------------------
\* execute_job

\* validate_job_binding: the inputs are the recorded ones.
BindingHolds(j) == j \notin edited

\* write_cache_entry
WriteCache(j) == cached' = cached \cup {j}

\* Threads of the executor that are at work.
Busy == {j \in Job : job[j].at \notin {"new", "queued", "done"}}

\* The deadline, then the first revalidate()
Begin(j) ==
  /\ job[j].at = "queued" /\ Cardinality(Busy) < W
  /\ IF expired THEN Finish(j, "expired")
     ELSE IF BindingHolds(j) THEN Goto(j, "checked") ELSE Finish(j, "error")
  /\ UNCHANGED <<scheduler, child, cached, edited, expired, tainted>>

\* read_cache_entry
Lookup(j) ==
  /\ job[j].at = "checked"
  /\ Goto(j, IF j \in cached \ Producing THEN "hit" ELSE "missed")
  /\ UNCHANGED <<scheduler, child, cached, edited, expired, tainted>>

\* revalidate() before a hit is trusted
Confirm(j) ==
  /\ job[j].at = "hit"
  /\ Finish(j, IF BindingHolds(j) THEN "pass" ELSE "error")
  /\ UNCHANGED <<scheduler, child, cached, edited, expired, tainted>>

\* revalidate() before a child is launched, and what is left of the budget
Prepare(j) ==
  /\ job[j].at = "missed"
  /\ IF ~BindingHolds(j) THEN Finish(j, "error")
     ELSE IF expired THEN Finish(j, "expired") ELSE Goto(j, "launch")
  /\ UNCHANGED <<scheduler, child, cached, edited, expired, tainted>>

\* Mutant: the inputs are not checked again after the child.
AttestUnchecked(j) ==
  /\ job[j].at = "attest"
  /\ Finish(j, "pass") /\ WriteCache(j)
  /\ UNCHANGED <<scheduler, child, edited, expired, tainted>>

\* revalidate() after a child that passed, and write_cache_entry
Attest(j) ==
  /\ job[j].at = "attest"
  /\ IF BindingHolds(j)
       THEN Finish(j, "pass") /\ WriteCache(j)
       ELSE Finish(j, "error") /\ UNCHANGED cached
  /\ UNCHANGED <<scheduler, child, edited, expired, tainted>>
-------------------------------------------------------------------------------
\* run_command

CheckCancel(j) ==
  /\ job[j].at = "launch"
  /\ IF cancel THEN Finish(j, "cancelled") ELSE Goto(j, "spawn")
  /\ UNCHANGED <<scheduler, child, cached, edited, expired, tainted>>

\* Popen, which may fail
Spawn(j) ==
  /\ job[j].at = "spawn"
  /\ \/ /\ Goto(j, "reading")
        /\ child' = [child EXCEPT ![j] = [leader |-> "runs", others |-> FALSE, open |-> TRUE]]
        /\ tainted' = tainted \cup ({j} \cap edited)
     \/ Finish(j, "fail") /\ UNCHANGED <<child, tainted>>
  /\ UNCHANGED <<scheduler, cached, edited, expired>>

\* Mutant: only the leader is killed.
KillLeader(j, verdict) ==
  /\ child' = [child EXCEPT ![j].leader = IF @ = "runs" THEN "nonzero" ELSE @]
  /\ Finish(j, verdict)
  /\ UNCHANGED <<scheduler, cached, edited, expired, tainted>>

\* _terminate_process_group: SIGTERM, then SIGKILL.  A group that survives both is
\* an error; one that may not be signalled (PermissionError) is left as it is, and
\* run_command returns as if it had been killed.
Kill(j, verdict) ==
  /\ \/ /\ child' = [child EXCEPT ![j] =
                       [leader |-> IF @.leader = "runs" THEN "nonzero" ELSE @.leader,
                        others |-> FALSE, open |-> FALSE]]
        /\ Finish(j, verdict)
     \/ /\ j \in Stubborn /\ Alive(j)
        /\ Finish(j, "error") \/ Finish(j, verdict)
        /\ UNCHANGED child
  /\ UNCHANGED <<scheduler, cached, edited, expired, tainted>>

SeeCancel(j) == job[j].at = "reading" /\ cancel /\ Kill(j, "cancelled")

\* Mutant: the last wait for the child has no timeout.
TimeOutReading(j) == job[j].at = "reading" /\ Kill(j, "fail")

\* The timeout of the child, which ends before the deadline of the phase
TimeOut(j) == /\ \/ job[j].at = "reading"
                 \/ job[j].at = "waiting" /\ child[j].leader = "runs"
              /\ Kill(j, "fail")

\* More output than MAX_COMMAND_OUTPUT_BYTES
Overflow(j) == job[j].at = "reading" /\ Kill(j, "fail")

\* The leader has ended and left processes in its group.
SeeOthers(j) == /\ job[j].at \in {"reading", "waiting"}
                /\ child[j].leader # "runs" /\ child[j].others
                /\ Kill(j, "fail")

EndOfOutput(j) ==
  /\ job[j].at = "reading" /\ ~child[j].open
  /\ Goto(j, "waiting")
  /\ UNCHANGED <<scheduler, child, cached, edited, expired, tainted>>

\* process.wait returns and the group is empty.
Exited(j) ==
  /\ job[j].at = "waiting" /\ ~Alive(j)
  /\ IF child[j].leader = "zero" THEN Goto(j, "attest") ELSE Finish(j, "fail")
  /\ UNCHANGED <<scheduler, child, cached, edited, expired, tainted>>

Work(j) ==
  \/ Begin(j) \/ Lookup(j) \/ Confirm(j) \/ Prepare(j) \/ CheckCancel(j) \/ Spawn(j)
  \/ SeeCancel(j) \/ TimeOut(j) \/ Overflow(j) \/ SeeOthers(j) \/ EndOfOutput(j)
  \/ Exited(j) \/ Attest(j)
-------------------------------------------------------------------------------
\* run_bounded_jobs

\* submit_next
Submit ==
  /\ pc = "submit" /\ quota > 0 /\ next <= N
  /\ next' = next + 1 /\ quota' = quota - 1
  /\ futures' = futures \cup {next}
  /\ Goto(next, "queued")
  /\ UNCHANGED <<pc, results, errors, cancelled, first, cancel,
                 child, cached, edited, expired, tainted>>

Submitted ==
  /\ pc = "submit" /\ (quota = 0 \/ next > N)
  /\ pc' = IF futures = {} THEN "shutdown" ELSE "wait"
  /\ quota' = 0
  /\ UNCHANGED <<next, futures, results, errors, cancelled, first, cancel,
                 job, child, cached, edited, expired, tainted>>

Done == {j \in futures : job[j].at = "done"}

\* What future.result() returns or raises for each job of S
Take(S) ==
  /\ futures' = futures \ S
  /\ results' = [j \in Job |-> IF j \in S /\ job[j].verdict \in Status
                                 THEN job[j].verdict ELSE results[j]]
  /\ errors' = errors \cup {j \in S : job[j].verdict = "error"}

\* Mutants: an exception, or a job that the deadline stopped, is not a failure.
FailingResults(S) == {j \in S : job[j].verdict \notin {"pass", "error"}}
FailingRun(S) == {j \in S : job[j].verdict \in {"fail", "error"}}

Failing(S) == {j \in S : job[j].verdict # "pass"}

\* The loop over the jobs S that wait(FIRST_COMPLETED) has found done, others may
\* be done by now: the first of the failed jobs is blamed, whichever failed first.
CollectSet(S) ==
  /\ Take(S)
  /\ \/ /\ Failing(S) = {}
        /\ pc' = "submit" /\ quota' = Cardinality(S)
        /\ UNCHANGED <<first, cancel>>
     \/ /\ \E f \in Failing(S) : (\A j \in Failing(S) : f <= j) /\ first' = f
        /\ pc' = "drain" /\ cancel' = TRUE
        /\ UNCHANGED quota
  /\ UNCHANGED <<next, cancelled, job, child, cached, edited, expired, tainted>>

Collect == pc = "wait" /\ \E S \in SUBSET Done : S # {} /\ CollectSet(S)

\* Mutant: jobs that were never submitted are reported nowhere.
SkippedNone == {}

\* Items that were never submitted
Skipped == {j \in Job : j >= next}

\* Mutant: the drain blames as the collection does.
DrainBlaming ==
  /\ pc = "drain" /\ Done = futures
  /\ Take(futures)
  /\ \E f \in Failing(futures) \cup {first} :
       (\A j \in Failing(futures) \cup {first} : f <= j) /\ first' = f
  /\ cancelled' = cancelled \cup Skipped
  /\ pc' = "shutdown"
  /\ UNCHANGED <<next, quota, cancel, job, child, cached, edited, expired, tainted>>

\* After a failure: wait for all that was submitted.  What they come to is
\* collected, the blame stays.
Drain ==
  /\ pc = "drain" /\ Done = futures
  /\ Take(futures)
  /\ cancelled' = cancelled \cup Skipped
  /\ pc' = "shutdown"
  /\ UNCHANGED <<next, quota, first, cancel, job, child, cached, edited, expired, tainted>>

\* executor.shutdown(wait=True)
Shutdown ==
  /\ pc \in {"shutdown", "abort"} /\ Busy = {}
  /\ pc' = IF pc = "abort" THEN "raised" ELSE "returned"
  /\ UNCHANGED <<next, quota, futures, results, errors, cancelled, first, cancel,
                 job, child, cached, edited, expired, tainted>>

\* except BaseException: a KeyboardInterrupt in the scheduler's thread
Interrupt ==
  /\ pc \in {"submit", "wait", "drain", "shutdown"}
  /\ LET queued == {j \in futures : job[j].at = "queued"}
     IN /\ cancelled' = cancelled \cup queued
        /\ job' = [j \in Job |-> IF j \in queued
                                   THEN [at |-> "done", verdict |-> "unstarted"] ELSE job[j]]
  /\ cancel' = TRUE /\ pc' = "abort"
  /\ UNCHANGED <<next, quota, futures, results, errors, first,
                 child, cached, edited, expired, tainted>>

\* run_phase: the status of the phase from what the scheduler reported
PhasePasses == \A j \in Job : results[j] = "pass" /\ j \notin errors

Schedule == Submit \/ Submitted \/ Collect \/ Drain \/ Shutdown
-------------------------------------------------------------------------------
\* Child processes, the files and the clock

Become(j, leader, others, open) ==
  child' = [child EXCEPT ![j] = [leader |-> leader, others |-> others, open |-> open]]

Fork(j) ==
  /\ child[j].leader = "runs" /\ ~child[j].others
  /\ Become(j, "runs", TRUE, child[j].open)

\* Output stays open as long as somebody holds it.
Exit(j, code) ==
  /\ child[j].leader = "runs"
  /\ Become(j, code, child[j].others, child[j].open /\ child[j].others)

OthersExit(j) ==
  /\ child[j].others
  /\ Become(j, child[j].leader, FALSE, child[j].open /\ child[j].leader = "runs")

CloseOutput(j) ==
  /\ child[j].open
  /\ Become(j, child[j].leader, child[j].others, FALSE)

ChildStep(j) ==
  /\ \/ Fork(j) \/ OthersExit(j) \/ CloseOutput(j)
     \/ \E code \in {"zero", "nonzero"} : Exit(j, code)
  /\ UNCHANGED <<scheduler, job, cached, edited, expired, tainted>>

\* Somebody changes the inputs of j, or puts them back.
Edit(j) ==
  /\ Cardinality(edited) < MaxEdit /\ j \notin edited
  /\ edited' = edited \cup {j}
  /\ tainted' = IF Alive(j) THEN tainted \cup {j} ELSE tainted
  /\ UNCHANGED <<scheduler, job, child, cached, expired>>

Restore(j) ==
  /\ j \in edited
  /\ edited' = edited \ {j} /\ tainted' = tainted \ {j}
  /\ UNCHANGED <<scheduler, job, child, cached, expired>>

Expire ==
  /\ ~expired /\ expired' = TRUE
  /\ UNCHANGED <<scheduler, job, child, cached, edited, tainted>>
-------------------------------------------------------------------------------
Init ==
  /\ pc = "submit" /\ next = 1 /\ quota = W
  /\ futures = {} /\ results = [j \in Job |-> "none"] /\ errors = {} /\ cancelled = {}
  /\ first = 0 /\ cancel = FALSE
  /\ job = [j \in Job |-> [at |-> "new", verdict |-> "none"]]
  /\ child = [j \in Job |-> NoChild]
  /\ cached \in SUBSET Job
  /\ edited = {} /\ expired = FALSE /\ tainted = {}

Next ==
  \/ Schedule \/ Interrupt
  \/ \E j \in Job : Work(j) \/ ChildStep(j) \/ Edit(j) \/ Restore(j)
  \/ Expire

Spec == Init /\ [][Next]_vars

\* Threads are scheduled, and the clock advances: a child times out at last.
\* Nothing is assumed of the children.
FairSpec == Spec /\ WF_vars(Schedule) /\ \A j \in Job : WF_vars(Work(j))
-------------------------------------------------------------------------------
\* Properties

\* Scheduler, threads, children and files stay in their types.
TypeOK ==
  /\ pc \in {"submit", "wait", "drain", "shutdown", "returned", "abort", "raised"}
  /\ next \in 1..(N + 1) /\ quota \in 0..W /\ first \in 0..N
  /\ futures \subseteq Job /\ errors \subseteq Job /\ cancelled \subseteq Job
  /\ results \in [Job -> Status \cup {"none"}]
  /\ cancel \in BOOLEAN /\ expired \in BOOLEAN
  /\ job \in [Job -> [at : Statement, verdict : Verdict]]
  /\ child \in [Job -> Group]
  /\ cached \subseteq Job /\ edited \subseteq Job /\ tainted \subseteq Job

\* Every job is reported once: with a result, with an error, or as cancelled
\* because it was never submitted (run_phase fills in what is missing).
Accounted ==
  pc = "returned" =>
    /\ {j \in Job : results[j] # "none"} \cup errors \cup cancelled = Job
    /\ {j \in Job : results[j] # "none"} \cap errors = {}
    /\ cancelled = {j \in Job : job[j].at = "new"}

\* Never more than max_workers process groups live, those included that could
\* not be killed and whose thread has ended.
Bounded == Cardinality({j \in Job : Alive(j)}) <= W

\* When the scheduler returns or raises, an interrupt included, no process of a
\* job is left, unless its group cannot be killed; such a job has not passed.
NoOrphan == pc \in {"returned", "raised"} =>
              \A j \in Job : Alive(j) => j \in Stubborn /\ job[j].verdict # "pass"

\* The job named as the first failure failed by itself: it was not cancelled
\* because of the failure of another.
BlameIsCause == first # 0 => job[first].verdict \in {"fail", "error", "expired"}

\* run_phase's status of the phase is "pass" exactly if the scheduler names no
\* failure, and then every job has passed.
PassIsWhole ==
  pc = "returned" => ((first = 0) <=> PhasePasses)
                     /\ (PhasePasses => \A j \in Job : job[j].verdict = "pass")

\* No job passes over a change of its inputs that was there while its child lived,
\* unless the change was undone in time: the inputs are compared before the child
\* and after it, and one that was put back by then is not noticed.
Attested == \A j \in Job : job[j].verdict = "pass" => j \notin tainted

\* The phase ends, whatever the children do: cancelled children, children that
\* close their output and go on, and descendants that hold it open included.
Finishes == <>(pc \in {"returned", "raised"})
=============================================================================
