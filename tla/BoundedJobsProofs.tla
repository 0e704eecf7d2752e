-------------------------- MODULE BoundedJobsProofs --------------------------
(***************************************************************************)
(* Theorems about BoundedJobs for any number of jobs and threads.          *)
(***************************************************************************)
EXTENDS JobsInvariant, FiniteSetTheorems, TLAPS

\* Any set of jobs is finite.
LEMMA JobsFinite ==
  ASSUME NEW S \in SUBSET Job
  PROVE  /\ IsFiniteSet(S) /\ Cardinality(S) \in Nat
         /\ \A T \in SUBSET S : IsFiniteSet(T) /\ Cardinality(T) <= Cardinality(S)
<1>1. IsFiniteSet(Job)
  BY FS_Interval, JobsAssumption DEF Job
<1>2. IsFiniteSet(S)
  BY <1>1, FS_Subset
<1>. QED BY <1>2, FS_Subset, FS_CardinalityType
-------------------------------------------------------------------------------
\* Threads

\* What every step of the thread of job j does: it leaves the scheduler alone,
\* moves one job and its group, and ends with a verdict only when the job is done.
Moves(j) ==
  /\ UNCHANGED <<scheduler, edited, expired>>
  /\ job[j].at \notin {"new", "done"}
  /\ \E at \in Statement \ {"new", "queued"}, v \in Verdict \ {"unstarted"}, g \in Group :
       /\ job' = [job EXCEPT ![j] = [at |-> at, verdict |-> v]]
       /\ child' = [child EXCEPT ![j] = g]
       /\ v = "none" <=> at # "done"
       /\ g.leader = "runs" \/ g.others
            => at \in {"reading", "waiting"} \/ (at = "done" /\ j \in Stubborn /\ v # "pass")
       /\ v = "cancelled" => cancel
       /\ v = "pass" => j \notin edited
  /\ tainted' \subseteq tainted \cup ({j} \cap edited)
  /\ cached' \subseteq Job

\* Goto and Finish, with the group g, are such steps.
LEMMA MovesIntro ==
  ASSUME TypeOK, NEW j \in Job, ThreadOK(j),
         UNCHANGED <<scheduler, edited, expired>>,
         job[j].at \notin {"new", "done"},
         NEW g \in Group, child' = [child EXCEPT ![j] = g],
         tainted' \subseteq tainted \cup ({j} \cap edited), cached' \subseteq Job,
         \/ \E at \in Statement \ {"new", "queued", "done"} :
              /\ Goto(j, at)
              /\ g.leader = "runs" \/ g.others => at \in {"reading", "waiting"}
         \/ \E v \in Verdict \ {"unstarted", "none"} :
              /\ Finish(j, v)
              /\ g.leader = "runs" \/ g.others => j \in Stubborn /\ v # "pass"
              /\ v = "cancelled" => cancel
              /\ v = "pass" => j \notin edited
  PROVE  Moves(j)
<1>1. CASE \E at \in Statement \ {"new", "queued", "done"} :
             /\ Goto(j, at)
             /\ g.leader = "runs" \/ g.others => at \in {"reading", "waiting"}
  <2>1. PICK at \in Statement \ {"new", "queued", "done"} :
             /\ Goto(j, at)
             /\ g.leader = "runs" \/ g.others => at \in {"reading", "waiting"}
    BY <1>1
  <2>2. job' = [job EXCEPT ![j] = [at |-> at, verdict |-> "none"]]
    BY <2>1 DEF Goto, TypeOK, ThreadOK
  <2>3. "none" \in Verdict \ {"unstarted"} /\ at \in Statement \ {"new", "queued"} /\ at # "done"
    BY DEF Verdict
  <2>. QED BY <2>1, <2>2, <2>3 DEF Moves
<1>2. CASE \E v \in Verdict \ {"unstarted", "none"} :
             /\ Finish(j, v)
             /\ g.leader = "runs" \/ g.others => j \in Stubborn /\ v # "pass"
             /\ v = "cancelled" => cancel
             /\ v = "pass" => j \notin edited
  BY <1>2 DEF Finish, Moves, Statement
<1>. QED BY <1>1, <1>2

\* A step of a thread keeps the invariant.
LEMMA InvMoves ==
  ASSUME JobsInv, NEW j \in Job, Moves(j)
  PROVE  JobsInv'
<1>1. PICK at \in Statement \ {"new", "queued"}, v \in Verdict \ {"unstarted"}, g \in Group :
       /\ job' = [job EXCEPT ![j] = [at |-> at, verdict |-> v]]
       /\ child' = [child EXCEPT ![j] = g]
       /\ v = "none" <=> at # "done"
       /\ g.leader = "runs" \/ g.others
            => at \in {"reading", "waiting"} \/ (at = "done" /\ j \in Stubborn /\ v # "pass")
       /\ v = "cancelled" => cancel
       /\ v = "pass" => j \notin edited
  BY DEF Moves
<1>2. /\ UNCHANGED <<pc, next, quota, futures, results, errors, cancelled, first, cancel,
                     edited, expired>>
      /\ job[j].at \notin {"new", "done"}
      /\ tainted' \subseteq tainted \cup ({j} \cap edited) /\ cached' \subseteq Job
  BY DEF Moves, scheduler
<1>3. /\ TypeOK /\ (\A k \in Job : ThreadOK(k) /\ CollectedOK(k) /\ InputsOK(k))
      /\ SubmittingOK /\ BlameOK /\ EndOK
  BY DEF JobsInv
<1>4. /\ job'[j] = [at |-> at, verdict |-> v] /\ child'[j] = g
      /\ \A k \in Job \ {j} : job'[k] = job[k] /\ child'[k] = child[k]
  BY <1>1, <1>3 DEF TypeOK
<1>5. j \notin Collected /\ j < next
  BY <1>2, <1>3 DEF CollectedOK, ThreadOK, TypeOK, Job
<1>6. TypeOK'
  <2>1. [at |-> at, verdict |-> v] \in [at : Statement, verdict : Verdict]
    OBVIOUS
  <2>. QED BY <1>1, <1>2, <1>3, <2>1 DEF TypeOK
<1>7. Collected' = Collected /\ Unpassed' = Unpassed
  BY <1>2, <1>4, <1>5 DEF Collected, Unpassed
<1>8. \A k \in Job : ThreadOK(k)' /\ CollectedOK(k)' /\ InputsOK(k)'
  <2>. SUFFICES ASSUME NEW k \in Job
                PROVE  ThreadOK(k)' /\ CollectedOK(k)' /\ InputsOK(k)'
    OBVIOUS
  <2>1. CASE k # j
    BY <2>1, <1>2, <1>3, <1>4, <1>7 DEF ThreadOK, CollectedOK, InputsOK, Alive
  <2>2. CASE k = j
    <3>1. ThreadOK(j)'
      BY <1>1, <1>2, <1>3, <1>4, <1>5 DEF ThreadOK, Alive, Statement, Verdict, Status, TypeOK, Job
    <3>2. CollectedOK(j)'
      BY <1>2, <1>3, <1>5, <1>7 DEF CollectedOK
    <3>3. InputsOK(j)'
      BY <1>1, <1>2, <1>3, <1>4 DEF InputsOK
    <3>. QED BY <2>2, <3>1, <3>2, <3>3
  <2>. QED BY <2>1, <2>2
<1>9. SubmittingOK' /\ BlameOK'
  BY <1>2, <1>3, <1>4, <1>5, <1>7 DEF SubmittingOK, BlameOK, Collected
<1>10. EndOK'
  <2>1. pc \notin {"returned", "raised"}
    <3>1. pc = "returned" => j \in Collected
      BY <1>3, <1>5 DEF EndOK, Collected
    <3>2. pc = "raised" => FALSE
      BY <1>2, <1>3 DEF EndOK, Busy
    <3>. QED BY <3>1, <3>2, <1>5
  <2>2. Skipped' = Skipped
    BY <1>2 DEF Skipped
  <2>. QED BY <1>1, <1>2, <1>3, <1>4, <1>5, <1>7, <2>1, <2>2 DEF EndOK, Collected
<1>. QED BY <1>2, <1>3, <1>6, <1>7, <1>8, <1>9, <1>10 DEF JobsInv

\* Every step of a thread is of that kind.
LEMMA WorkMoves ==
  ASSUME JobsInv, NEW j \in Job, Work(j)
  PROVE  Moves(j)
<1>1. TypeOK /\ ThreadOK(j) /\ InputsOK(j)
  BY DEF JobsInv
<1>2. child = [child EXCEPT ![j] = child[j]] /\ child[j] \in Group /\ cached \subseteq Job
  BY <1>1 DEF TypeOK
<1>3. /\ {"checked", "hit", "missed", "launch", "spawn", "reading", "waiting", "attest"}
            \subseteq Statement \ {"new", "queued", "done"}
      /\ {"pass", "fail", "expired", "cancelled", "error"} \subseteq Verdict \ {"unstarted", "none"}
  BY DEF Statement, Verdict, Status
<1>4. (child[j].leader = "runs" \/ child[j].others) <=> Alive(j)
  BY DEF Alive
<1>5. CASE Begin(j) \/ Lookup(j) \/ Confirm(j) \/ Prepare(j)
  <2>1. UNCHANGED <<scheduler, edited, expired>> /\ job[j].at \notin {"new", "done"}
        /\ UNCHANGED <<child, tainted, cached>> /\ ~Alive(j)
    BY <1>1, <1>5 DEF Begin, Lookup, Confirm, Prepare, BindingHolds, ThreadOK
  <2>2. \/ \E at \in {"checked", "hit", "missed", "launch"} : Goto(j, at)
        \/ Finish(j, "expired")
        \/ Finish(j, "error")
        \/ (Finish(j, "pass") /\ j \notin edited)
    BY <1>5 DEF Begin, Lookup, Confirm, Prepare, BindingHolds
  <2>. QED BY <1>1, <1>2, <1>3, <1>4, <2>1, <2>2, MovesIntro
<1>6. CASE CheckCancel(j) \/ EndOfOutput(j) \/ Exited(j)
  <2>1. UNCHANGED <<scheduler, edited, expired>> /\ job[j].at \notin {"new", "done"}
        /\ UNCHANGED <<child, tainted, cached>>
    BY <1>6 DEF CheckCancel, EndOfOutput, Exited
  <2>2. \/ Goto(j, "waiting")
        \/ ~Alive(j) /\ \/ Goto(j, "spawn") \/ Goto(j, "attest")
                        \/ Finish(j, "cancelled") /\ cancel
                        \/ Finish(j, "fail")
    BY <1>1, <1>6 DEF CheckCancel, EndOfOutput, Exited, ThreadOK
  <2>. QED BY <1>1, <1>2, <1>3, <1>4, <2>1, <2>2, MovesIntro
<1>7. CASE Spawn(j)
  <2>. DEFINE g == [leader |-> "runs", others |-> FALSE, open |-> TRUE]
  <2>1. UNCHANGED <<scheduler, cached, edited, expired>> /\ job[j].at \notin {"new", "done"}
        /\ ~Alive(j) /\ g \in Group /\ tainted' \subseteq tainted \cup ({j} \cap edited)
    BY <1>1, <1>7 DEF Spawn, ThreadOK, Group
  <2>2. \/ Goto(j, "reading") /\ child' = [child EXCEPT ![j] = g]
        \/ Finish(j, "fail") /\ child' = child
    BY <1>7 DEF Spawn
  <2>3. CASE Goto(j, "reading") /\ child' = [child EXCEPT ![j] = g]
    BY <1>1, <1>2, <1>3, <2>1, <2>3, MovesIntro
  <2>4. CASE Finish(j, "fail") /\ child' = child
    BY <1>1, <1>2, <1>3, <1>4, <2>1, <2>4, MovesIntro
  <2>. QED BY <2>2, <2>3, <2>4
<1>8. ASSUME NEW v \in {"fail", "cancelled"}, Kill(j, v), v = "cancelled" => cancel,
             job[j].at \in {"reading", "waiting"}
      PROVE  Moves(j)
  <2>. DEFINE g == [leader |-> IF child[j].leader = "runs" THEN "nonzero" ELSE child[j].leader,
                    others |-> FALSE, open |-> FALSE]
  <2>1. UNCHANGED <<scheduler, cached, edited, expired, tainted>> /\ g \in Group
        /\ g.leader # "runs" /\ ~g.others
    BY <1>2, <1>8 DEF Kill, Group
  <2>2. \/ child' = [child EXCEPT ![j] = g] /\ Finish(j, v)
        \/ child' = child /\ j \in Stubborn /\ (Finish(j, "error") \/ Finish(j, v))
    BY <1>8 DEF Kill
  <2>. HIDE DEF g
  <2>3. CASE child' = [child EXCEPT ![j] = g] /\ Finish(j, v)
    BY <1>1, <1>2, <1>3, <1>8, <2>1, <2>3, MovesIntro
  <2>4. CASE child' = child /\ j \in Stubborn /\ (Finish(j, "error") \/ Finish(j, v))
    BY <1>1, <1>2, <1>3, <1>8, <2>1, <2>4, MovesIntro
  <2>. QED BY <2>2, <2>3, <2>4
<1>9. CASE SeeCancel(j) \/ TimeOut(j) \/ Overflow(j) \/ SeeOthers(j)
  BY <1>8, <1>9 DEF SeeCancel, TimeOut, Overflow, SeeOthers
<1>10. CASE Attest(j)
  <2>1. UNCHANGED <<scheduler, edited, expired, child, tainted>>
        /\ job[j].at \notin {"new", "done"} /\ ~Alive(j) /\ cached' \subseteq Job
    BY <1>1, <1>2, <1>10 DEF Attest, WriteCache, BindingHolds, ThreadOK
  <2>2. Finish(j, "error") \/ (Finish(j, "pass") /\ j \notin edited)
    BY <1>10 DEF Attest, WriteCache, BindingHolds
  <2>. QED BY <1>1, <1>2, <1>3, <1>4, <2>1, <2>2, MovesIntro
<1>. QED BY <1>5, <1>6, <1>7, <1>9, <1>10 DEF Work
-------------------------------------------------------------------------------
\* Children, files and the clock

\* A step of a child never revives its group, and touches nothing else.
LEMMA InvChildStep ==
  ASSUME JobsInv, NEW j \in Job, ChildStep(j)
  PROVE  JobsInv'
<1>1. TypeOK /\ \A k \in Job : ThreadOK(k) /\ CollectedOK(k) /\ InputsOK(k)
  BY DEF JobsInv
<1>2. UNCHANGED <<pc, next, quota, futures, results, errors, cancelled, first, cancel,
                  job, cached, edited, expired, tainted>>
  BY DEF ChildStep, scheduler
<1>3. /\ child' \in [Job -> Group]
      /\ \A k \in Job : Alive(k)' => Alive(k)
  <2>1. \E leader \in {"none", "runs", "zero", "nonzero"}, others \in BOOLEAN, open \in BOOLEAN :
          /\ Become(j, leader, others, open)
          /\ leader = "runs" \/ others => Alive(j)
    BY <1>1 DEF ChildStep, Fork, OthersExit, CloseOutput, Exit, TypeOK, Group, Alive
  <2>. QED BY <1>1, <2>1 DEF Become, TypeOK, Group, Alive
<1>4. TypeOK'
  BY <1>1, <1>2, <1>3 DEF TypeOK
<1>5. Collected' = Collected /\ Unpassed' = Unpassed /\ Skipped' = Skipped /\ Busy' = Busy
  BY <1>2 DEF Collected, Unpassed, Skipped, Busy
<1>6. \A k \in Job : ThreadOK(k)' /\ CollectedOK(k)' /\ InputsOK(k)'
  BY <1>1, <1>2, <1>3, <1>5 DEF ThreadOK, CollectedOK, InputsOK
<1>7. SubmittingOK' /\ BlameOK' /\ EndOK'
  BY <1>2, <1>5 DEF JobsInv, SubmittingOK, BlameOK, EndOK
<1>. QED BY <1>2, <1>4, <1>5, <1>6, <1>7 DEF JobsInv

\* A job whose inputs change under a live child can no longer pass.
LEMMA InvEdit ==
  ASSUME JobsInv, NEW j \in Job, Edit(j)
  PROVE  JobsInv'
<1>1. TypeOK /\ \A k \in Job : ThreadOK(k) /\ CollectedOK(k) /\ InputsOK(k)
  BY DEF JobsInv
<1>2. UNCHANGED <<pc, next, quota, futures, results, errors, cancelled, first, cancel,
                  job, child, cached, expired>>
      /\ edited' = edited \cup {j}
      /\ tainted' = IF Alive(j) THEN tainted \cup {j} ELSE tainted
  BY DEF Edit, scheduler
<1>3. TypeOK'
  BY <1>1, <1>2 DEF TypeOK
<1>4. Collected' = Collected /\ Unpassed' = Unpassed /\ Skipped' = Skipped /\ Busy' = Busy
  BY <1>2 DEF Collected, Unpassed, Skipped, Busy
<1>5. \A k \in Job : ThreadOK(k)' /\ CollectedOK(k)'
  BY <1>1, <1>2, <1>4 DEF ThreadOK, CollectedOK, Alive
<1>6. Alive(j) => job[j].verdict # "pass"
  BY <1>1 DEF ThreadOK
<1>7. \A k \in Job : InputsOK(k)'
  BY <1>1, <1>2, <1>6 DEF InputsOK
<1>8. SubmittingOK' /\ BlameOK' /\ EndOK'
  BY <1>2, <1>4 DEF JobsInv, SubmittingOK, BlameOK, EndOK
<1>. QED BY <1>2, <1>3, <1>4, <1>5, <1>7, <1>8 DEF JobsInv

\* Inputs that are put back taint no more.
LEMMA InvRestore ==
  ASSUME JobsInv, NEW j \in Job, Restore(j)
  PROVE  JobsInv'
<1>1. TypeOK /\ \A k \in Job : ThreadOK(k) /\ CollectedOK(k) /\ InputsOK(k)
  BY DEF JobsInv
<1>2. UNCHANGED <<pc, next, quota, futures, results, errors, cancelled, first, cancel,
                  job, child, cached, expired>>
      /\ edited' = edited \ {j} /\ tainted' = tainted \ {j}
  BY DEF Restore, scheduler
<1>3. TypeOK'
  BY <1>1, <1>2 DEF TypeOK
<1>4. Collected' = Collected /\ Unpassed' = Unpassed /\ Skipped' = Skipped /\ Busy' = Busy
  BY <1>2 DEF Collected, Unpassed, Skipped, Busy
<1>5. \A k \in Job : ThreadOK(k)' /\ CollectedOK(k)' /\ InputsOK(k)'
  BY <1>1, <1>2, <1>4 DEF ThreadOK, CollectedOK, InputsOK, Alive
<1>6. SubmittingOK' /\ BlameOK' /\ EndOK'
  BY <1>2, <1>4 DEF JobsInv, SubmittingOK, BlameOK, EndOK
<1>. QED BY <1>2, <1>3, <1>4, <1>5, <1>6 DEF JobsInv

\* The deadline passes, or nothing changes.
LEMMA InvExpire ==
  ASSUME JobsInv, Expire \/ UNCHANGED vars
  PROVE  JobsInv'
<1>1. UNCHANGED <<pc, next, quota, futures, results, errors, cancelled, first, cancel,
                  job, child, cached, edited, tainted>>
      /\ (expired' = TRUE \/ expired' = expired)
  BY DEF Expire, vars, scheduler
<1>2. TypeOK'
  BY <1>1 DEF JobsInv, TypeOK
<1>3. Collected' = Collected /\ Unpassed' = Unpassed /\ Skipped' = Skipped /\ Busy' = Busy
  BY <1>1 DEF Collected, Unpassed, Skipped, Busy
<1>4. \A k \in Job : ThreadOK(k)' /\ CollectedOK(k)' /\ InputsOK(k)'
  BY <1>1, <1>3 DEF JobsInv, ThreadOK, CollectedOK, InputsOK, Alive
<1>5. SubmittingOK' /\ BlameOK' /\ EndOK'
  BY <1>1, <1>3 DEF JobsInv, SubmittingOK, BlameOK, EndOK
<1>. QED BY <1>1, <1>2, <1>3, <1>4, <1>5 DEF JobsInv
-------------------------------------------------------------------------------
\* The scheduler

\* A submission takes one of the due calls, so the pool never exceeds W.
LEMMA InvSubmit ==
  ASSUME JobsInv, Submit
  PROVE  JobsInv'
<1>1. TypeOK /\ \A k \in Job : ThreadOK(k) /\ CollectedOK(k) /\ InputsOK(k)
  BY DEF JobsInv
<1>2. /\ pc = "submit" /\ quota > 0 /\ next <= N
      /\ next' = next + 1 /\ quota' = quota - 1 /\ futures' = futures \cup {next}
      /\ UNCHANGED <<pc, results, errors, cancelled, first, cancel,
                     child, cached, edited, expired, tainted>>
      /\ job' = [job EXCEPT ![next] = [at |-> "queued", verdict |-> job[next].verdict]]
  BY DEF Submit, Goto
<1>3. next \in Job /\ next \notin futures /\ next \in Nat /\ quota \in Nat /\ W \in Nat /\ N \in Nat
  BY <1>1, <1>2, JobsAssumption DEF JobsInv, TypeOK, Job
<1>4. job[next].at = "new" /\ job[next].verdict = "none" /\ ~Alive(next)
  BY <1>1, <1>3 DEF ThreadOK
<1>5. TypeOK'
  <2>1. [at |-> "queued", verdict |-> job[next].verdict] \in [at : Statement, verdict : Verdict]
    BY <1>4 DEF Statement, Verdict
  <2>2. next' \in 1..(N + 1) /\ quota' \in 0..W /\ futures' \subseteq Job
    BY <1>1, <1>2, <1>3 DEF TypeOK
  <2>. QED BY <1>1, <1>2, <2>1, <2>2 DEF TypeOK
<1>6. Collected' = Collected /\ next \notin Collected
  BY <1>2, <1>3 DEF Collected, Job
<1>7. /\ job'[next] = [at |-> "queued", verdict |-> "none"]
      /\ \A k \in Job \ {next} : job'[k] = job[k]
  BY <1>1, <1>2, <1>3, <1>4 DEF TypeOK
<1>8. \A k \in Job : ThreadOK(k)' /\ CollectedOK(k)' /\ InputsOK(k)'
  <2>. SUFFICES ASSUME NEW k \in Job
                PROVE  ThreadOK(k)' /\ CollectedOK(k)' /\ InputsOK(k)'
    OBVIOUS
  <2>1. k \in Nat
    BY DEF Job
  <2>2. ThreadOK(k)'
    BY <1>1, <1>2, <1>3, <1>4, <1>7, <2>1 DEF ThreadOK, Alive
  <2>3. CollectedOK(k)' /\ InputsOK(k)'
    BY <1>1, <1>2, <1>4, <1>6, <1>7 DEF CollectedOK, InputsOK
  <2>. QED BY <2>2, <2>3
<1>9. Cardinality(futures') = Cardinality(futures) + 1 /\ Cardinality(futures) \in Nat
  BY <1>1, <1>2, <1>3, JobsFinite, FS_AddElement DEF TypeOK
<1>10. /\ errors = {} /\ errors' = {} /\ Unpassed = {} /\ Unpassed' = {}
       /\ Cardinality(futures \cup Unpassed) + quota <= W
  BY <1>2, <1>6, <1>7 DEF JobsInv, SubmittingOK, Unpassed, Collected
<1>11. Cardinality(futures' \cup Unpassed') + quota' <= W
  <2>1. futures \cup Unpassed = futures /\ futures' \cup Unpassed' = futures'
    BY <1>10
  <2>. QED BY <1>2, <1>3, <1>9, <1>10, <2>1
<1>12. SubmittingOK'
  <2>1. /\ first = 0 /\ ~cancel /\ cancelled = {}
        /\ \A k \in Collected : job[k].verdict = "pass"
        /\ Cardinality(futures) + quota = W
    BY <1>2 DEF JobsInv, SubmittingOK
  <2>2. Cardinality(futures') + quota' = W
    BY <1>2, <1>3, <1>9, <2>1
  <2>. QED BY <1>2, <1>6, <1>7, <1>10, <2>1, <2>2 DEF SubmittingOK, Collected
<1>13. BlameOK' /\ EndOK'
  BY <1>2, <1>4, <1>7 DEF JobsInv, SubmittingOK, BlameOK, EndOK
<1>14. \A k \in futures' : k < next'
  BY <1>1, <1>2, <1>3 DEF JobsInv, TypeOK, Job
<1>. QED BY <1>2, <1>5, <1>8, <1>11, <1>12, <1>13, <1>14 DEF JobsInv

\* What collecting a set of ended futures does to the record.
LEMMA TakeSet ==
  ASSUME JobsInv, pc \notin {"abort", "raised"}, NEW S \in SUBSET Done, Take(S),
         UNCHANGED <<next, job, child, edited, tainted>>
  PROVE  /\ futures' = futures \ S /\ futures' \subseteq Job /\ errors' \subseteq Job
         /\ results' \in [Job -> Status \cup {"none"}]
         /\ errors' \subseteq errors \cup S
         /\ Collected' = Collected \cup S /\ S \cap Collected = {}
         /\ \A k \in Job : CollectedOK(k)' /\ InputsOK(k)'
<1>1. TypeOK /\ (\A k \in Job : ThreadOK(k) /\ CollectedOK(k) /\ InputsOK(k)) /\ EndOK
      /\ \A k \in futures : k < next
  BY DEF JobsInv
<1>2. /\ S \subseteq futures /\ S \subseteq Job /\ \A k \in S : job[k].at = "done"
  BY <1>1 DEF Done, TypeOK
<1>3. /\ futures' = futures \ S
      /\ results' = [k \in Job |-> IF k \in S /\ job[k].verdict \in Status
                                     THEN job[k].verdict ELSE results[k]]
      /\ errors' = errors \cup {k \in S : job[k].verdict = "error"}
  BY DEF Take
<1>4. results' \in [Job -> Status \cup {"none"}]
  BY <1>1, <1>3 DEF TypeOK
<1>5. Collected' = Collected \cup S /\ S \cap Collected = {}
  BY <1>1, <1>2, <1>3 DEF Collected
<1>6. \A k \in Job : job[k].verdict \in Verdict
  BY <1>1 DEF TypeOK
<1>7. \A k \in S : job[k].verdict \in Status \cup {"error"}
  BY <1>1, <1>2, <1>6 DEF ThreadOK, EndOK, Verdict
<1>8. \A k \in Job : CollectedOK(k)'
  <2>. SUFFICES ASSUME NEW k \in Job PROVE CollectedOK(k)'
    OBVIOUS
  <2>1. results'[k] = IF k \in S /\ job[k].verdict \in Status THEN job[k].verdict ELSE results[k]
    BY <1>3
  <2>2. CASE k \in S
    <3>1. k \notin Collected /\ results[k] = "none" /\ k \notin errors
      BY <1>1, <1>5, <2>2 DEF CollectedOK
    <3>2. "error" \notin Status /\ "unstarted" \notin Status \cup {"error"}
      BY DEF Status
    <3>. QED BY <1>2, <1>3, <1>5, <1>7, <2>1, <2>2, <3>1, <3>2 DEF CollectedOK
  <2>3. CASE k \notin S
    BY <1>1, <1>3, <1>5, <2>1, <2>3 DEF CollectedOK
  <2>. QED BY <2>2, <2>3
<1>. QED BY <1>1, <1>2, <1>3, <1>4, <1>5, <1>8 DEF TypeOK, InputsOK

\* After the submissions the pool is full, or the items have ended.
LEMMA InvSubmitted ==
  ASSUME JobsInv, Submitted
  PROVE  JobsInv'
<1>1. TypeOK /\ \A k \in Job : ThreadOK(k) /\ CollectedOK(k) /\ InputsOK(k)
  BY DEF JobsInv
<1>2. /\ pc = "submit" /\ (quota = 0 \/ next > N)
      /\ pc' = IF futures = {} THEN "shutdown" ELSE "wait"
      /\ quota' = 0
      /\ UNCHANGED <<next, futures, results, errors, cancelled, first, cancel,
                     job, child, cached, edited, expired, tainted>>
  BY DEF Submitted
<1>3. quota \in Nat /\ next \in Nat /\ N \in Nat /\ W \in Nat \ {0}
  BY <1>1, JobsAssumption DEF TypeOK
<1>4. TypeOK'
  BY <1>1, <1>2, <1>3 DEF TypeOK
<1>5. Collected' = Collected /\ Unpassed' = Unpassed /\ Skipped' = Skipped /\ Busy' = Busy
  BY <1>2 DEF Collected, Unpassed, Skipped, Busy
<1>6. \A k \in Job : ThreadOK(k)' /\ CollectedOK(k)' /\ InputsOK(k)'
  BY <1>1, <1>2, <1>5 DEF ThreadOK, CollectedOK, InputsOK, Alive
<1>7. /\ first = 0 /\ ~cancel /\ errors = {} /\ cancelled = {}
      /\ \A k \in Collected : job[k].verdict = "pass"
      /\ next <= N => Cardinality(futures) + quota = W
  BY <1>2 DEF JobsInv, SubmittingOK
<1>8. SubmittingOK'
  BY <1>2, <1>3, <1>5, <1>7 DEF SubmittingOK
<1>9. BlameOK'
  BY <1>2, <1>7 DEF BlameOK
<1>10. EndOK'
  <2>1. futures = {} => next > N
    BY <1>2, <1>3, <1>7, FS_EmptySet
  <2>2. next > N => Skipped = {}
    BY <1>3 DEF Skipped, Job
  <2>3. \A k \in Job : job[k].verdict # "unstarted"
    BY <1>2 DEF JobsInv, EndOK
  <2>. QED BY <1>2, <1>5, <1>7, <2>1, <2>2, <2>3 DEF EndOK
<1>11. Cardinality(futures' \cup Unpassed') + quota' <= W
  <2>1. Cardinality(futures \cup Unpassed) + quota <= W
    BY DEF JobsInv
  <2>2. Cardinality(futures \cup Unpassed) \in Nat
    BY <1>1, JobsFinite DEF TypeOK, Unpassed, Collected
  <2>. QED BY <1>2, <1>3, <1>5, <2>1, <2>2
<1>12. \A k \in futures' : k < next'
  BY <1>2 DEF JobsInv
<1>. QED BY <1>2, <1>4, <1>6, <1>8, <1>9, <1>10, <1>11, <1>12 DEF JobsInv

\* What is collected without a failure is replaced, a failure ends the submissions.
LEMMA InvCollect ==
  ASSUME JobsInv, Collect
  PROVE  JobsInv'
<1>1. TypeOK /\ \A k \in Job : ThreadOK(k) /\ CollectedOK(k) /\ InputsOK(k)
  BY DEF JobsInv
<1>2. PICK S \in SUBSET Done : S # {} /\ CollectSet(S) /\ pc = "wait"
  BY DEF Collect
<1>3. Take(S) /\ UNCHANGED <<next, cancelled, job, child, cached, edited, expired, tainted>>
  BY <1>2 DEF CollectSet
<1>4. /\ futures' = futures \ S /\ futures' \subseteq Job /\ errors' \subseteq Job
      /\ results' \in [Job -> Status \cup {"none"}]
      /\ errors' \subseteq errors \cup S
      /\ Collected' = Collected \cup S /\ S \cap Collected = {}
      /\ \A k \in Job : CollectedOK(k)' /\ InputsOK(k)'
  BY <1>2, <1>3, TakeSet
<1>5. S \subseteq futures /\ S \subseteq Job /\ \A k \in S : job[k].at = "done"
  BY <1>1, <1>2 DEF Done, TypeOK
<1>6. /\ first = 0 /\ ~cancel /\ errors = {} /\ cancelled = {} /\ quota = 0
      /\ Unpassed = {}
      /\ \A k \in Collected : job[k].verdict = "pass"
      /\ next <= N => Cardinality(futures) + quota = W
      /\ Cardinality(futures \cup Unpassed) + quota <= W
  BY <1>2 DEF JobsInv, SubmittingOK, Unpassed
<1>7. /\ Cardinality(futures) \in Nat /\ Cardinality(S) \in Nat /\ Cardinality(futures') \in Nat
      /\ Cardinality(futures) = Cardinality(futures') + Cardinality(S)
      /\ Cardinality(futures) <= W /\ W \in Nat
  <2>1. IsFiniteSet(futures) /\ IsFiniteSet(S) /\ Cardinality(futures) \in Nat /\ Cardinality(S) \in Nat
        /\ Cardinality(futures') \in Nat
    BY <1>1, <1>4, <1>5, JobsFinite DEF TypeOK
  <2>2. Cardinality(futures \ S) = Cardinality(futures) - Cardinality(futures \cap S)
    BY <2>1, FS_Difference
  <2>3. futures \cap S = S /\ futures \cup Unpassed = futures
    BY <1>5, <1>6
  <2>4. Cardinality(futures') = Cardinality(futures) - Cardinality(S)
    BY <1>4, <2>2, <2>3
  <2>5. Cardinality(futures) + 0 <= W /\ W \in Nat
    BY <1>6, <2>3, JobsAssumption
  <2>. QED BY <2>1, <2>4, <2>5
<1>8. \A k \in Job : ThreadOK(k)'
  <2>1. cancel => cancel'
    BY <1>6
  <2>. QED BY <1>1, <1>3, <2>1 DEF ThreadOK, Alive
<1>9. Skipped' = Skipped /\ Busy' = Busy
  BY <1>3 DEF Skipped, Busy
<1>10. \A k \in futures' : k < next'
  BY <1>3, <1>4 DEF JobsInv
<1>11. \A k \in Job : job[k].verdict # "unstarted"
  BY <1>2 DEF JobsInv, EndOK
<1>12. CASE /\ Failing(S) = {} /\ pc' = "submit" /\ quota' = Cardinality(S)
            /\ UNCHANGED <<first, cancel>>
  <2>1. \A k \in S : job[k].verdict = "pass"
    BY <1>12 DEF Failing
  <2>2. errors' = {}
    BY <1>3, <1>6, <2>1 DEF Take
  <2>3. TypeOK'
    <3>1. quota' \in 0..W
      BY <1>7, <1>12
    <3>. QED BY <1>1, <1>3, <1>4, <1>12, <3>1 DEF TypeOK
  <2>4. SubmittingOK'
    BY <1>3, <1>4, <1>6, <1>7, <1>12, <2>1, <2>2 DEF SubmittingOK
  <2>5. BlameOK' /\ EndOK'
    BY <1>3, <1>6, <1>11, <1>12 DEF BlameOK, EndOK
  <2>6. Cardinality(futures' \cup Unpassed') + quota' <= W
    <3>1. futures' \cup Unpassed' = futures'
      BY <1>3, <1>4, <1>6, <2>1 DEF Unpassed
    <3>. QED BY <1>7, <1>12, <3>1
  <2>. QED BY <1>4, <1>8, <1>10, <1>12, <2>3, <2>4, <2>5, <2>6 DEF JobsInv
<1>13. CASE /\ \E f \in Failing(S) : (\A k \in Failing(S) : f <= k) /\ first' = f
            /\ pc' = "drain" /\ cancel' = TRUE
            /\ UNCHANGED quota
  <2>1. first' \in S /\ first' \in Job /\ job[first'].verdict # "pass"
    BY <1>5, <1>13 DEF Failing
  <2>2. job[first'].verdict \in {"fail", "error", "expired"}
    <3>1. job[first'].verdict \in Verdict /\ job[first'].verdict # "none"
      BY <1>1, <1>5, <2>1 DEF TypeOK, ThreadOK
    <3>2. job[first'].verdict # "cancelled"
      BY <1>1, <1>6, <2>1 DEF ThreadOK
    <3>. QED BY <1>11, <2>1, <3>1, <3>2 DEF Verdict, Status
  <2>3. TypeOK'
    <3>1. first' \in 0..N
      BY <2>1, JobsAssumption DEF Job
    <3>. QED BY <1>1, <1>3, <1>4, <1>13, <3>1 DEF TypeOK
  <2>4. SubmittingOK' /\ EndOK'
    BY <1>3, <1>11, <1>13 DEF SubmittingOK, EndOK
  <2>5. BlameOK'
    <3>1. first' # 0 /\ first' \in Collected' /\ pc' = "drain" /\ cancelled' = {}
      BY <1>3, <1>4, <1>6, <1>13, <2>1 DEF Job
    <3>2. job'[first'].verdict \in {"fail", "error", "expired"}
      BY <1>3, <2>2
    <3>. QED BY <3>1, <3>2 DEF BlameOK
  <2>6. Cardinality(futures' \cup Unpassed') + quota' <= W
    <3>1. futures' \cup Unpassed' \subseteq futures /\ futures \in SUBSET Job
      BY <1>1, <1>3, <1>4, <1>5, <1>6 DEF TypeOK, Unpassed
    <3>2. Cardinality(futures' \cup Unpassed') <= Cardinality(futures)
          /\ Cardinality(futures' \cup Unpassed') \in Nat
      BY <3>1, JobsFinite
    <3>. QED BY <1>6, <1>7, <1>13, <3>2
  <2>. QED BY <1>4, <1>8, <1>10, <1>13, <2>3, <2>4, <2>5, <2>6 DEF JobsInv
<1>. QED BY <1>2, <1>12, <1>13 DEF CollectSet

\* The rest is collected, the blame stays.
LEMMA InvDrain ==
  ASSUME JobsInv, Drain
  PROVE  JobsInv'
<1>1. TypeOK /\ \A k \in Job : ThreadOK(k) /\ CollectedOK(k) /\ InputsOK(k)
  BY DEF JobsInv
<1>2. /\ pc = "drain" /\ Done = futures /\ Take(futures)
      /\ cancelled' = cancelled \cup Skipped /\ pc' = "shutdown"
      /\ UNCHANGED <<next, quota, first, cancel, job, child, cached, edited, expired, tainted>>
  BY DEF Drain
<1>3. /\ futures' = {} /\ errors' \subseteq Job /\ errors' \subseteq errors \cup futures
      /\ results' \in [Job -> Status \cup {"none"}]
      /\ Collected' = Collected \cup futures
      /\ \A k \in Job : CollectedOK(k)' /\ InputsOK(k)'
  BY <1>2, TakeSet
<1>4. TypeOK'
  BY <1>1, <1>2, <1>3 DEF TypeOK, Skipped
<1>5. \A k \in Job : ThreadOK(k)'
  BY <1>1, <1>2 DEF ThreadOK, Alive
<1>6. Skipped' = Skipped
  BY <1>2 DEF Skipped
<1>7. first # 0 /\ cancelled = {} /\ first \in Collected
      /\ job[first].verdict \in {"fail", "error", "expired"}
  BY <1>2 DEF JobsInv, BlameOK
<1>8. SubmittingOK' /\ BlameOK'
  <2>1. pc' = "shutdown" /\ first' = first /\ job' = job /\ first' \in Collected'
    BY <1>2, <1>3, <1>7
  <2>2. SubmittingOK'
    BY <2>1 DEF SubmittingOK
  <2>3. BlameOK'
    BY <1>7, <2>1 DEF BlameOK
  <2>. QED BY <2>2, <2>3
<1>9. EndOK'
  <2>1. \A k \in Job : job[k].verdict # "unstarted"
    BY <1>2 DEF JobsInv, EndOK
  <2>. QED BY <1>2, <1>3, <1>6, <1>7, <2>1 DEF EndOK
<1>10. Cardinality(futures' \cup Unpassed') + quota' <= W
  <2>1. futures' \cup Unpassed' \subseteq futures \cup Unpassed /\ futures \cup Unpassed \in SUBSET Job
    BY <1>1, <1>2, <1>3 DEF TypeOK, Unpassed, Collected
  <2>2. /\ Cardinality(futures' \cup Unpassed') <= Cardinality(futures \cup Unpassed)
        /\ Cardinality(futures' \cup Unpassed') \in Nat /\ Cardinality(futures \cup Unpassed) \in Nat
    BY <2>1, JobsFinite
  <2>3. Cardinality(futures \cup Unpassed) + quota <= W /\ quota \in Nat /\ W \in Nat
    BY <1>1, JobsAssumption DEF JobsInv, TypeOK
  <2>. QED BY <1>2, <2>2, <2>3
<1>. QED BY <1>2, <1>3, <1>4, <1>5, <1>8, <1>9, <1>10 DEF JobsInv

\* shutdown(wait=True) returns when no thread is at work.
LEMMA InvShutdown ==
  ASSUME JobsInv, Shutdown
  PROVE  JobsInv'
<1>1. /\ pc \in {"shutdown", "abort"} /\ Busy = {}
      /\ pc' = IF pc = "abort" THEN "raised" ELSE "returned"
      /\ UNCHANGED <<next, quota, futures, results, errors, cancelled, first, cancel,
                     job, child, cached, edited, expired, tainted>>
  BY DEF Shutdown
<1>2. TypeOK'
  BY <1>1 DEF JobsInv, TypeOK
<1>3. Collected' = Collected /\ Unpassed' = Unpassed /\ Skipped' = Skipped /\ Busy' = Busy
  BY <1>1 DEF Collected, Unpassed, Skipped, Busy
<1>4. \A k \in Job : ThreadOK(k)' /\ CollectedOK(k)' /\ InputsOK(k)'
  BY <1>1, <1>3 DEF JobsInv, ThreadOK, CollectedOK, InputsOK, Alive
<1>5. SubmittingOK' /\ BlameOK'
  BY <1>1, <1>3 DEF JobsInv, SubmittingOK, BlameOK
<1>6. EndOK'
  BY <1>1, <1>3 DEF JobsInv, EndOK
<1>. QED BY <1>1, <1>2, <1>3, <1>4, <1>5, <1>6 DEF JobsInv

\* Queued futures are cancelled and never run.
LEMMA InvInterrupt ==
  ASSUME JobsInv, Interrupt
  PROVE  JobsInv'
<1>1. TypeOK /\ \A k \in Job : ThreadOK(k) /\ CollectedOK(k) /\ InputsOK(k)
  BY DEF JobsInv
<1>. DEFINE queued == {k \in futures : job[k].at = "queued"}
<1>2. /\ pc \in {"submit", "wait", "drain", "shutdown"} /\ pc' = "abort" /\ cancel' = TRUE
      /\ cancelled' = cancelled \cup queued
      /\ job' = [k \in Job |-> IF k \in queued
                                 THEN [at |-> "done", verdict |-> "unstarted"] ELSE job[k]]
      /\ UNCHANGED <<next, quota, futures, results, errors, first,
                     child, cached, edited, expired, tainted>>
  BY DEF Interrupt
<1>3. queued \subseteq Job /\ queued \cap Collected = {}
  BY <1>1 DEF TypeOK, Collected
<1>4. /\ \A k \in queued : job'[k] = [at |-> "done", verdict |-> "unstarted"] /\ job[k].at = "queued"
      /\ \A k \in Job \ queued : job'[k] = job[k]
  BY <1>2, <1>3
<1>5. TypeOK'
  <2>1. [at |-> "done", verdict |-> "unstarted"] \in [at : Statement, verdict : Verdict]
    BY DEF Statement, Verdict
  <2>2. job' \in [Job -> [at : Statement, verdict : Verdict]]
    BY <1>1, <1>2, <2>1 DEF TypeOK
  <2>. HIDE DEF queued
  <2>. QED BY <1>1, <1>2, <1>3, <2>2 DEF TypeOK
<1>6. Collected' = Collected /\ Unpassed' = Unpassed
  <2>1. Collected' = Collected
    BY <1>2 DEF Collected
  <2>2. \A k \in Collected : job'[k] = job[k]
    BY <1>3, <1>4 DEF Collected
  <2>. QED BY <2>1, <2>2 DEF Unpassed
<1>7. \A k \in Job : k \notin queued => job[k].at # "queued"
  BY <1>1, <1>3 DEF ThreadOK, CollectedOK, Collected, TypeOK, Job
<1>. HIDE DEF queued
<1>8. \A k \in Job : ThreadOK(k)' /\ CollectedOK(k)' /\ InputsOK(k)'
  <2>. SUFFICES ASSUME NEW k \in Job
                PROVE  ThreadOK(k)' /\ CollectedOK(k)' /\ InputsOK(k)'
    OBVIOUS
  <2>1. CASE k \in queued
    <3>1. ThreadOK(k)'
      BY <1>1, <1>2, <1>4, <2>1 DEF ThreadOK, Alive
    <3>2. CollectedOK(k)' /\ InputsOK(k)'
      BY <1>1, <1>2, <1>3, <1>4, <1>6, <2>1 DEF CollectedOK, InputsOK
    <3>. QED BY <3>1, <3>2
  <2>2. CASE k \notin queued
    BY <1>1, <1>2, <1>4, <1>6, <2>2 DEF ThreadOK, CollectedOK, InputsOK, Alive
  <2>. QED BY <2>1, <2>2
<1>9. SubmittingOK' /\ EndOK'
  <2>1. \A k \in Job : job'[k].at # "queued"
    BY <1>4, <1>7
  <2>. QED BY <1>2, <2>1 DEF SubmittingOK, EndOK
<1>10. BlameOK'
  <2>1. first # 0 => first \in Collected /\ job[first].verdict \in {"fail", "error", "expired"}
    BY DEF JobsInv, BlameOK
  <2>2. Collected \subseteq Job \ queued
    BY <1>3 DEF Collected
  <2>. QED BY <1>2, <1>4, <1>6, <2>1, <2>2 DEF BlameOK
<1>. QED BY <1>2, <1>5, <1>6, <1>8, <1>9, <1>10 DEF JobsInv
-------------------------------------------------------------------------------
\* The invariant

LEMMA InvInit == Init => JobsInv
<1>. SUFFICES ASSUME Init PROVE JobsInv
  OBVIOUS
<1>1. N \in Nat /\ W \in Nat \ {0}
  BY JobsAssumption
<1>2. TypeOK
  <2>1. /\ [at |-> "new", verdict |-> "none"] \in [at : Statement, verdict : Verdict]
        /\ NoChild \in Group
    BY DEF Statement, Verdict, Group, NoChild
  <2>2. next \in 1..(N + 1) /\ quota \in 0..W /\ first \in 0..N
    BY <1>1 DEF Init
  <2>3. /\ job \in [Job -> [at : Statement, verdict : Verdict]] /\ child \in [Job -> Group]
        /\ results \in [Job -> Status \cup {"none"}]
    BY <2>1 DEF Init
  <2>. QED BY <2>2, <2>3 DEF Init, TypeOK
<1>3. Collected = {}
  BY DEF Init, Collected, Job
<1>4. \A k \in Job : ThreadOK(k) /\ CollectedOK(k) /\ InputsOK(k)
  BY <1>3 DEF Init, ThreadOK, CollectedOK, InputsOK, Alive, NoChild, Job
<1>5. Cardinality(futures) = 0 /\ futures \cup Unpassed = {}
  BY <1>3, FS_EmptySet DEF Init, Unpassed
<1>6. SubmittingOK /\ BlameOK /\ EndOK
  BY <1>1, <1>3, <1>5 DEF Init, SubmittingOK, BlameOK, EndOK
<1>7. Cardinality(futures \cup Unpassed) + quota <= W
  BY <1>1, <1>5, FS_EmptySet DEF Init
<1>. QED BY <1>2, <1>4, <1>6, <1>7 DEF Init, JobsInv

LEMMA InvNext == JobsInv /\ [Next]_vars => JobsInv'
<1>. SUFFICES ASSUME JobsInv, [Next]_vars PROVE JobsInv'
  OBVIOUS
<1>1. CASE Schedule
  BY <1>1, InvSubmit, InvSubmitted, InvCollect, InvDrain, InvShutdown DEF Schedule
<1>2. CASE Interrupt
  BY <1>2, InvInterrupt
<1>3. ASSUME NEW j \in Job, Work(j) PROVE JobsInv'
  BY <1>3, WorkMoves, InvMoves
<1>4. ASSUME NEW j \in Job, ChildStep(j) PROVE JobsInv'
  BY <1>4, InvChildStep
<1>5. ASSUME NEW j \in Job, Edit(j) PROVE JobsInv'
  BY <1>5, InvEdit
<1>6. ASSUME NEW j \in Job, Restore(j) PROVE JobsInv'
  BY <1>6, InvRestore
<1>7. CASE Expire \/ UNCHANGED vars
  BY <1>7, InvExpire
<1>. QED BY <1>1, <1>2, <1>3, <1>4, <1>5, <1>6, <1>7 DEF Next

\* run_bounded_jobs: what it knows of its jobs holds at every statement.
THEOREM JobsInvariant == Spec => []JobsInv
<1>. QED BY InvInit, InvNext, PTL DEF Spec
-------------------------------------------------------------------------------
\* What the invariant says of the phase.

\* Scheduler, threads, children and files stay in their types.
THEOREM JobsTypes == Spec => []TypeOK
<1>1. JobsInv => TypeOK
  BY DEF JobsInv
<1>. QED BY <1>1, JobsInvariant, PTL

\* run_bounded_jobs reports every job once: result, error or cancelled.
THEOREM EveryJobReported == Spec => []Accounted
<1>1. JobsInv => Accounted
  <2>. SUFFICES ASSUME JobsInv, pc = "returned"
                PROVE  /\ {j \in Job : results[j] # "none"} \cup errors \cup cancelled = Job
                       /\ {j \in Job : results[j] # "none"} \cap errors = {}
                       /\ cancelled = {j \in Job : job[j].at = "new"}
    BY DEF Accounted
  <2>1. TypeOK /\ \A k \in Job : ThreadOK(k) /\ CollectedOK(k)
    BY DEF JobsInv
  <2>2. futures = {} /\ cancelled = Skipped
    BY DEF JobsInv, EndOK
  <2>3. Skipped = {j \in Job : job[j].at = "new"}
    BY <2>1 DEF Skipped, ThreadOK
  <2>4. \A j \in Job : j \in Skipped \/ j \in Collected
    BY <2>1, <2>2 DEF Skipped, Collected, Job, TypeOK
  <2>5. \A j \in Collected : IF job[j].verdict = "error" THEN j \in errors /\ results[j] = "none"
                             ELSE j \notin errors /\ results[j] # "none"
    BY <2>1 DEF CollectedOK, ThreadOK, Collected
  <2>6. \A j \in Job \ Collected : results[j] = "none" /\ j \notin errors
    BY <2>1 DEF CollectedOK
  <2>. QED BY <2>1, <2>2, <2>3, <2>4, <2>5, <2>6 DEF TypeOK
<1>. QED BY <1>1, JobsInvariant, PTL

\* run_bounded_jobs: never more live process groups than max_workers.
THEOREM GroupsBounded == Spec => []Bounded
<1>1. JobsInv => Bounded
  <2>. SUFFICES ASSUME JobsInv PROVE Cardinality({j \in Job : Alive(j)}) <= W
    BY DEF Bounded
  <2>. DEFINE live == {j \in Job : Alive(j)}
  <2>1. TypeOK /\ \A k \in Job : ThreadOK(k) /\ CollectedOK(k)
    BY DEF JobsInv
  <2>2. live \subseteq futures \cup Unpassed
    BY <2>1 DEF ThreadOK, Collected, Unpassed, TypeOK, Job
  <2>3. futures \cup Unpassed \in SUBSET Job
    BY <2>1 DEF TypeOK, Unpassed, Collected
  <2>4. Cardinality(live) <= Cardinality(futures \cup Unpassed) /\ Cardinality(live) \in Nat
        /\ Cardinality(futures \cup Unpassed) \in Nat
    BY <2>2, <2>3, JobsFinite
  <2>5. Cardinality(futures \cup Unpassed) + quota <= W /\ quota \in Nat /\ W \in Nat
    BY <2>1, JobsAssumption DEF JobsInv, TypeOK
  <2>. QED BY <2>4, <2>5
<1>. QED BY <1>1, JobsInvariant, PTL

\* run_bounded_jobs leaves no process group that could be killed.
THEOREM NothingLeftRunning == Spec => []NoOrphan
<1>1. JobsInv => NoOrphan
  <2>. SUFFICES ASSUME JobsInv, pc \in {"returned", "raised"}, NEW j \in Job, Alive(j)
                PROVE  j \in Stubborn /\ job[j].verdict # "pass"
    BY DEF NoOrphan
  <2>1. ThreadOK(j) /\ Busy = {}
    BY DEF JobsInv, EndOK
  <2>. QED BY <2>1 DEF ThreadOK, Busy
<1>. QED BY <1>1, JobsInvariant, PTL

\* mark_failure never blames a job that was only cancelled.
THEOREM BlamedFailed == Spec => []BlameIsCause
<1>1. JobsInv => BlameIsCause
  BY DEF JobsInv, BlameOK, BlameIsCause
<1>. QED BY <1>1, JobsInvariant, PTL

\* run_phase passes exactly without a first failure, and then every job passed.
THEOREM PassMeansAll == Spec => []PassIsWhole
<1>1. JobsInv => PassIsWhole
  <2>. SUFFICES ASSUME JobsInv, pc = "returned"
                PROVE  ((first = 0) <=> PhasePasses)
                       /\ (PhasePasses => \A j \in Job : job[j].verdict = "pass")
    BY DEF PassIsWhole
  <2>1. TypeOK /\ \A k \in Job : ThreadOK(k) /\ CollectedOK(k)
    BY DEF JobsInv
  <2>2. /\ first = 0 => next > N /\ \A k \in Collected : job[k].verdict = "pass"
        /\ first # 0 => first \in Collected /\ job[first].verdict \in {"fail", "error", "expired"}
        /\ futures = {}
    BY DEF JobsInv, EndOK, BlameOK
  <2>3. PhasePasses => \A j \in Job : job[j].verdict = "pass"
    <3>. SUFFICES ASSUME NEW j \in Job, results[j] = "pass", j \notin errors
                  PROVE  job[j].verdict = "pass"
      BY DEF PhasePasses
    <3>. QED BY <2>1 DEF CollectedOK
  <2>4. CASE first = 0
    <3>1. \A j \in Job : j \in Collected
      BY <2>1, <2>2, <2>4, JobsAssumption DEF Collected, TypeOK, Job
    <3>. QED BY <2>1, <2>2, <2>3, <2>4, <3>1 DEF CollectedOK, PhasePasses
  <2>5. CASE first # 0
    <3>1. first \in Job
      BY <2>2, <2>5 DEF Collected
    <3>. QED BY <2>2, <2>3, <2>5, <3>1
  <2>. QED BY <2>4, <2>5
<1>. QED BY <1>1, JobsInvariant, PTL

\* execute_job: what passed left no change of its inputs behind that its child has seen.
THEOREM PassIsAttested == Spec => []Attested
<1>1. JobsInv => Attested
  BY DEF JobsInv, InputsOK, Attested
<1>. QED BY <1>1, JobsInvariant, PTL
=============================================================================
