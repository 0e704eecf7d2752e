--------------------------- MODULE StagedValidation --------------------------
(***************************************************************************)
(* scripts/run-catalog-validation.py: the stages of a candidate's          *)
(* validation, each run by a process of its own that first verifies the    *)
(* manifest (CandidateLedger).  The evidence of a stage is kept under the  *)
(* digest of the central catalog in files that are not to be written       *)
(* twice: a stage runs when the aggregate of the stage before it passed,   *)
(* and ends with its own aggregate.  There is no lock: what keeps a second *)
(* runner out is that files exist.                                         *)
(***************************************************************************)
EXTENDS CandidateLedger

CONSTANTS Last, Jobs  \* stages are 1..Last; the number of jobs of each

\* G1 and G2 have no jobs; a later stage without jobs is not implemented.
Stage == 1..Last
Job   == UNION {{<<s, j>> : j \in 1..Jobs[s]} : s \in Stage}

Identity  == Manifest
Verdict   == {"PASS", "PARTIAL_HOLD", "FAIL", "BLOCKED"}
Aggregate == [status : Verdict, why : {"", "exists", "other"}, manifest : Identity, aside : Value]
Receipt   == [status : {"PASS", "FAIL"}, manifest : Identity]
Log       == [status |-> "log", manifest |-> Nothing]  \* a job that has no receipt yet

ASSUME StageAssumption ==
  /\ Last \in Nat /\ Last > 2 /\ Jobs \in [Stage -> Nat] /\ Jobs[1] = 0 /\ Jobs[2] = 0
  /\ Nothing \notin Aggregate \cup Receipt \cup {Log}

VARIABLES
  aggregate,  \* [catalog, stage -> the aggregate, or Nothing]
  opening,    \* [catalog, stage -> the manifest in preflight.json (G1) or in the
              \*   sandbox profile (G3 and later), or Nothing]
  evidence,   \* [catalog, job -> Nothing, Log or the receipt]
  inventory,  \* [catalog -> the manifest it was promoted for, or Nothing]
  stage,      \* [Process -> the stage it is to run]
  prior,      \* [Process -> the aggregate of the stage before that it has read]
  done,       \* [Process -> how many jobs it has run]
  outcome,    \* [Process -> how its stage ended]
  overlapped  \* history: stages that two runners had begun at the same time

results == <<aggregate, opening, evidence, inventory>>
locals  == <<stage, prior, done, outcome>>
vars    == <<candidate, results, locals, overlapped>>

Ended(status, why) == [status |-> status, why |-> why]
Outcome == [status : Verdict, why : {"", "exists", "other"}]

SInit ==
  /\ Init
  /\ aggregate = [k \in Value \X Stage |-> Nothing]
  /\ opening = [k \in Value \X Stage |-> Nothing]
  /\ evidence = [k \in Value \X Job |-> Nothing] /\ inventory = [v \in Value |-> Nothing]
  /\ stage = [p \in Process |-> 1] /\ prior = [p \in Process |-> Nothing]
  /\ done = [p \in Process |-> 0] /\ outcome = [p \in Process |-> Ended("PASS", "")]
  /\ overlapped = {}

\* The catalog whose directory it works in, and the stage there.
Catalog(p) == doc[p].seen["tree"]
Place(p)   == <<Catalog(p), stage[p]>>

ledgerFiles == <<content, token, ledger, holder, manifest, acked, verified, used>>
mind        == <<kind, memory>>

Move(p, statement) == Goto(p, statement) /\ UNCHANGED <<ledgerFiles, mind>>

Reset(p) ==
  /\ stage' = [stage EXCEPT ![p] = 1] /\ prior' = [prior EXCEPT ![p] = Nothing]
  /\ done' = [done EXCEPT ![p] = 0] /\ outcome' = [outcome EXCEPT ![p] = Ended("PASS", "")]

\* The process is over, with whatever exit code.
Leave(p) == Return(p) /\ Reset(p) /\ UNCHANGED ledgerFiles

\* A RuntimeError in the stage is caught: the stage ends as blocked.
Conclude(p, status, why) ==
  /\ Move(p, "aggregate") /\ outcome' = [outcome EXCEPT ![p] = Ended(status, why)]
  /\ UNCHANGED <<stage, prior, done>>

Run(p) ==
  /\ Call(p, "run") /\ Check(p) /\ UNCHANGED <<got, bound, doc, id>>
  /\ UNCHANGED <<locals, results, overlapped>>

\* evidence_root, whose error is not caught; from here on the stage matters.
Root(p) ==
  /\ pc[p] = "root"
  /\ IF content["tree"] # Catalog(p) THEN Leave(p)
     ELSE /\ Move(p, "prior")
          /\ \E s \in Stage : stage' = [stage EXCEPT ![p] = s]
          /\ UNCHANGED <<prior, done, outcome>>
  /\ UNCHANGED <<results, overlapped>>

ReadPrior(p) ==
  /\ pc[p] = "prior"
  /\ Move(p, "own")
  /\ prior' = [prior EXCEPT ![p] = IF stage[p] = 1 THEN Nothing
                                   ELSE aggregate[<<Catalog(p), stage[p] - 1>>]]
  /\ UNCHANGED <<stage, done, outcome, results, overlapped>>

Inside == {"guard", "opening", "open it", "reread", "lock", "job", "launch", "wait",
           "receipt", "promote", "aggregate"}

\* Others that are at this stage of this catalog.
Company(p) == {q \in Process \ {p} : pc[q] \in Inside /\ Place(q) = Place(p)}

\* Mutant: a stage that was blocked is run once more.
ReadOwnAgain(p) ==
  /\ pc[p] = "own"
  /\ IF aggregate[Place(p)] # Nothing /\ aggregate[Place(p)].status # "BLOCKED"
       THEN Leave(p) /\ UNCHANGED overlapped
     ELSE /\ Move(p, "guard") /\ UNCHANGED locals
          /\ overlapped' = IF Company(p) = {} THEN overlapped ELSE overlapped \cup {Place(p)}
  /\ UNCHANGED results

\* An aggregate ends the process: with its verdict, or with an error that it is
\* that of another manifest.
ReadOwn(p) ==
  /\ pc[p] = "own"
  /\ IF aggregate[Place(p)] # Nothing THEN Leave(p) /\ UNCHANGED overlapped
     ELSE /\ Move(p, "guard") /\ UNCHANGED locals
          /\ overlapped' = IF Company(p) = {} THEN overlapped ELSE overlapped \cup {Place(p)}
  /\ UNCHANGED results

\* Mutant: the predecessor may have passed for another manifest.
PrecededAnyhow(p) ==
  stage[p] = 1 \/
    /\ prior[p] # Nothing
    /\ (prior[p].status = "PASS" \/ (stage[p] = 3 /\ prior[p].status = "PARTIAL_HOLD"))

\* require_predecessor; G3 is content with the path and SHA proof of G2.
Preceded(p) ==
  stage[p] = 1 \/
    /\ prior[p] # Nothing
    /\ prior[p].manifest = id[p] /\ prior[p].aside = doc[p].seen["aside"]
    /\ (prior[p].status = "PASS" \/ (stage[p] = 3 /\ prior[p].status = "PARTIAL_HOLD"))

\* What load_cache_manifest finds: every source has its digest, or not.
Intact == BOOLEAN

\* verify_trusted_provenance: review and CI are those of the manifest's commit.
Trusted(p) == content["review"] = doc[p].seen["head"]

Implemented(s) == s \in {1, 2} \/ Jobs[s] > 0

\* Cache sources, predecessor and provenance, then the stage itself.
Guard(p) ==
  /\ pc[p] = "guard"
  /\ \E intact \in Intact :
       IF intact /\ Preceded(p) /\ Trusted(p) /\ Implemented(stage[p])
         THEN Move(p, IF stage[p] = 2 THEN "lock" ELSE "opening") /\ UNCHANGED locals
       ELSE Conclude(p, "BLOCKED", "other")
  /\ UNCHANGED <<results, overlapped>>

\* _g2_catalog_lock: declared_ref is a commit, never a tag, so the verdict is at
\* best PARTIAL_HOLD.
CheckLock(p) ==
  /\ pc[p] = "lock"
  /\ IF content["tree"] = Catalog(p) THEN Conclude(p, "PARTIAL_HOLD", "")
     ELSE Conclude(p, "BLOCKED", "other")
  /\ UNCHANGED <<results, overlapped>>
-------------------------------------------------------------------------------
\* preflight.json of G1 and the sandbox profile of the others: looked for, then
\* replaced by name, then read back.

Opening(p) ==
  /\ pc[p] = "opening"
  /\ IF opening[Place(p)] # Nothing THEN Conclude(p, "BLOCKED", "exists")
     ELSE Move(p, "open it") /\ UNCHANGED locals
  /\ UNCHANGED <<results, overlapped>>

WriteOpening(p) ==
  /\ pc[p] = "open it"
  /\ opening' = [opening EXCEPT ![Place(p)] = id[p]]
  /\ Move(p, "reread")
  /\ UNCHANGED <<aggregate, evidence, inventory, locals, overlapped>>

ReadOpening(p) ==
  /\ pc[p] = "reread"
  /\ IF opening[Place(p)] # id[p] THEN Conclude(p, "BLOCKED", "other")
     ELSE IF stage[p] = 1 THEN Conclude(p, "PASS", "")
     ELSE Move(p, "job") /\ UNCHANGED locals
  /\ UNCHANGED <<results, overlapped>>
-------------------------------------------------------------------------------
\* execute_job

NextJob(p) == <<Catalog(p), <<stage[p], done[p] + 1>>>>

\* A log or a receipt that is there blocks the stage.
LookForJob(p) ==
  /\ pc[p] = "job"
  /\ IF evidence[NextJob(p)] # Nothing THEN Conclude(p, "BLOCKED", "exists")
     ELSE Move(p, "launch") /\ UNCHANGED locals
  /\ UNCHANGED <<results, overlapped>>

\* The log is created exclusively, or the process ends with an uncaught error;
\* then the command is started, or the stage is blocked.
Launch(p) ==
  /\ pc[p] = "launch"
  /\ IF evidence[NextJob(p)] # Nothing THEN Leave(p) /\ UNCHANGED evidence
     ELSE /\ evidence' = [evidence EXCEPT ![NextJob(p)] = Log]
          /\ \/ Move(p, "wait") /\ UNCHANGED locals
             \/ Conclude(p, "BLOCKED", "other")
  /\ UNCHANGED <<aggregate, opening, inventory, overlapped>>

\* It exits, or is terminated at the time limit, or its group does not drain.
Wait(p) ==
  /\ pc[p] = "wait"
  /\ \/ /\ \E status \in {"PASS", "FAIL"} : outcome' = [outcome EXCEPT ![p] = Ended(status, "")]
        /\ Move(p, "receipt") /\ UNCHANGED <<stage, prior, done>>
     \/ Conclude(p, "BLOCKED", "other")
  /\ UNCHANGED <<results, overlapped>>

\* Mutant: the stage goes on after a job that failed.
WriteReceiptOnward(p) ==
  /\ pc[p] = "receipt"
  /\ evidence' = [evidence EXCEPT ![NextJob(p)] = [status |-> outcome[p].status, manifest |-> id[p]]]
  /\ done' = [done EXCEPT ![p] = done[p] + 1]
  /\ Move(p, IF done[p] + 1 < Jobs[stage[p]] THEN "job"
             ELSE IF stage[p] = 3 /\ outcome[p].status = "PASS" THEN "promote" ELSE "aggregate")
  /\ UNCHANGED <<aggregate, opening, inventory, stage, prior, outcome, overlapped>>

\* The receipt is written; the first failure ends the stage.
WriteReceipt(p) ==
  /\ pc[p] = "receipt"
  /\ evidence' = [evidence EXCEPT ![NextJob(p)] = [status |-> outcome[p].status, manifest |-> id[p]]]
  /\ done' = [done EXCEPT ![p] = done[p] + 1]
  /\ Move(p, IF outcome[p].status = "FAIL" THEN "aggregate"
             ELSE IF done[p] + 1 < Jobs[stage[p]] THEN "job"
             ELSE IF stage[p] = 3 THEN "promote" ELSE "aggregate")
  /\ UNCHANGED <<aggregate, opening, inventory, stage, prior, outcome, overlapped>>

\* _promote_pending_json of G3, for the inventory and then for the summary, which is
\* there only when the inventory is. Either pending file may be found missing or torn;
\* when it is the summary's, the inventory has been published and stays.
Promote(p) ==
  /\ pc[p] = "promote"
  /\ IF inventory[Catalog(p)] # Nothing
       THEN Conclude(p, "BLOCKED", "exists") /\ UNCHANGED inventory
     ELSE \/ UNCHANGED inventory /\ Conclude(p, "BLOCKED", "other")
          \/ /\ inventory' = [inventory EXCEPT ![Catalog(p)] = id[p]]
             /\ \/ Move(p, "aggregate") /\ UNCHANGED locals
                \/ Conclude(p, "BLOCKED", "other")
  /\ UNCHANGED <<aggregate, opening, evidence, overlapped>>
-------------------------------------------------------------------------------
\* The last statement of run_stage replaces whatever is at the aggregate's name.
WriteAggregate(p) ==
  /\ pc[p] = "aggregate"
  /\ aggregate' = [aggregate EXCEPT ![Place(p)] =
                     [status |-> outcome[p].status, why |-> outcome[p].why,
                      manifest |-> id[p], aside |-> doc[p].seen["aside"]]]
  /\ Leave(p)
  /\ UNCHANGED <<opening, evidence, inventory, overlapped>>

StageStep(p) ==
  \/ Run(p) \/ Root(p) \/ ReadPrior(p) \/ ReadOwn(p) \/ Guard(p) \/ CheckLock(p)
  \/ Opening(p) \/ WriteOpening(p) \/ ReadOpening(p)
  \/ LookForJob(p) \/ Launch(p) \/ Wait(p) \/ WriteReceipt(p) \/ Promote(p)
  \/ WriteAggregate(p)

LedgerStep(p) == CandidateStep(p) /\ UNCHANGED <<results, locals, overlapped>>

Crash(p) == Die(p) /\ Reset(p) /\ UNCHANGED <<results, overlapped>>

Environment == Edit /\ UNCHANGED <<results, locals, overlapped>>

Next == (\E p \in Process : LedgerStep(p) \/ StageStep(p) \/ Crash(p)) \/ Environment

Spec == SInit /\ [][Next]_vars
-------------------------------------------------------------------------------
\* A job stage that passed has, for each of its jobs, a receipt that passed for the
\* manifest the aggregate names, whoever else ran the stage or died in it.
EvidenceBacked ==
  \A v \in Value, s \in Stage :
    (aggregate[<<v, s>>] # Nothing /\ aggregate[<<v, s>>].status = "PASS") =>
      \A j \in 1..Jobs[s] :
        evidence[<<v, <<s, j>>>>] = [status |-> "PASS", manifest |-> aggregate[<<v, s>>].manifest]

Good(a, s) == a.status = "PASS" \/ (s = 2 /\ a.status = "PARTIAL_HOLD")

\* Behind a stage that passed stands the stage before it, for the same manifest and
\* the same cache manifest, unless two runners were at that earlier stage at once:
\* then the last to end it has the word, even over a pass that was relied on.
Chained ==
  \A v \in Value, s \in Stage \ {1} :
    (aggregate[<<v, s>>] # Nothing /\ Good(aggregate[<<v, s>>], s)) =>
      \/ <<v, s - 1>> \in overlapped
      \/ /\ aggregate[<<v, s - 1>>] # Nothing
         /\ Good(aggregate[<<v, s - 1>>], s - 1)
         /\ aggregate[<<v, s - 1>>].manifest = aggregate[<<v, s>>].manifest
         /\ aggregate[<<v, s - 1>>].aside = aggregate[<<v, s>>].aside

\* An aggregate is never written twice, again unless two runners were at it at once:
\* nothing but the order in which files are looked for and made sees to it.
VerdictLasts ==
  [][\A k \in Value \X Stage :
       aggregate[k] # Nothing /\ k \notin overlapped' => aggregate'[k] = aggregate[k]]_vars
===============================================================================
