# TLA+ models of bluetape4k-dependencies

The repository publishes a Gradle BOM and a version catalog. Its Gradle code is
declarative; its logic is in the Python scripts under `scripts/`, which move
catalogs, ledgers, receipts and snapshots from one consistent state to another
while processes crash, run side by side and fail half-way. These modules model
those scripts, TLC checks the models on small instances, and TLAPS proves what
matters most for every value of the constants.

Paths below are relative to the repository; line numbers without a file are
those of `scripts/catalog_rollout_evidence.py`.

## 1. Inventory

| Component | Code | State it keeps | Operations | Status |
|---|---|---|---|---|
| Rollout transaction | `catalog_rollout_evidence.py` 1-2761, 3275-4541 | target files; journal, identity sidecar, finalization marker; artifacts of interrupted renames; one root lock | commit, recover | **modelled** |
| Immutable rollout snapshots | same file, 2763-3272, 4781-5249 | snapshot directories, staging directories, receipts, temporary files under removal | publish, write once, verify, clean up, take over a cleanup | **modelled** |
| Rollout documents | same file, 5252-5391; `audit-latest-stable.py`, `verify-latest-stable-resolved-graphs.py` | the audit, two ledgers, a snapshot for each row | start, refresh, promote, recover, validate across files | partly modelled: all but the content of an audit and the pinning of older rows |
| Validation receipt | `verify-issues-242-243-receipt.py` | one receipt per issue pair: repository states, global state, phases, budget | validate, transition under a lock, locked write with read-back | **modelled** |
| Validation phase runner | `run-issues-242-243-validation.py` | running children, result cache, memory of a phase | reserve, run jobs in parallel, supervise a command, update | partly modelled: all but the construction of the jobs and the checks of their graphs |
| Signing helper synchronisation | `sync-publishing-signing-support.py` | one helper file per sibling repository | check, write all, restore | **modelled** |
| Candidate ledger | `catalog_candidate.py` | hash-chained log, genesis record, lock, manifest | prepare, append, verify | **modelled** |
| Staged catalog validation | `run-catalog-validation.py` | receipts per job, an aggregate per stage, the inventory | preflight, lock check, job stages | **modelled** |
| Dependabot projection | `project-dependabot-catalog.py` | evidence file, projected catalog | project, write, restore | not modelled |
| POM verification | `verify-publication-poms.py` | build outputs | build, verify | not modelled |
| Catalog authority | `catalog_authority.py`, `migrate-…`, `promote-…` | catalog text, digests | pure transformations | not modelled |
| Version, catalog and ignore synchronisation | `sync-shared-versions.py`, `sync-managed-catalog.py`, `sync-dependabot-ignores.py` | text files | read, transform, write | not modelled |
| Verifiers and reports | seven scripts, listed in `PROJECT.json` | none | compute a verdict or a report | not modelled |
| Shell helpers | three scripts | none | retry, checkout | not modelled |
| Build logic and workflows | `build.gradle.kts`, `buildSrc/`, `.github/workflows/` | none | configuration | not modelled |

How they interact: `audit-latest-stable.py` (953, 1100) and
`verify-latest-stable-resolved-graphs.py` (674, 761) first *recover* the rollout
transaction, read the rollout documents, publish immutable snapshots, and *commit*
new documents through a transaction. The phase runner reserves its budget in the
validation receipt, runs jobs, and writes their outcome back as a
compare-and-swap on the receipt's digest. The stages of
`run-catalog-validation.py` are chained by aggregates that name their
predecessor; each begins by verifying the candidate's manifest against the ledger
that `catalog_candidate.py` keeps. The signing helper synchronisation is used alone.

`RolloutDocuments` uses a transaction as what `AllOrNothing` promises and a snapshot
as what `WriteOnce` promises; `RolloutTransaction` and `ImmutableEvidence` are shown
to implement these two. `StagedValidation` extends `CandidateLedger`: the two run on
the same files.

What is hard, and what makes each part correct:

* **Rollout transaction.** Several files must change together although a rename
  changes one. A crash may fall between any two system calls, including those
  of recovery itself, and processes that do not take the lock write the same
  files. Correct means: all targets or none; never without the evidence that can
  finish the job; never over somebody else's bytes; and recovery finishes.
* **Snapshots.** Concurrent publishers of one name, and of a name inside another's
  directory, without a lock; a cleanup that a crash leaves half-way is finished by
  another call. Correct means: what is at a name is complete and never changes, a
  loser accepts only an identical winner, and a call that says "published" is right.
* **Rollout documents.** Documents are read outside the transaction that
  replaces them. Correct means: every row names published evidence, the two ledgers
  agree, a pending transaction can be finished, and a row is lost only to a call that
  had read the central ledger before the row was written.
* **Receipt and runner.** A phase runs for up to 90 minutes outside the lock
  while transitions and other runners go on, and it may be interrupted at any
  point. Correct means: a receipt says "validated" only when every phase really
  passed; no time is granted twice; no transition is lost; a job is accounted
  for once, no more than `max_workers` run, and the first failure cancels the rest.
* **Signing helper.** Correct means: after a failure without a crash either all
  repositories have the new helper or all have what they had, foreign writes aside.
* **Ledger, stages.** The ledger has a lock; the manifest, the stages and their
  evidence have none but the existence of files. Correct means: a record that was
  returned stays, one genesis stays the first, a stage that passed has its
  receipts and its predecessor, and a verdict stands.

`PROJECT.json` lists the hazards of the code line by line with the properties
that cover each.

## 2. Plan

1. **Rollout transaction** (done): `RolloutTransaction`, the abstract
   `AllOrNothing` it implements, the invariant, the proofs.
2. **Validation receipt** (done): `ValidationReceipt` with transitions and the
   receipt side of several phase runners, the invariant, the proofs.
3. **Bounded jobs** (done): `BoundedJobs`, the scheduler, cancellation, the
   supervision of children and the evidence cache, the invariant, the proofs.
4. **Immutable snapshots** (done): `ImmutableEvidence` and the abstract `WriteOnce`.
5. **Signing helper, ledger, stages** (done): `HelperSync`, `CandidateLedger`,
   `StagedValidation`, their invariants.
6. **Rollout documents** (done): `RolloutDocuments`, the callers of a transaction
   with their reads before the lock.
7. **Proofs** of 4 to 6, and the longer invariant of the rollout transaction (done).
8. **Dependabot projection**: publication of two files with read-back and restore.

Each module has its parameters as constants with named assumptions, one action
per operation, no `RECURSIVE` operator, and its theorems in a module of its own.

## 3. The modules

| Module | What it is |
|---|---|
| `RolloutTransaction` | commit, recover and all they call, with crashes, foreign writers and rejections; the properties |
| `AllOrNothing` | what a transaction promises, with nothing but contents, "open" and the record |
| `RolloutInvariant` | the inductive invariants `IInv` and `LInv` |
| `RolloutTransactionProofs` | the theorems that follow from `IInv`: contents and the journal |
| `RolloutLifecycleProofs` | those that follow from `LInv`: artifacts, marker, sidecar and failures |
| `RolloutClaims` | five statements of a lessons document that the code does not meet, `Claim*.cfg` |
| `MCRolloutTransaction` | the TLC instance: starting contents and symmetry |
| `ValidationReceipt` | the receipt, its validator, `transition_receipt` and `run_phase` of several processes; the properties |
| `ReceiptInvariant` | the inductive invariant `ReceiptInv` |
| `ValidationReceiptProofs` | the theorems |
| `ReceiptClaims` | two statements of the design and the plan that the code does not meet |
| `MCValidationReceipt` | the TLC instance: which phase stands for which repositories, symmetry |
| `BoundedJobs` | the scheduler of a phase, its threads and their child processes; the properties |
| `JobsInvariant` | the inductive invariant `JobsInv` |
| `BoundedJobsProofs` | the theorems |
| `JobsClaims` | a statement of the design on changed inputs that the code does not meet |
| `MCBoundedJobs` | the TLC instance |
| `ImmutableEvidence` | publication of snapshot directories and receipts by concurrent processes; the properties |
| `WriteOnce` | what a publication promises: a register that is written once |
| `EvidenceInvariant` | the inductive invariant `EvidenceInv` |
| `MCImmutableEvidence` | the TLC instance: symmetry |
| `HelperSync` | check and write mode of the signing helper synchronisation; the properties |
| `SyncInvariant` | the inductive invariant `SyncInv` |
| `SyncClaims` | a comment in the code that the code does not meet |
| `MCHelperSync` | the TLC instance: what the targets hold at first, symmetry |
| `CandidateLedger` | prepare, append and verify of a candidate; the property on the ledger |
| `StagedValidation` | the stages of its validation; the properties on the evidence |
| `StagesInvariant` | the inductive invariant `StagesInv` of both |
| `MCStagedValidation` | the TLC instance: the jobs of the stages, symmetry |
| `StagesClaims`, `MCStagesClaims` | a statement of the plan that the code does not meet, and its instance |
| `RolloutDocuments` | the calls that start, refresh and promote a rollout; the properties |
| `MCRolloutDocuments` | the TLC instance: symmetry |
| `DocumentsInvariant` | the inductive invariant `DocumentsInv` |
| `ImmutableEvidenceProofs`, `HelperSyncProofs`, `StagedValidationProofs`, `RolloutDocumentsProofs` | the theorems |

## 4. The rollout transaction

### State

| Variable | In the code |
|---|---|
| `target` | bytes (with mode) and inode at each target's name |
| `journal` | `.catalog-rollout-transaction.json`: prior and desired state of each target |
| `identity` | `.catalog-rollout-transaction.identity`: the inodes published so far |
| `marker` | `.catalog-rollout-transaction.finalizing`: the inodes when publication was complete |
| `debris` | per target, the temporary file, the guard (`.replace`) and the rollback tombstone that an interrupted write or deletion leaves, with the stage of the deletion protocol it is in |
| `husks` | the same for the evidence files: tombstones and the guard of a sidecar update |
| `run` | the memory of the invocation that holds the root lock; `pc` is the statement it is at |
| `begun`, `touched`, `tampered`, `faults` | history: the transaction last journalled, what others wrote since, the bounds used |

A crash sets `run` to `Idle` and nothing else: all other variables but the
history are names in a directory. `husks` is a set, `debris` a record, as the
code scans the first by suffix and looks the second up by target.

### Actions

| Actions | Code |
|---|---|
| `Commit`, `Capture`, `PutIdentity`, `PutJournal` | `commit_catalog_rollout_transaction` |
| `Scan`, `Quarantine`, `AdmitNoJournal`, `RestoreJournal`, `Admit` | the head of `_recover_catalog_rollout_transaction`: what evidence is accepted, repaired or refused |
| `ReconcileRename` … `ReconcileNext` | `_reconcile_target_artifacts_at` |
| `CheckTargets`, `Validate`, `Publish`, `Persist`, `PersistPlace`, `ValidateTargets` | the publication |
| `WriteOpen` … `WriteRaise` | `_atomic_write_bytes_at`, one action per durable step |
| `Rollback`, `RollbackRemove`, `RollbackRemoved` | undoing a failed publication |
| `PutMarker` … `Finished`, `RestoreEvidence` | finalization |
| `DiscardDebris`, `DiscardHusk` | `_discard_expected_tombstone_at`, one move per step |
| `Crash`, `External` | the environment |

An exception (`Thrown`) leads to the rollback from inside the publication's
`try` and leaves the invocation everywhere else.

### Abstractions

* The content of a file is a model value that stands for its bytes and mode. An
  inode is a model value; a number is reused when no file and no open
  descriptor has it, as the file system may.
* Writing one evidence file to a free name is a single step: the temporary file
  of such a write is named by nobody and read by nobody. Updating the sidecar,
  which moves the old one away first, is two.
* Making a quarantine directory and moving the entry into it are one step. The
  rename with an identity check is atomic; the code's fallback for platforms
  without a no-replace rename (463-562) is not modelled.
* All targets share the directory of the journal.
* Foreign processes replace or remove targets. They do not write into an
  existing inode, and they leave the evidence files alone.
* System calls succeed. An interrupted write is covered by its crash; an fsync
  that raises in a live process is not.
* The guard of a sidecar update that a crash left under its first name is read
  by nothing and is dropped at the next update.
* Two refusals are kept as guards although no modelled state reaches them: that
  of `Capture` after a successful recovery, and that of `RestoreJournal`.
* A commit that meets a journal raises before it changes anything: no action.

### Runs

| Run | Question | Bounds |
|---|---|---|
| `RolloutFaults` | Do all safety properties hold and does the transaction implement `AllOrNothing`? | two targets that hold old or new bytes or are missing, four inodes, two crashes, one foreign write, one rejection |
| `RolloutCommits` | Is `LInv` kept from one transaction to the next? | one target, two commits, two crashes, one foreign write, one rejection |
| `RolloutResume` | Does recovery finish once faults stop? | two targets, one crash at any step |
| `ClaimRerunCompletes` | Can a commit be repeated, as the document says? No. | the smallest instance that shows it |

Two targets are the fewest of which one is published and the other is not, and
the promotion of the repository commits two ledgers. Two crashes allow a
crash of the transaction and one of its recovery. Four inodes give each target
its file and a successor; with a foreign file the numbers are reused, which is
the harder case. The bounds on faults (`MaxCommit`, `MaxCrash`, `MaxExternal`,
`MaxInvalid`) are constants of the module; the theorems hold for all of them.
The inodes are symmetric in the safety runs.

### Properties

* `Durability`: a journalled transaction that left no evidence has put every
  target at its desired bytes, except where somebody else wrote.
* `PartialHasJournal`: while the targets are partly published, the journal that
  can finish or undo the work is at its name.
* `VacantHasGuard`: an existing target's name is empty only while its bytes are
  in the guard.
* `MarkerSealed`: under a marker the targets are the recorded inodes with the
  desired bytes.
* `NoOrphanArtifact`: no guard, temporary file or tombstone of a target outlives
  the journal of its transaction.
* `JournalOwned`: a live journal has a sidecar or a marker, except between the
  two renames of a sidecar update.
* `CleanFailure`: a failure that is not a crash undoes everything.
* `NoClobber`: no step of an invocation displaces bytes that are neither prior
  nor desired. The comparison and the rename are apart in the code; what makes
  the property true is the second comparison on the locked inode.
* `ImplementsAllOrNothing`: contents change only under an open journal, from and
  to what it names, and it closes only when all hold the desired bytes.
* `Resumes`: after the last fault, repeated recovery reaches a settled state,
  unless the evidence is one of the refusals in `Wedged`.

`Wedged` lists, by the code's own messages, the states in which recovery keeps
its evidence and gives up. Some are intended: a foreign file with the desired
bytes must not be taken for the transaction's own. Some are not, and are what
the claims below show. A rejection under a marker is in the list too: the
rollback undoes the targets while the marker stays, and the next recovery
reports "finalization target changed externally".

### Findings

All five quote `docs/lessons/2026-10-24-immutable-catalog-rollout-evidence.md` and are
refuted by the configuration `Claim<name>.cfg` over `MCRolloutTransaction`. The second
is among the runs; the others are checked by hand, with
`tlc -config ClaimMarkerResumes.cfg MCRolloutTransaction` and so on.

1. `MarkerResumes`: the journal is removed before the marker, and a marker
   without a journal is refused. A crash between the two removals is final.
2. `RerunCompletes`: a target that already holds the desired bytes counts as
   published by nobody. A commit that leaves one of its files unchanged fails,
   without any fault, and so does every recovery of its journal.
3. `QuarantineReturns`: the last steps of a deletion move the entry to a private
   name that the recovery of quarantine directories does not accept.
4. `TombstoneCleaned`: the tombstone of a rolled-back new file carries a process
   id where recovery expects the transaction id.
5. `NoReapply`: under a marker the targets are checked once; a foreign write
   between the check and the publication makes recovery write the target again.

### Fairness

`Fairness` has weak fairness of `Working`: a process that holds the lock keeps
running until it returns, raises or crashes. It has weak fairness of `Recover`,
because both scripts that use transactions call recovery before anything else.
Nothing is assumed of `Commit`, crashes or foreign writers; `Resumes` speaks of
the behaviours in which the bounded faults are used up.

### Proofs

#### Contents and the journal

`RolloutTransactionProofs` proves, from `ConstantsAssumption` and
`NoFileAssumption` alone (a finite positive number of targets, the "no value"
constants are no values):

| Theorem | Statement |
|---|---|
| `TypeCorrect` | `Spec => []TypeOK` |
| `Invariance` | `Spec => []IInv` |
| `AllDurable` | `Spec => []Durability` |
| `PartialJournalled` | `Spec => []PartialHasJournal` |
| `NothingClobbered` | `Spec => NoClobber` |
| `Implements` | `Spec => ImplementsAllOrNothing` |

The argument. `Durability` is not inductive: it says nothing of a running
invocation. `IInv` says what an invocation knows at each statement:

* the journal, when there is one, is the transaction of the history (`Recorded`),
  and so is the transaction in memory from the moment it was read (`Loaded`),
  and every tombstone of a journal (`Buried`), so that one restored from a
  tombstone is the right one;
* before the journal is written, what was captured is what the targets hold
  (`Prepared`), so the prior state that a rollback restores is the true one;
* a write runs only in the publication or the rollback, between the two contents
  of the record (`WriteHome`), and at each step its guard holds the bytes it
  replaced (`WriteProgress`), so putting the guard back is a legal change;
* while evidence is removed there is a marker (`Marked`);
* a closed transaction has its targets at the desired bytes (`Promised`, taken
  from `AllOrNothing` under the refinement mapping).

`TypeStep` and `InvStep` prove that each action keeps it, one step per action.
`TargetStep` and `JournalStep` then say which steps change targets and the
journal, and how; the refinement (`PromiseStep`) and `NoClobber` follow from them.

#### Artifacts, marker, sidecar and failures

`RolloutLifecycleProofs` proves, with `NoTaskAssumption` besides ("no value" is no
running write and no artifact under removal either):

| Theorem | Statement |
|---|---|
| `LifecycleInvariance` | `Spec => []LInv` |
| `NothingLost` | `Spec => []VacantHasGuard` |
| `MarkerTrue` | `Spec => []MarkerSealed` |
| `ArtifactsRemoved` | `Spec => []NoOrphanArtifact` |
| `JournalNotAlone` | `Spec => []JournalOwned` |
| `RejectionUndone` | `Spec => []CleanFailure` |
| `MarkerFreezes` | no step writes a target under a marker nobody interfered with |
| `SecondPassIdle` | the reconciliation after the publication finds no artifact |

The argument. None of the five properties is inductive, and `IInv` says nothing of
artifacts, marker or sidecar. `LInv` is `IInv` and

* `OneTask`: at most one of a write and the removals of artifacts is running;
  `Counted`: who interfered was counted;
* `Vacancy`: a guard is removed when its target is back (`SafeDrop`), and the
  rollback removes only targets that are new (`FreshRemove`);
* `Cleared`: the scan leaves artifacts under two kinds of names only (`Exposed`),
  which are those the first reconciliation clears, target by target (`Swept`);
  from then on an artifact belongs to the write that is running or is being removed
  (`Clear`), until the journal, and with it the id, is gone;
* `SealedInv`: from the last check before the marker the targets stay published
  (`FinalPublished`); recovery under an undisturbed marker finds all of them so,
  starts no write and never gets to the rollback (`Intact`); a transaction starts
  without a marker (`Unmarked`). This is where recovery's single check of the targets
  under a marker is enough, and the exception in it is where it is not: see
  `NoReapply` above;
* `Sidecar`: whoever works on the targets has the sidecar or the marker (`Bound`),
  the guard of a sidecar update goes last (`GuardLast`), and the evidence goes in
  one order (`Gone`);
* `CalmInv`: while nothing has failed but the validation, nothing is left over from
  an earlier invocation (`CalmEvidence`); each target is at its prior state or
  published, those past the one the rollback is at are back at their prior state
  (`CalmTargets`), and a write finds what it expects at every step (`CalmWrite`), so
  the rollback cannot give up half-way.

For each action one lemma says what it does to the memory of the invocation and which
files it leaves alone (`GoEffect` … `ExternalEffect`). Then each part of `LInv` has a
lemma that every step keeps it from all of `LInv` (`OneTaskStep` … `CalmTargetsStep`),
by the families of actions that can disturb it.

TLC checked `LInv` before it was proved, on the instance of `RolloutFaults`
(1.3 million states) and on that of `RolloutCommits`, which is a run. `MarkerFreezes`
and `SecondPassIdle` were checked the same way; the second says that
`_reconcile_target_artifacts_at` after the publication is a precaution
that no modelled state needs.

#### Only model-checked

The liveness property `Resumes`, as liveness under fairness is out of the prover's
reach, and the claims, which are refuted.

## 5. The validation receipt

### State

| Variable | In the code |
|---|---|
| `receipt` | the document: states of repositories and consumers, `current_state`, `remaining_seconds`, the phases that consume budget, whether there is a failure record |
| `sound` | worktrees, helper files, map and cache still are what the digests in the document say |
| `published` | the candidate Maven repository is not empty |
| `run` | the locals of each process's `run_phase`; `pc` is the statement it is at |
| `truth`, `spent`, `crashed`, `started`, `drifts` | history: what the last run of each phase came to, the time used, a death between a write and its read-back, the bounds used |

### Actions

| Action | Code |
|---|---|
| `ReadDocument`, `ReadDigest` | the head of `run_phase`: the receipt is read twice, the rerun rule belongs to the first read, the digest to the second |
| `Reserve`, `ReserveReadBack` | `_reserve_validation_budget`: write under the lock, validate again, restore |
| `JobsDone` | `build_phase_jobs` and `run_bounded_jobs`: some time passes, some jobs fail |
| `Update`, `UpdateReadBack` | `_write_receipt_update`, with the accounting of the budget in `Updated` |
| `Abandon` | an interrupt, a crash or an exception after the reservation |
| `Transition` | `transition_receipt`; it validates what it writes first, so it needs no read-back of its own |
| `Drift` | a worktree moves away from the recorded one, or back |

The validator is `WellFormed` (what it asks of the document: the derived global
state, and for "validated" and "adopted" the `Terminal` evidence) and `sound`
(what it compares with the file system). Called without an evidence commit, as
all writers call it, it refuses an adopted receipt (`Valid`).

### Abstractions

* A digest of the receipt is the document itself.
* Digests of heads, helpers, commands and manifests are one boolean. They change
  together; what matters here is that the validator may refuse at any time.
* Times are integers and the tolerances of 0.001 s are none.
* The phases `discover` and `candidate-bom-artifacts`, which consume no budget,
  are left out, as are the coverage checks of the terminal validator on the jobs
  of a phase: a phase that was run for selected repositories only does not
  satisfy them, here every run covers its repositories.
* System calls succeed, so the rollback inside `write_atomic` is not modelled. A
  process may die at any point: its lock is released and, before the
  read-back, its write stays.
* Receipts of issue 242 alone are not modelled: the validator of transitions
  refuses them.

### Run and bounds

| Run | Question | Bounds |
|---|---|---|
| `ReceiptSafety` | Do the properties and `ReceiptInv` hold? | two runners, two repositories, two phases of which one is the producer, a budget of 3, phases that take 1 or 4, three runs of phases, one drift |
| `ClaimTailRerun` | Does the code keep the order of the phases that the design demands? No. | the smallest instance that shows it |

Two runners are the fewest that compete. A budget of 3 lets two phases pass in
one unit each, so that a receipt is validated and adopted, and a third run
repeats one of them; 4 exceeds every reservation. Transitions are unbounded.
`MaxRun` and `MaxDrift` are constants of the module; the theorems hold for all.

* `FailClosed`: a receipt that says "validated" or "adopted" has a true pass,
  within its budget, of the last run of every phase. A rerun that fails, but whose
  outcome is lost, must not leave the older pass usable.
* `ExclusiveRun`: two runners never run phases of one receipt at once, although
  the lock is not held while jobs run.
* `BudgetCap`: what a runner was granted, or what the receipt offers, together
  with what was used is within the total.
* `NeverRejected`: when the lock is free and no process died between a write and
  its read-back, the document is one the validator accepts.
* `AdoptedFrozen`: nothing changes an adopted receipt, a late update included.

A death between a write and its read-back can leave a document that the
validator rejects while a worktree differs from the recorded one; that is why
`NeverRejected` excludes it.

### Findings

1. `TailRerun`: the rerun rule is applied to one read of the receipt and the
   reservation compares the digest of another. A phase that completes in between
   lets a phase in the middle run again. The accounting survives it (`BudgetCap`,
   `FailClosed`), the order of the phases does not.
2. `AdoptedTerminal` (checked by hand, `ClaimAdoptedTerminal.cfg`): repositories are
   adopted one at a time, and a failing phase blocks the repositories of its jobs
   whatever their state is.

### Proofs

`ValidationReceiptProofs` proves from `ReceiptAssumption` and
`NoReceiptAssumption`: `ReceiptTyped`, `ReceiptInvariance`, `OnlyTruePasses`
(`FailClosed`), `RunsExclusive` (`ExclusiveRun`), `BudgetKept` (`BudgetCap`),
`AlwaysAccepted` (`NeverRejected`) and `AdoptedForever` (`AdoptedFrozen`): every
property that the run checks.

`FailClosed` and `ExclusiveRun` are not inductive: nothing in them prevents a
validated receipt while a phase runs. `ReceiptInv` rests on one observation. A
reservation sets the remaining budget to zero without a phase record that
accounts for it, so from then on `remaining` differs from what the last phase
left (`~Settled`). It stays so while jobs run, after an interrupt and after a
lost outcome, and only the update of this very reservation repairs it. The
terminal validator compares the two, so an unsettled receipt is never accepted
as validated, and a settled one has only true passes (`Honest`). The rest is what
a runner knows at each statement: `ReservingOK`, `HeldOK`, `FinishedOK`,
`UpdatingOK`. The difficult lemmas are on `Updated`: removing the old record of a
phase and appending the new one keeps names unique, keeps the passes of the
others true, and leaves what `Left` computes.

## 6. The jobs of a phase

`run_phase` gives the jobs of a phase to `run_bounded_jobs`. What that returns
is the outcome that `JobsDone` of `ValidationReceipt` chooses freely, so the
two models meet there: nothing `BoundedJobs` can do is missing in the receipt's.
Line numbers in this section are those of
`scripts/run-issues-242-243-validation.py`.

### State

| Variable | In the code |
|---|---|
| `pc`, `quota` | the statement of `run_bounded_jobs`, and the calls of `submit_next` that its loops still owe |
| `next`, `futures`, `results`, `errors`, `cancelled`, `first`, `cancel` | its locals `pending`, `futures`, `results`, `errors`, `cancelled`, `first_failure` and the event all threads share |
| `job` | per job the statement of `execute_job` and `run_command` its thread is at, and what the future came to |
| `child` | per job its process group: how its leader ended, whether other members live, whether somebody holds the output open |
| `cached`, `edited`, `expired` | the evidence cache, the jobs whose inputs differ from the recorded ones, the deadline of the phase |
| `tainted` | history: jobs whose inputs differed while their child lived and were not put back |

### Actions

| Actions | Code |
|---|---|
| `Submit`, `Submitted`, `Collect`, `Drain`, `Shutdown` | `run_bounded_jobs`, one action per wait |
| `Interrupt` | its `except BaseException` |
| `Begin`, `Lookup`, `Confirm`, `Prepare`, `Attest` | `execute_job`: each `revalidate()` is a step of its own, so an edit can fall between any two |
| `CheckCancel`, `Spawn`, `SeeCancel`, `TimeOut`, `Overflow`, `SeeOthers`, `EndOfOutput`, `Exited` | `run_command` and `_terminate_process_group` |
| `ChildStep`, `Edit`, `Restore`, `Expire` | children, people who change inputs and put them back, the clock |

`Collect` takes any part of what is done: `wait` returned that part, and others
may have ended before the loop reaches `internal_cancel.set()`.

### Abstractions

* The digests of a job's inputs are one boolean. Inputs may change and be put
  back at any time; `MaxEdit` bounds how many jobs' inputs differ at once.
* The timeout of a child may end it at any time: it is at most what the phase
  has left, and how long a child runs is not modelled.
* Killing a group is one step. A group in `Stubborn` may survive it, which is
  an error, or refuse it: `os.killpg` then raises `PermissionError`, which
  `run_command` catches as it catches a failed launch (1082), and the status is
  the one it had decided on.
* A thread starts as soon as one of the `max_workers` is free.
* Descendants that leave the process group are outside of what `run_command`
  promises. Errors of the file system, in the cache, in the failure artifact or
  on the pipes, end a job with an exception or as failed; they are not modelled.
* A second interrupt while the first is handled is not modelled.
* The checks of graphs that follow the scheduler (`validate_graph_result`) can
  only turn a pass into a failure; `PhasePasses` is the status before them.

### Run and bounds

`JobsSafety` has three jobs on two threads: the third is submitted only when one
was collected, and is the one that is never submitted after a failure. Job 1 is
a producer, which does not answer from the cache, group 2 may be stubborn, one
job's inputs may differ at a time, and an interrupt may come at any time. The initial
cache is arbitrary. Three is one job more than the pool: with the stubborn group
left behind, `Bounded` fails as soon as both others run, as it does in its mutant.

* `Accounted`: every job is reported once, with a result, an error, or as
  cancelled because it was never submitted. `run_phase` has a branch for a job
  that is missing (3060); it is never taken when the scheduler returns.
* `Bounded`: no more process groups live than `max_workers`, although the thread
  of a stubborn one ends and its place in the pool becomes free.
* `NoOrphan`: after a return or an interrupt nothing is left that can be killed,
  and a job whose group is left has not passed.
* `BlameIsCause`: the first failure was not itself a cancellation. The drain
  collects jobs with smaller numbers than the blamed one, and must not blame them.
* `PassIsWhole`: the status of the phase and the first failure agree, and a
  passing phase has no job that failed, was cancelled or is missing.
* `Attested`: no job passes over a change of its inputs that was there while its
  child lived and was not undone before the check that follows the child.
* `Finishes`: the phase ends whatever the children do.

Fairness: weak fairness of the scheduler's thread and of each worker. The
operating system runs threads, and the disjunct `TimeOut` says that the clock
reaches a timeout. Nothing is assumed of children, edits or interrupts.

### Findings

`EditsNoticed` (`JobsClaims`, checked by hand with
`tlc -config ClaimEditNoticed.cfg JobsClaims`): lines 356-358 of the design say that
the check after the child keeps source that changed during the run from being recorded
as the output of the verified HEAD, and a comment in the code (2340-2342) that it must
never be attested. The code compares before and after (2309, 2343). An edit that is made
and undone while the child lives is not noticed, whatever the child has read. `Attested`
says what remains true.

### Proofs

`BoundedJobsProofs` proves, from `JobsAssumption`, `JobsTypes`, `JobsInvariant`
(`JobsInv`), `EveryJobReported` (`Accounted`), `GroupsBounded` (`Bounded`),
`NothingLeftRunning` (`NoOrphan`), `BlamedFailed` (`BlameIsCause`),
`PassMeansAll` (`PassIsWhole`) and `PassIsAttested` (`Attested`), for any number
of jobs and threads.

`Bounded` is not inductive, and counting futures is not enough: a stubborn group
lives on after its future was collected. `JobsInv` counts the futures together with
the collected jobs that did not pass (`Unpassed`), and the calls of `submit_next`
that are due: their sum never exceeds `max_workers`. While jobs are submitted
nothing has failed (`SubmittingOK`), so a collected job frees its place; after a
failure nothing is submitted. `ThreadOK` ties each group to a thread that watches
it, `CollectedOK` the record to what the jobs came to, `BlameOK` the blame to a
job that failed before the event was set, and `InputsOK` the history to the last
check of the inputs. The steps of a thread have one shape (`Moves`), so that one
lemma serves the thirteen of them (`WorkMoves`, `InvMoves`).

Only model-checked: `Finishes`, as liveness is out of the prover's reach.

## 7. Immutable evidence

Line numbers are those of `scripts/catalog_rollout_evidence.py`.

### State

| Variable | In the code |
|---|---|
| `at`, `files` | per directory inode its name (a snapshot, the staging name of a live call, one a dead call left, or none) and the bytes of its files |
| `receipt` | the bytes at the name of a receipt |
| `temp` | per temporary file the kind of name it has by now (`.tmp`, rollback, delete, private), how often it got a new rollback name, and its bytes |
| `pc`, `call`, `role`, `dir`, `todo`, `old`, `own`, `ok` | the statement and the locals of each process's call |
| `confirmed`, `lost`, `used` | history: what calls returned as published, what others removed, the bounds used |

The base snapshot of a rollout is also the parent directory of its revisions, as in
`config/rollouts/<rollout>/revisions/`; opening a parent makes it.

### Actions

| Actions | Code |
|---|---|
| `Publish`, `OpenParent`, `Look`, `MakeStaging`, `WriteFile`, `Seal`, `Rename` | `_publish_immutable_snapshot` up to the rename without replacement |
| `OpenWinner`, `CheckBytes`, `CheckPlace` | what the winner of the rename, its loser, and who found the directory there check, in the order of each |
| `Cleanup` | the `finally` that removes the staging directory |
| `Write`, `Create`, `Fill`, `Link`, `Compare` | `write_immutable_bytes` |
| `Scan`, `Recover` | the removal of a temporary file that an interrupted cleanup left under its rollback name |
| `Bury`, `Retire`, `Hide`, `Unlink` | the names a temporary file is moved through before it is unlinked |
| `Crash`, `Loss` | the environment: a process dies, somebody removes a publication |

### Abstractions

* Files of a snapshot are written in one step each; the receipt's temporary file is
  written in one step after its creation, so a crash leaves it empty or complete.
* Which inode the file system gives out is the first free one; the inode of a
  temporary file is not used again.
* Others remove publications, the base only when no revision is in it or on its
  way into it. They do not write into them.
* System calls do not fail.

### Run and bounds

`EvidencePublish` has two processes, three calls, a base with one revision, a receipt,
two files in a snapshot, two contents of each, one crash, one removal. Two processes
race for one name and one takes over what the other left; the third call meets the
result. Nothing waits for anybody, so deadlock is not checked: the bound on calls
ends every behaviour. This is so in sections 8 to 10 as well.

* `EvidenceInv`: the inductive invariant, see the proofs.
* `ImplementsWriteOnce`: publication by any number of calls and through crashes is a
  register that is written once. No name ever shows a part of a snapshot or a receipt.
* `Confirmed`: a call that returned told the truth, whoever published its bytes.
* `NothingLeft`: without a crash, no staging directory and no temporary file
  remains when all calls have ended, even when one takes over the removal that
  another is in the middle of.

### What the model shows besides

* The recovery of a cleanup may take the file of a live writer, whose call then
  raises although its receipt is published.
* A crash in the middle of a cleanup of bytes that differ from the receipt's leaves a
  file that every later writer with other bytes refuses (1393).
* Publishing a revision makes the base directory if it is not there (4791), and a
  base that exists without its files can never be published afterwards.

### Proofs

`ImmutableEvidenceProofs` proves from `EvidenceAssumption` (the names are apart and a
snapshot has a file), for any number of processes, directories, files and calls:

| Theorem | Statement |
|---|---|
| `EvidenceInvariance` | `Spec => []EvidenceInv` |
| `ReportsHold` | `Spec => []Confirmed` |
| `CallsCleanUp` | `Spec => []NothingLeft` |
| `EvidenceWrittenOnce` | `Spec => ImplementsWriteOnce` |

`Confirmed` says nothing of a call that is still running, so `EvidenceInv` says what a
call knows at each statement:

* what has a snapshot's name is whole, but for a base that only a revision's
  publication has made (`Whole`), and has it alone (`OneDir`);
* a staging directory belongs to a call that fills it, has lost the race, or removes
  it (`Staged`), so what the rename makes visible is complete;
* what a call has seen at its name stays until it returns, unless somebody removed it
  (`Seen`), for no step writes into a published directory;
* a temporary file is of one call, which knows its present name (`Owned`, `Handled`,
  `Apart`). This is what keeps the removal of one call from taking the file that
  another links, whatever a recovery renames in between;
* until a process dies, whatever is to be removed has a call that will (`Attended`),
  and when all calls have ended nothing is (`NothingLeft`).

A step of one call changes directories only between its own staging name, the free
ones and what it publishes (`DirChanges`), so that all that the invariant says of the
others' directories stays (`ForeignDirs`); `TempChanges` and `ForeignTemps` say it of
temporary files. No step of a call changes what readers see at a name (`RegisterKept`). The refinement has one step per publication and one per removal.

## 8. The signing helper

Line numbers are those of `scripts/sync-publishing-signing-support.py`.

### State

| Variable | In the code |
|---|---|
| `source`, `map` | the canonical helper and the repository map |
| `file` | the helper of each repository: bytes and mode, or absent |
| `staged` | the temporary file of each call beside each target |
| `pc`, `call`, `canonical`, `snapshot`, `prior`, `todo`, `replaced`, `conflict`, `result` | the statement and the locals of `synchronize`, `_write_all` and `_restore_state` |
| `alone`, `wrote`, `old`, `used` | history: whether nobody else wrote a target during the call, what it has renamed to, what the targets held when it began, the bounds used |

### Actions

| Actions | Code |
|---|---|
| `Start`, `ReadSource`, `ReadTarget` | the repository map, then the source, then every target |
| `CheckSource`, `CheckMap` | the comparisons before and after the writes, and the report of `--check` |
| `Open`, `Stage`, `Register`, `Replace`, `ReadBack` | `_write_all`: check all, stage all, then per target compare, register, rename, read back |
| `Unstage`, `Restore`, `PutBack`, `LookAgain`, `Unlink`, `Reread` | its handler and `_restore_state` |
| `Exit`, `Fail`, `Crash`, `Edit` | the end of a call, a failing system call or an interrupt at any statement, a death, writes by others |

### Abstractions

* The temporary files of all targets are staged in one step; what a failure in
  between leaves is removed by the code.
* Staging the prior bytes and renaming them back is one step.
* An interrupt inside a `finally` is not modelled, nor are the temporary files
  of calls that died: nobody reads them.
* Command line, descriptor and path checks are left out.

### Run and bounds

`SyncSafety` has two repositories, two calls of two processes, each reading or
writing any subset, two sources and two repository maps, one failure or crash, one
write by somebody else. Two repositories are the fewest of which one was replaced and
the other was not. The first begins with a foreign file and the second with none, so
that a rollback has to put bytes back and to remove a file, in reverse order.

* `SyncInv`: the inductive invariant.
* `Undone`: a call that nobody interfered with and that reports a plain failure has
  changed nothing.
* `Truthful`: a call that nobody interfered with is right when it says "ok" or
  "drift".

Both speak of calls nobody interfered with, for nothing is locked. When somebody does:

* a write between the comparison and the rename is overwritten (544);
* of two writing calls one can report "ok" and have its target undone by the other;
* a crash leaves a mixture of old and new helpers, which the next check reports, and
  temporary files, which nothing removes;
* `--write` verifies each file right after its rename (721) and not all of them at the
  end; line 224 of the design promises identity after the writes;
* `RollbackOwn` (`SyncClaims`, checked by hand with
  `tlc -config ClaimRollbackOwn.cfg SyncClaims`): a target is registered before its
  rename, and if another call has meanwhile written the same bytes, the rollback takes
  them for its own and removes them. A comment (538-540) calls that case a no-op.

### Proofs

`HelperSyncProofs` proves from `SyncAssumption` (at least one repository; "absent" is no
value): `SyncInvariance` (`SyncInv`), `FailuresUndone` (`Undone`) and `ReportsTrue`
(`Truthful`), for any number of repositories and processes.

`SyncInv` follows a call through its loops. `Loops` relates what is left of a loop to
what has been registered for a rollback: at the comparison the registered targets are
those that were replaced, at the rename there is one more, because registration comes
first. `StagedRight` says what each temporary file holds, which is what a rename puts
in place. While nobody interferes, the prior bytes that a call has read are what was
there (`PriorRight`), and every target holds either these or, when it is registered,
what the call writes (`FileRight`). Hence a rollback that goes through the registered
targets and meets no conflict has put everything back, and after the last rename every
target holds what the call was to write.

## 9. The candidate ledger and the stages of a validation

Line numbers are those of `scripts/run-catalog-validation.py`.

### State

| Variable | In the code |
|---|---|
| `content` | the inputs: repository map, checked out catalogs, inputs that are only digested, provenance |
| `token`, `ledger`, `holder`, `manifest` | the ledger with its fencing token, its `flock`, the candidate's manifest |
| `aggregate`, `opening`, `evidence`, `inventory` | per catalog and stage the aggregate and the file a stage opens with (`preflight.json`, the sandbox profile), per job its log or receipt, the promoted inventory |
| `pc`, `kind`, `phase`, `got`, `bound`, `doc`, `id`, `stage`, `prior`, `done`, `outcome` | the statement and the locals of each process |
| `acked`, `verified`, `overlapped`, `used` | history: records returned, manifests that passed, stages that two runners were in at once, the bounds used |

### Actions

| Actions | Code |
|---|---|
| `Prepare`, `Note`, `Run` | the commands, and `append_ledger_record`, which only tests call |
| `Load`, `Validate`, `ReadTree`, `ReadMap`, `ReadAside` | the reads of the inputs, for the genesis, for the manifest, and for its verification |
| `Flock`, `Read`, `Replace`, `Unlock` | the ledger under its lock |
| `Write`, `Compare`, `Open`, `CheckLedger`, `Digest` | the manifest, without a lock |
| `Root`, `ReadPrior`, `ReadOwn`, `Guard`, `CheckLock` | the head of `run_stage` and stage G2 |
| `Opening`, `WriteOpening`, `ReadOpening` | G1, and the sandbox profile of the others |
| `LookForJob`, `Launch`, `Wait`, `WriteReceipt`, `Promote` | `execute_job` and the promotion of the inventory |
| `WriteAggregate` | the last statement of a stage |
| `Die`/`Crash`, `Edit` | the environment |

### Abstractions

* What a digest is taken of is a value; `aside` stands for disposition, cache manifest
  and human ledger, `tree` for all catalogs that are checked out.
* The hash chain of the ledger is the order of its records.
* The read-back of an aggregate, the digests of profile and summary and the content of
  a job's log are left out.
* The verify command changes nothing and is the part `prepare` ends with.
* System calls do not fail. A pending inventory or summary may be missing or torn
  when it is promoted (900-906); the second is looked for only when the first was
  published (991-996), so a failure there leaves the inventory behind a blocked stage.

### Run and bounds

| Run | Question | Bounds |
|---|---|---|
| `StagesSafety` | Do the properties hold? | two processes, five commands, two contents of every input, one edit, one crash, two records, three stages, of which the third has two jobs |
| `ClaimStageResumes` | Can an interrupted stage be resumed, as the plan says? No. | one process |

Five commands are one to prepare and four of stages, so that G3 is run and run again,
or two runners are in it at once.

* `Recorded`: a record that a call returned stays at its sequence, and every manifest
  that ever passed names the genesis.
* `EvidenceBacked`: a job stage that passed has a passing receipt for every job.
* `Chained`: behind a stage that passed stands the stage before it, unless two runners
  were at that one at once.
* `VerdictLasts`: an aggregate is never written twice, with the same exception.

### Findings

`ResumeReuses`: a stage that is run again finds its own sandbox profile and receipts
and blocks itself for good; the plan says that it reuses them.

The exception in `Chained` and `VerdictLasts` is real: without a lock the last of two
runners to end has the word, and a PASS can become BLOCKED or the reverse. Further:
the declared reference is a commit in every case, so G2 ends in PARTIAL_HOLD and its
PASS branch is never taken; the identity of a manifest is taken from a third read of
it; and `docs/releases/2026-08-03-issue-168-candidate-ledger.md:19` speaks of stage
receipts with sequence and fencing token, which the code's do not have.

### Proofs

`StagedValidationProofs` proves from `LedgerAssumption` and
`StageAssumption` (there are three stages or more, the first two without jobs; "nothing"
is no value), for any number of processes, stages and jobs:

| Theorem | Statement |
|---|---|
| `LedgerInvariance` | `Spec => []LedgerInv` |
| `NoRecordLost` | `Spec => []Recorded` |
| `StagesInvariance` | `Spec => []StagesInv` |
| `PassHasReceipts` | `Spec => []EvidenceBacked` |
| `StagesChained` | `Spec => []Chained` |
| `VerdictsLast` | `Spec => VerdictLasts` |

`LedgerInv` has the lock: who is between its acquisition and its release holds it
(`LockOwned`), and between the read and the write of the ledger nobody else writes. Who
is past its record, and every manifest that was read, has the token that the first
record is (`Genesis`), so a second genesis never comes about.

`StagesInv` adds what there is without a lock. A runner that is alone at a stage has
found no aggregate and will find none (`Alone`); what it has read of the stage before
is still there (`PriorStands`), unless two runners were at that one at once; only a
stage that may go on gets past its guard (`Guarded`). A job's receipt is safe in any
case: its log is created exclusively, so a job that runs has one runner (`OneRunner`),
and the jobs a runner is past have their receipts (`Receipts`). That is why
`EvidenceBacked` needs no exception and `Chained` does.

`StagesInv` is no property of a run; TLC was used on it while the proof was made, over
the instance of `StagesSafety`. `ResumeReuses` is refuted by its run.

## 10. The rollout documents

### State

| Variable | In the code |
|---|---|
| `audit`, `ledger`, `central` | `latest-stable-version-audit.json`, `latest-stable-version-deltas.json`, `central-catalog-version-deltas.json` |
| `base` | the central ledger in the commit that `--central-ledger-base-ref` names |
| `snapshot` | per rollout and revision the ledger that is published there with its audit and receipt |
| `journal`, `holder` | the pending transaction, with what each file is to become and what it was, and the lock |
| `pc`, `call`, `doc`, `fetched`, `own` | the statement and the locals of each process: its arguments, the central ledger it has read, the audit and the ledger it has made |
| `missed`, `used` | history: rows written since a call read the central ledger, the bounds used |

### Actions

| Actions | Code |
|---|---|
| `Begin`, `Recover` | the two scripts and the recovery they start with |
| `ReadCentral`, `ReadPrevious`, `Fetch` | `audit-latest-stable.py` |
| `ReadLedger`, `ReadRow`, `Resolve` | `verify-latest-stable-resolved-graphs.py` with `--promote` or `--refresh-evidence` |
| `Snapshot` | `snapshot_rollout_evidence` of either |
| `Commit`, `Apply`, `Close` | the transaction: the journal, the files one by one, its end |
| `Fail`, `Undo` | its rollback: the files are put back one by one, last one first, and one that cannot be is skipped |
| `Reject` | it ends with an exception or a death, before, in or after the rollback; the journal stays |
| `Crash` | a process dies elsewhere |

### Abstractions

* The evidence files, guards and inodes of the transaction are those of section 4; here
  are its contents, and why it fails is a free choice. A snapshot is what `WriteOnce`
  promises (section 7).
* `audit` in a ledger stands for its resolution contract, the catalog the audit was
  validated against included. Inventories and the content of an audit are left out.
* That Gradle or a download fails is a free choice.
* `journal.same` is the set of files that hold the desired bytes already. The
  publication goes no further than the first of them and such a transaction never
  completes (finding 2 of section 4).
* Pinning rows that are outside `config/rollouts` is left out: the repository has
  none left.

### Run and bounds

`DocumentsSafety` has two processes, two rollouts of which the first is there and
the second may have a legacy row, two audits (the one there is and a new one), two
receipts, three calls. Three calls start a rollout, promote it and have a third overlap
either. There is no bound on failures: any call may fail, roll back and die at any
statement. No fairness is assumed; all properties are safety.

* `RowsBacked`: every row of the central ledger names a published snapshot that holds
  the evidence it has digests of, in every state of a transaction.
* `LedgerAgrees`: when no transaction is pending, the delta ledger is the one the
  central ledger knows.
* `Finishable`: the documents give the next call no reason to refuse a pending
  transaction, wherever the last one died and however far it had written or rolled
  back. Every file is as the journal found it or as it is to be, in any mixture that a
  rollback leaves, and the pending writes pass the validation across the files.
* `HistoryKept`: a call changes another rollout's row only if it works from a commit or
  the row was written behind its back.

### What the model shows besides

* A refresh of the delta ledger without `--refresh-central-rollout` writes a journal
  that the validation across the files refuses, in this call and in the recovery of
  every later one. `Finishable` therefore speaks of calls that write both (`whole`), and
  of those in which no file has its bytes already (`same`), which recovery refuses too
  (`RerunCompletes`). It speaks of the documents only: what recovery refuses for the
  transaction's own evidence, such as a crash between a replacement and its record in
  the sidecar, is `Wedged` of section 4.
* Two overlapping calls lose a row, or a promotion: the central ledger is read before
  the lock is taken. `HistoryKept` says that nothing else loses one.
* A verified row can become pending again, by a refresh of its rollout or by an overlap.
* When the base snapshot was published and its commit did not happen, a refreshed
  audit with other bytes is refused for good.

### Proofs

`RolloutDocumentsProofs` proves from `DocumentsAssumption` (the "no value" constants are
no values):

| Theorem | Statement |
|---|---|
| `DocumentsTyped` | `Spec => []TypeOK` |
| `DocumentsInvariance` | `Spec => []DocumentsInv` |
| `EveryRowBacked` | `Spec => []RowsBacked` |
| `LedgersAgree` | `Spec => []LedgerAgrees` |
| `AlwaysFinishable` | `Spec => []Finishable` |
| `RowsKept` | `Spec => HistoryKept` |

`RowsBacked` is about the central ledger in every state of a transaction, and a row
gets there from a call's memory through the journal. `DocumentsInv` therefore says of
every central ledger that exists anywhere (on disk, in a commit, in a call, in the
journal) that its rows name published evidence (`Evidence`), which a later publication
cannot take away, for a snapshot is written once. `Remembered` says that a call's copy
of the central ledger differs from the one on disk only in rows that were written
behind its back; `HistoryKept` follows. `Prepared` says what a call has read or made at
each statement, `Locked` that a journal is worked on by the holder of the lock.

`Finishable` follows from two parts of it. `Placed` is kept by `Apply`, which writes only
what the journal names, and by `Undo`, which puts back only what the journal found. The
validation reads the pending writes in place of the files, and a transaction that is
`whole` writes both ledgers or neither, so no mixture of old and new files changes its
verdict.

`DocumentsInv`, like `StagesInv`, was checked by TLC while the proof was made and is no
property of a run.

## 11. Not modelled

The components marked so in section 1, with the reason in `PROJECT.json`.
Of the transaction: descriptor and path checks (symbolic links, replaced
directories), the JSON form of the evidence, failing system calls, and writers
that tamper with the evidence files.
