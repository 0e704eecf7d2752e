-------------------------- MODULE ValidationReceipt --------------------------
(***************************************************************************)
(* The local validation receipt and the processes that change it:          *)
(* transition_receipt and the validator of                                 *)
(* scripts/verify-issues-242-243-receipt.py, and run_phase of              *)
(* scripts/run-issues-242-243-validation.py.                               *)
(*                                                                         *)
(* A phase is run outside the lock.  run_phase reads the receipt, takes    *)
(* its digest in a second read, reserves the whole remaining budget under  *)
(* the lock, runs the jobs, and writes the outcome back under the lock if  *)
(* the receipt still has the digest of the reservation.  Each locked write *)
(* validates, replaces the file and validates again, restoring the file    *)
(* when it is rejected.  Transitions happen at any time in between.        *)
(*                                                                         *)
(* A digest is modelled by the document it stands for.                     *)
(***************************************************************************)
EXTENDS Integers, Sequences, FiniteSets

CONSTANTS
  Runner,       \* processes that run phases
  Repo,         \* repositories and consumers of the receipt
  Central,      \* the repository of the BOM, "bluetape4k-dependencies"
  Phase,        \* phases required for adoption that run jobs
  Producer,     \* the phase that publishes the candidate BOM
  Covers,       \* repositories the jobs of a phase stand for
  Total,        \* TOTAL_VALIDATION_BUDGET_SECONDS
  Elapsed,      \* times the jobs of a phase may take
  NoReceipt,    \* no document in memory
  MaxRun,       \* bound: phases started
  MaxDrift      \* bound: changes of a worktree under the receipt

ASSUME ReceiptAssumption ==
  /\ Central \in Repo
  /\ Producer \in Phase
  /\ Covers \in [Phase -> SUBSET Repo]
  /\ Total \in Nat \ {0}
  /\ Elapsed \subseteq Nat
  /\ {MaxRun, MaxDrift} \subseteq Nat

States == {"discovered", "prepared", "validated", "adopted", "blocked"}

LegalTransitions ==
  [discovered |-> {"prepared", "blocked"}, prepared |-> {"validated", "blocked"},
   validated |-> {"adopted", "blocked"}, blocked |-> {}, adopted |-> {}]

PhaseRecord == [name : Phase, result : {"pass", "fail", "blocked"},
                elapsed : Nat, reserved : Nat]

Receipt == [state : [Repo -> States], current : States, remaining : 0..Total,
            phases : Seq(PhaseRecord), failed : BOOLEAN]

ASSUME NoReceiptAssumption == NoReceipt \notin Receipt

VARIABLES
  receipt,  \* the document at the receipt's path
  sound,    \* worktrees, helper and cache files match what the receipt records
  published, \* the candidate Maven repository is not empty
  run,      \* [Runner -> memory of its run_phase]
  truth,    \* history: what the last run of each phase really came to
  spent,    \* history: time the jobs of all phases took
  crashed,  \* history: a process died between a write and its read-back
  started,  \* history: phases started
  drifts    \* history: changes of the environment

history == <<truth, spent, crashed, started, drifts>>
vars    == <<receipt, sound, published, run, history>>

-------------------------------------------------------------------------------
\* The validator

\* _derive_global_state
Derived(state) ==
  LET is == {state[q] : q \in Repo}
  IN IF "blocked" \in is THEN "blocked"
     ELSE IF is = {"adopted"} THEN "adopted"
     ELSE IF is \subseteq {"validated", "adopted"} THEN "validated"
     ELSE IF is \cap {"prepared", "validated", "adopted"} # {} THEN "prepared"
     ELSE "discovered"

\* What is left of the budget after the last recorded phase.
Left(d) == IF d.phases = <<>> THEN Total
           ELSE LET last == d.phases[Len(d.phases)] IN last.reserved - last.elapsed

\* Each phase reserved what the phases before it left.
Chained(s) == \A k \in DOMAIN s :
                /\ s[k].elapsed <= s[k].reserved
                /\ s[k].reserved = IF k = 1 THEN Total
                                   ELSE s[k - 1].reserved - s[k - 1].elapsed

\* Mutant: the budget of the document is not compared with its phases.
TerminalUnbound(d) ==
  /\ {d.phases[k].name : k \in DOMAIN d.phases} = Phase
  /\ \A k \in DOMAIN d.phases : d.phases[k].result = "pass"
  /\ ~d.failed
  /\ Chained(d.phases)

\* _validate_terminal_evidence
Terminal(d) ==
  /\ {d.phases[k].name : k \in DOMAIN d.phases} = Phase
  /\ \A j, k \in DOMAIN d.phases : d.phases[j].name = d.phases[k].name => j = k
  /\ \A k \in DOMAIN d.phases : d.phases[k].result = "pass"
  /\ ~d.failed
  /\ Chained(d.phases)
  /\ d.remaining = Left(d)

\* _validate_receipt_document, what it asks of the document itself
WellFormed(d) == /\ d.current = Derived(d.state)
                 /\ d.current \in {"validated", "adopted"} => Terminal(d)

\* Mutant: an adopted receipt is accepted without its evidence commit.
ValidUnproven(d) == sound /\ WellFormed(d)

\* validate_receipt(path), called without an evidence commit: a receipt that is
\* adopted is refused.
Valid(d) == sound /\ WellFormed(d) /\ d.current # "adopted"
-------------------------------------------------------------------------------
\* run_phase

Idle == [pc       |-> "idle",
         phase    |-> Producer,   \* the phase asked for
         want     |-> "blocked",  \* expected_state
         seen     |-> NoReceipt,  \* expected_receipt_sha256
         saved    |-> NoReceipt,  \* original_bytes, while the lock is held
         reserved |-> 0,          \* reserved_budget
         elapsed  |-> 0,          \* phase_elapsed_seconds
         bad      |-> {}]         \* repositories of the jobs that did not pass

Memory == [pc : {"idle", "read", "ready", "reserving", "running", "finished", "updating"},
           phase : Phase, want : States, seen : Receipt \cup {NoReceipt},
           saved : Receipt \cup {NoReceipt}, reserved : 0..Total,
           elapsed : Nat, bad : SUBSET Repo]

\* _receipt_lock: nobody is between a write and its read-back.
LockFree == \A r \in Runner : run[r].pc \notin {"reserving", "updating"}

Recorded(s, p) == \E k \in DOMAIN s : s[k].name = p
Position(s, p) == CHOOSE k \in DOMAIN s : s[k].name = p

\* Mutant: a phase that runs again keeps its old record.
WithoutNone(s, p) == s

\* The recorded phases but p.
Without(s, p) ==
  IF Recorded(s, p)
    THEN [k \in 1..(Len(s) - 1) |-> IF k < Position(s, p) THEN s[k] ELSE s[k + 1]]
    ELSE s

\* A recorded phase may run again only if it is the last one, the producer never.
MayRun(s, p) == Recorded(s, p) => p # Producer /\ s[Len(s)].name = p

Leave(r) == run' = [run EXCEPT ![r] = Idle]

\* load_local_receipt, which validates nothing, and the rerun rule
ReadDocument(r, p) ==
  /\ run[r].pc = "idle"
  /\ started < MaxRun /\ started' = started + 1
  /\ MayRun(receipt.phases, p)
  /\ run' = [run EXCEPT ![r] = [Idle EXCEPT !.pc = "read", !.phase = p,
                                            !.want = receipt.current]]
  /\ UNCHANGED <<receipt, sound, published, truth, spent, crashed, drifts>>

\* _empty_candidate_repository: the producer starts from an empty repository.
Vacant(p) == p = Producer => ~published

\* sha256_file(receipt_path), a second read of the file, and the checks after it
ReadDigest(r) ==
  /\ run[r].pc = "read"
  /\ IF Vacant(run[r].phase)
       THEN run' = [run EXCEPT ![r].pc = "ready", ![r].seen = receipt]
       ELSE Leave(r)
  /\ UNCHANGED <<receipt, sound, published, history>>

\* What a locked write finds: the document whose digest it holds, accepted.
Expected(r) == receipt = run[r].seen /\ receipt.current = run[r].want /\ Valid(receipt)

\* Mutant: a reservation takes no more than one unit.
ReservedPart(d) == [d EXCEPT !.remaining = @ - 1]

\* A reservation takes everything, so that a crash leaves nothing to run with.
Reserved(d) == [d EXCEPT !.remaining = 0]

\* _reserve_validation_budget up to its write
Reserve(r) ==
  /\ run[r].pc = "ready"
  /\ LockFree
  /\ IF Expected(r) /\ receipt.remaining > 0
       THEN /\ receipt' = Reserved(receipt)
            /\ run' = [run EXCEPT ![r].pc = "reserving", ![r].saved = receipt]
       ELSE Leave(r) /\ UNCHANGED receipt
  /\ UNCHANGED <<sound, published, history>>

\* Mutant: a rejected receipt stays.
KeepWritten(r) == receipt

\* The read-back of a locked write puts a rejected receipt back.
ReadBack(r) == IF Valid(receipt) THEN receipt ELSE run[r].saved

\* The read-back of the reservation; a phase with a rejected one does not run.
ReserveReadBack(r) ==
  /\ run[r].pc = "reserving"
  /\ receipt' = ReadBack(r)
  /\ IF Valid(receipt)
       THEN /\ run' = [run EXCEPT ![r].pc = "running", ![r].seen = receipt,
                                  ![r].saved = NoReceipt,
                                  ![r].reserved = run[r].saved.remaining]
            /\ truth' = [truth EXCEPT ![run[r].phase] = "unknown"]
       ELSE Leave(r) /\ UNCHANGED truth
  /\ UNCHANGED <<sound, published, spent, crashed, started, drifts>>

\* build_phase_jobs succeeds and run_bounded_jobs returns after e seconds; the
\* jobs of bad did not pass.
JobsDone(r, e, bad) ==
  /\ run[r].pc = "running" /\ Vacant(run[r].phase)
  /\ bad \subseteq Covers[run[r].phase]
  /\ run' = [run EXCEPT ![r].pc = "finished", ![r].elapsed = e, ![r].bad = bad]
  /\ truth' = [truth EXCEPT ![run[r].phase] =
                 IF bad = {} /\ e <= run[r].reserved THEN "pass" ELSE "fail"]
  /\ spent' = spent + e
  /\ published' = (published \/ run[r].phase = Producer)
  /\ UNCHANGED <<receipt, sound, crashed, started, drifts>>

\* Mutant: the time taken is not taken off.
UnspentAll(m) == m.reserved

\* remaining_seconds after the phase that m ran
Unspent(m) == IF m.elapsed > m.reserved THEN 0 ELSE m.reserved - m.elapsed

\* The document _write_receipt_update writes for the phase that m ran.
Updated(d, m) ==
  LET exceeded == m.elapsed > m.reserved
      before   == IF Recorded(d.phases, m.phase)
                    THEN d.phases[Position(d.phases, m.phase)].elapsed ELSE 0
      result   == IF exceeded THEN "blocked" ELSE IF m.bad = {} THEN "pass" ELSE "fail"
      hit      == m.bad \cup (IF exceeded THEN {Central} ELSE {})
  IN [state     |-> [q \in Repo |-> IF q \in hit THEN "blocked" ELSE d.state[q]],
      current   |-> IF result = "pass" THEN d.current ELSE "blocked",
      remaining |-> Unspent(m),
      phases    |-> Append(Without(d.phases, m.phase),
                           [name |-> m.phase, result |-> result,
                            elapsed |-> before + m.elapsed,
                            reserved |-> before + m.reserved]),
      failed    |-> d.failed \/ result # "pass"]

\* _write_receipt_update up to its write; the outcome is lost when the receipt
\* is no longer the one of the reservation.
Update(r) ==
  /\ run[r].pc = "finished"
  /\ LockFree
  /\ IF Expected(r) /\ receipt.remaining = 0
       THEN /\ receipt' = Updated(receipt, run[r])
            /\ run' = [run EXCEPT ![r].pc = "updating", ![r].saved = receipt]
       ELSE Leave(r) /\ UNCHANGED receipt
  /\ UNCHANGED <<sound, published, history>>

UpdateReadBack(r) ==
  /\ run[r].pc = "updating"
  /\ receipt' = ReadBack(r)
  /\ Leave(r)
  /\ UNCHANGED <<sound, published, history>>

\* An interrupt, a crash, an error while the jobs are built or while their
\* evidence is compared: nothing more is written and the lock is released.  A
\* runner that ends before its reservation is one that takes no further step.
Abandon(r) ==
  /\ run[r].pc \notin {"idle", "read", "ready"}
  /\ Leave(r)
  /\ crashed' = (crashed \/ run[r].pc \in {"reserving", "updating"})
  /\ published' \in {published, published \/ (run[r].pc = "running" /\ run[r].phase = Producer)}
  /\ UNCHANGED <<receipt, sound, truth, spent, started, drifts>>
-------------------------------------------------------------------------------
\* transition_receipt: one repository moves; evidence tells whether an evidence
\* commit was given.  Nothing is written unless the result is accepted.
Transition(q, to, evidence) ==
  /\ LockFree
  /\ Valid(receipt)
  /\ to \in LegalTransitions[receipt.state[q]]
  /\ LET state == [receipt.state EXCEPT ![q] = to]
         new   == [receipt EXCEPT !.state = state, !.current = Derived(state),
                                  !.failed = @ \/ to = "blocked"]
     IN /\ WellFormed(new)
        /\ new.current = "adopted" => evidence
        /\ receipt' = new
  /\ UNCHANGED <<sound, published, run, history>>

\* A worktree moves away from, or back to, what the receipt records.
Drift ==
  /\ drifts < MaxDrift /\ drifts' = drifts + 1
  /\ sound' = ~sound
  /\ UNCHANGED <<receipt, published, run, truth, spent, crashed, started>>

Init ==
  /\ receipt = [state |-> [q \in Repo |-> "discovered"], current |-> "discovered",
                remaining |-> Total, phases |-> <<>>, failed |-> FALSE]
  /\ sound = TRUE /\ published = FALSE
  /\ run = [r \in Runner |-> Idle]
  /\ truth = [p \in Phase |-> "unknown"]
  /\ spent = 0 /\ crashed = FALSE /\ started = 0 /\ drifts = 0

RunPhase(r) ==
  \/ \E p \in Phase : ReadDocument(r, p)
  \/ ReadDigest(r)
  \/ Reserve(r)
  \/ ReserveReadBack(r)
  \/ \E e \in Elapsed, bad \in SUBSET Repo : JobsDone(r, e, bad)
  \/ Update(r)
  \/ UpdateReadBack(r)
  \/ Abandon(r)

Next ==
  \/ \E r \in Runner : RunPhase(r)
  \/ \E q \in Repo, to \in States, evidence \in BOOLEAN : Transition(q, to, evidence)
  \/ Drift

Spec == Init /\ [][Next]_vars
-------------------------------------------------------------------------------
\* Properties

\* The receipt, the memory of every runner and the history stay in their types.
TypeOK ==
  /\ receipt \in Receipt
  /\ sound \in BOOLEAN /\ published \in BOOLEAN
  /\ run \in [Runner -> Memory]
  /\ truth \in [Phase -> {"unknown", "pass", "fail"}]
  /\ spent \in Nat /\ started \in Nat /\ drifts \in Nat
  /\ crashed \in BOOLEAN

Running == {r \in Runner : run[r].pc \in {"running", "finished", "updating"}}

\* A receipt says "validated" or "adopted" only if the last run of every required
\* phase passed within its budget, whatever was interrupted, lost, repeated or
\* done at the same time (_validate_terminal_evidence against run_phase).
FailClosed ==
  receipt.current \in {"validated", "adopted"} => \A p \in Phase : truth[p] = "pass"

\* The reservation of the whole budget makes runs exclusive although the lock is
\* not held while jobs run: two runners never run phases of one receipt at once.
ExclusiveRun == \A r, s \in Running : r = s

\* No time is granted twice: what a runner may use, or what the receipt still
\* offers, together with the time already used, is within the total.
BudgetCap ==
  /\ receipt.remaining > 0 => spent + receipt.remaining <= Total
  /\ \A r \in Runner : run[r].pc = "running" => spent + run[r].reserved <= Total

\* Unless a process died between a write and its read-back, the receipt seen
\* when the lock is free is one the validator accepts.
NeverRejected == LockFree /\ ~crashed => WellFormed(receipt)

\* Nothing changes an adopted receipt: no transition, no late phase update.
AdoptedFrozen == [][receipt.current = "adopted" => UNCHANGED receipt]_vars
=============================================================================
