------------------------ MODULE RolloutLifecycleProofs ------------------------
(***************************************************************************)
(* What an invocation of RolloutTransaction leaves on disk, for any number *)
(* of targets, any contents and any number of faults: the guards, the      *)
(* marker, the sidecar and the artifacts at every statement, and the       *)
(* targets when nothing but the validation fails.                          *)
(*                                                                         *)
(* The first part says of each action what it does to the memory of the    *)
(* invocation and which files it leaves alone.  The second takes the parts *)
(* of LInv one by one: each is kept by every step from LInv, a case per    *)
(* family of actions.                                                      *)
(***************************************************************************)
EXTENDS RolloutTransactionProofs

-------------------------------------------------------------------------------
\* What the actions do to the memory of the invocation

\* What is kept from the journal's admission to the end of the transaction, and the
\* write and the discards that are running.
Context == run'.tx = run.tx /\ run'.pub = run.pub /\ run'.jc = run.jc /\ run'.ic = run.ic
Tasks   == run'.wr = run.wr /\ run'.drop = run.drop /\ run'.purge = run.purge
NoTask  == run.wr = NoFile /\ run.drop = NoFile /\ run.purge = NoFile

\* Going to l with everything else as it was; leaving the invocation or starting it
\* anew; starting the rollback; going round a loop over the targets, up or down.
Moves(l) == run'.pc = l /\ run'.i = run.i /\ Context /\ Tasks
Fresh(l) == /\ run'.pc = l /\ run'.jc = {} /\ run'.ic = {}
            /\ run'.wr = NoFile /\ run'.drop = NoFile /\ run'.purge = NoFile
Undoes == /\ run'.pc = "rollback" /\ run'.i = N /\ Context
          /\ run'.wr = NoFile /\ run'.drop = run.drop /\ run'.purge = run.purge
Loops(head, l) == /\ Context /\ Tasks
                  /\ \/ run.i < N /\ run'.pc = head /\ run'.i = run.i + 1
                     \/ run.i = N /\ run'.pc = l /\ run'.i = 1
Backs == /\ Context /\ Tasks
         /\ run.i > 1 /\ run'.pc = "rollback" /\ run'.i = run.i - 1

\* Moving to a statement.
LEMMA GoEffect ==
  ASSUME run \in Invocation, NEW l, Go(l)
  PROVE  Moves(l)
BY DEF Go, Invocation, Moves, Context, Tasks

\* An invocation that ends keeps nothing.
LEMMA IdleEffect == ASSUME run' = Idle PROVE Fresh("idle")
BY DEF Idle, Fresh

\* An exception inside the publication starts the rollback; elsewhere it ends the
\* invocation.
LEMMA ThrowEffect ==
  ASSUME run \in Invocation, Throw
  PROVE  IF run.pc \in Publishing THEN Undoes ELSE Fresh("idle")
BY IdleEffect DEF Throw, Thrown, Invocation, Undoes, Context

\* A normal return ends it, or goes on to the commit that called the recovery.
LEMMA ReturnEffect ==
  ASSUME Return
  PROVE  Fresh("idle") \/ Fresh("capture")
BY DEF Return, Idle, Fresh

\* A loop over the targets takes the next one, or goes on after the last.
LEMMA AdvanceEffect ==
  ASSUME run \in Invocation, NEW head, NEW l,
         run' = Advance([run EXCEPT !.pc = head], l)
  PROVE  Loops(head, l)
<1>1. run.i \in 1..N /\ N \in Nat
  BY ConstantsAssumption DEF Invocation, Target
<1>2. CASE run.i < N
  BY <1>1, <1>2 DEF Advance, Invocation, Loops, Context, Tasks
<1>3. CASE run.i = N
  BY <1>1, <1>3 DEF Advance, Invocation, Loops, Context, Tasks
<1>. QED BY <1>1, <1>2, <1>3

\* The same loop from its own head.
LEMMA LoopEffect ==
  ASSUME run \in Invocation, NEW l, run' = Advance(run, l)
  PROVE  Loops(run.pc, l)
<1>1. run = [run EXCEPT !.pc = run.pc]
  BY DEF Invocation
<1>. QED BY <1>1, AdvanceEffect

\* The rollback takes the target before, or ends the invocation after the first.
LEMMA BackEffect ==
  ASSUME run \in Invocation, run' = RollbackNext(run)
  PROVE  Backs \/ (run.i = 1 /\ Fresh("idle"))
<1>1. run.i \in 1..N /\ N \in Nat
  BY ConstantsAssumption DEF Invocation, Target
<1>2. CASE run.i > 1
  BY <1>1, <1>2 DEF RollbackNext, Invocation, Backs, Context, Tasks
<1>3. CASE run.i = 1
  BY <1>1, <1>3, IdleEffect DEF RollbackNext
<1>. QED BY <1>1, <1>2, <1>3

\* What an action leaves alone on disk, and the faults that did not happen in it.
Still  == UNCHANGED <<target, debris, journal, identity, marker, husks,
                      begun, touched, tampered, faults>>
Steady == faults'.crash = faults.crash /\ faults'.external = faults.external

\* A write starts with nothing of its own yet; it takes a step.
Starts(val, exp) ==
  /\ run'.pc = run.pc /\ run'.i = run.i /\ Context
  /\ run'.drop = run.drop /\ run'.purge = run.purge
  /\ run'.wr # NoFile /\ run'.wr = Writing(val, exp)
StepsTo(s) ==
  /\ run'.pc = run.pc /\ run'.i = run.i /\ Context /\ run'.purge = run.purge
  /\ run'.wr # NoFile /\ run'.wr.step = s
  /\ run'.wr.val = run.wr.val /\ run'.wr.exp = run.wr.exp
\* What else a write knows.
Knows == run'.wr.lock = run.wr.lock /\ run'.wr.new = run.wr.new /\ run'.wr.moved = run.wr.moved

\* Reading the evidence: the candidates are listed, a lost sidecar may come back.
LEMMA ScanEffect ==
  ASSUME TypeOK, Scan
  PROVE  /\ run.pc = "scan" /\ NoTask
         /\ UNCHANGED <<target, debris, journal, marker, husks, begun, touched, tampered, faults>>
         /\ \/ Fresh("idle") /\ UNCHANGED identity
            \/ /\ run'.pc = "quarantine" /\ Tasks
               /\ run'.jc = JournalCandidates /\ run'.ic = IdentityCandidates
               /\ identity' = identity \/ identity = NoFile
<1>1. run \in Invocation /\ (run.pc = "scan" => run.pc \notin Publishing)
  BY DEF TypeOK, Publishing
<1>2. CASE run' = [run EXCEPT !.pc = "quarantine", !.jc = JournalCandidates,
                              !.ic = IdentityCandidates]
  <2>1. /\ run'.pc = "quarantine" /\ Tasks
        /\ run'.jc = JournalCandidates /\ run'.ic = IdentityCandidates
    BY <1>1, <1>2 DEF Invocation, Tasks
  <2>. QED BY <2>1 DEF Scan, At, NoTask, files, history
<1>3. CASE Throw /\ UNCHANGED identity
  BY <1>1, <1>3, ThrowEffect DEF Scan, At, NoTask, files, history
<1>. QED BY <1>2, <1>3 DEF Scan

\* Held entries come back under their public names, empty directories go.
LEMMA QuarantineEffect ==
  ASSUME TypeOK, Quarantine
  PROVE  /\ run.pc = "quarantine" /\ NoTask
         /\ UNCHANGED <<target, journal, identity, marker, begun, touched, tampered, faults>>
         /\ \/ Fresh("idle") /\ UNCHANGED <<debris, husks>>
            \/ /\ Moves("admit")
               /\ \A x \in Quarantines : x.at # "stranded"
               /\ debris' = [t \in Target |-> [k \in TKind |->
                               LET a == debris[t][k] IN
                               IF a = NoFile \/ a.at = "hollow" THEN NoFile ELSE Surface(a)]]
               /\ husks' = {Surface(h) : h \in {g \in husks : g.at # "hollow"}}
<1>1. run \in Invocation /\ (run.pc = "quarantine" => run.pc \notin Publishing)
  BY DEF TypeOK, Publishing
<1>2. CASE Throw /\ UNCHANGED <<debris, husks>>
  BY <1>1, <1>2, ThrowEffect DEF Quarantine, At, NoTask, history
<1>3. CASE ~(Throw /\ UNCHANGED <<debris, husks>>)
  <2>1. Moves("admit")
    BY <1>1, <1>3, GoEffect DEF Quarantine
  <2>. QED BY <1>3, <2>1 DEF Quarantine, At, NoTask, history
<1>. QED BY <1>2, <1>3

\* Nothing to recover: only stray identity tombstones are kept for discarding.
LEMMA AdmitNoJournalEffect ==
  ASSUME TypeOK, AdmitNoJournal
  PROVE  /\ run.pc = "admit" /\ NoTask /\ journal = NoFile /\ Still
         /\ \/ Fresh("idle")
            \/ /\ run'.pc = "strays" /\ Tasks /\ run'.jc = {}
               /\ run'.ic \subseteq IdentityCandidates
               /\ run.ic = {} => run'.ic = {}
<1>1. run \in Invocation /\ (run.pc = "admit" => run.pc \notin Publishing)
  BY DEF TypeOK, Publishing
<1>2. CASE run' = [run EXCEPT !.pc = "strays",
                              !.ic = IF @ = {} THEN {} ELSE IdentityCandidates]
  <2>1. run'.pc = "strays" /\ Tasks /\ run'.jc = run.jc
        /\ run'.ic = IF run.ic = {} THEN {} ELSE IdentityCandidates
    BY <1>1, <1>2 DEF Invocation, Tasks
  <2>. QED BY <2>1 DEF AdmitNoJournal, At, NoTask, files, evidence, history, Still
<1>3. CASE Throw
  BY <1>1, <1>3, ThrowEffect DEF AdmitNoJournal, At, NoTask, files, evidence, history, Still
<1>. QED BY <1>2, <1>3 DEF AdmitNoJournal

\* The journal comes back from its tombstone only beside a sidecar or a marker.
LEMMA RestoreJournalEffect ==
  ASSUME TypeOK, RestoreJournal
  PROVE  /\ run.pc = "admit" /\ NoTask /\ journal = NoFile /\ run.jc # {}
         /\ UNCHANGED <<target, debris, identity, marker, husks, begun, touched, tampered, faults>>
         /\ \/ Fresh("idle") /\ UNCHANGED journal
            \/ /\ identity # NoFile \/ marker # NoFile
               /\ run'.pc = "admit" /\ Tasks
               /\ run'.jc = JournalCandidates /\ run'.ic = run.ic
<1>1. run \in Invocation /\ (run.pc = "admit" => run.pc \notin Publishing)
  BY DEF TypeOK, Publishing
<1>2. CASE run' = [run EXCEPT !.jc = JournalCandidates] /\ ~(identity = NoFile /\ marker = NoFile)
  <2>1. run'.pc = run.pc /\ Tasks /\ run'.jc = JournalCandidates /\ run'.ic = run.ic
    BY <1>1, <1>2 DEF Invocation, Tasks
  <2>. QED BY <1>2, <2>1 DEF RestoreJournal, At, NoTask, files, history
<1>3. CASE Throw /\ UNCHANGED journal
  BY <1>1, <1>3, ThrowEffect DEF RestoreJournal, At, NoTask, files, history
<1>. QED BY <1>2, <1>3 DEF RestoreJournal

\* What admission has checked, and what it loads into memory.
LEMMA AdmitEffect ==
  ASSUME TypeOK, Admit
  PROVE  /\ run.pc = "admit" /\ NoTask /\ journal # NoFile /\ Still
         /\ \/ Fresh("idle")
            \/ /\ run'.pc = "reconcile1" /\ run'.i = 1 /\ Tasks
               /\ run'.tx = journal
               /\ run'.pub = IF marker # NoFile THEN marker ELSE identity
               /\ run'.jc \subseteq JournalCandidates /\ (run.jc = {} => run'.jc = {})
               /\ run'.ic \subseteq IdentityCandidates /\ (run.ic = {} => run'.ic = {})
               /\ identity # NoFile \/ marker # NoFile
               /\ marker # NoFile =>
                    \A t \in Target : /\ Data(target[t]) = journal.want[t]
                                      /\ marker[t] # NoIno /\ target[t].ino = marker[t]
<1>1. run \in Invocation /\ (run.pc = "admit" => run.pc \notin Publishing)
  BY DEF TypeOK, Publishing
<1>2. CASE Throw
  BY <1>1, <1>2, ThrowEffect DEF Admit, At, NoTask, files, evidence, history, Still
<1>3. CASE ~Throw
  <2>. DEFINE ids == IF run.ic = {} THEN {} ELSE IdentityCandidates
              js  == IF run.jc = {} THEN {} ELSE JournalCandidates
              pub == IF marker # NoFile THEN marker ELSE identity
  <2>1. run' = [run EXCEPT !.pc = "reconcile1", !.i = 1, !.tx = journal,
                           !.pub = pub, !.ic = ids, !.jc = js]
    BY <1>3 DEF Admit
  <2>. HIDE DEF ids, js, pub
  <2>2. /\ run'.pc = "reconcile1" /\ run'.i = 1 /\ Tasks
        /\ run'.tx = journal /\ run'.pub = pub /\ run'.jc = js /\ run'.ic = ids
    BY <1>1, <2>1 DEF Invocation, Tasks
  <2>3. /\ identity # NoFile \/ marker # NoFile
        /\ marker # NoFile =>
             \A t \in Target : /\ Data(target[t]) = journal.want[t]
                               /\ marker[t] # NoIno /\ target[t].ino = marker[t]
    BY <1>3 DEF Admit
  <2>4. run.pc = "admit" /\ NoTask /\ journal # NoFile /\ Still
    BY DEF Admit, At, NoTask, files, evidence, history, Still
  <2>. QED BY <2>2, <2>3, <2>4 DEF ids, js, pub
<1>. QED BY <1>2, <1>3

\* The check of the targets changes nothing.
LEMMA CheckTargetsEffect ==
  ASSUME TypeOK, CheckTargets
  PROVE  run.pc = "check" /\ NoTask /\ Still /\ (Fresh("idle") \/ Moves("validate1"))
<1>1. run \in Invocation /\ (run.pc = "check" => run.pc \notin Publishing)
  BY DEF TypeOK, Publishing
<1>. QED BY <1>1, ThrowEffect, GoEffect
     DEF CheckTargets, At, NoTask, files, evidence, history, Still

-------------------------------------------------------------------------------
\* The first reconciliation, the validations and the publication loop

\* The first reconciliation: an artifact that is taken for another transaction's ends the
\* invocation, at most after one more discard.
LEMMA RenameEffect ==
  ASSUME TypeOK, ReconcileRename, run.pc = "reconcile1"
  PROVE  /\ NoTask /\ Still
         /\ \/ Fresh("idle")
            \/ \E k \in {"tmp", "replace"} :
                 /\ HasPlace(k, {"cleanup"})
                 /\ run'.pc = "thrown" /\ run'.jc = {} /\ run'.ic = {}
                 /\ run'.wr = NoFile /\ run'.drop = <<run.i, k>> /\ run'.purge = NoFile
<1>1. run \in Invocation /\ run.pc \notin Publishing
  BY DEF TypeOK, Publishing
<1>2. CASE Throw
  BY <1>1, <1>2, ThrowEffect
     DEF ReconcileRename, Reconciling, At, NoTask, files, evidence, history, Still
<1>3. CASE ~Throw
  <2>1. PICK k \in {"tmp", "replace"} :
          /\ HasPlace(k, {"cleanup"})
          /\ run' = [Thrown EXCEPT !.drop = <<run.i, k>>,
                                   !.pc = IF @ = "idle" THEN "thrown" ELSE @]
    BY <1>3 DEF ReconcileRename
  <2>2. Thrown = Idle
    BY <1>1 DEF Thrown
  <2>3. /\ run'.pc = "thrown" /\ run'.jc = {} /\ run'.ic = {}
        /\ run'.wr = NoFile /\ run'.drop = <<run.i, k>> /\ run'.purge = NoFile
    BY <2>1, <2>2 DEF Idle
  <2>4. NoTask /\ Still
    BY DEF ReconcileRename, Reconciling, At, NoTask, files, evidence, history, Still
  <2>. QED BY <2>1, <2>3, <2>4
<1>. QED BY <1>2, <1>3

\* An intact guard gives its target back and is discarded.
LEMMA GuardEffect ==
  ASSUME TypeOK, ReconcileGuard, run.pc = "reconcile1"
  PROVE  /\ NoTask
         /\ UNCHANGED <<debris, journal, identity, marker, husks, begun, touched, tampered, faults>>
         /\ \/ Fresh("idle") /\ UNCHANGED target
            \/ /\ Here["replace"] # NoFile /\ Here["replace"].at = "base"
               /\ run.tx.prior[run.i] # NoFile
               /\ Here["replace"].data = run.tx.prior[run.i]
               /\ target' = IF target[run.i] # NoFile THEN target
                            ELSE [target EXCEPT ![run.i] =
                                    [data |-> Here["replace"].data, ino |-> Here["replace"].ino]]
               /\ run'.pc = run.pc /\ run'.i = run.i /\ Context
               /\ run'.wr = NoFile /\ run'.drop = <<run.i, "replace">> /\ run'.purge = NoFile
<1>1. run \in Invocation /\ run.pc \notin Publishing
  BY DEF TypeOK, Publishing
<1>2. NoTask /\ UNCHANGED <<debris, journal, identity, marker, husks, begun, touched, tampered, faults>>
  BY DEF ReconcileGuard, Reconciling, At, NoTask, files, evidence, history
<1>3. CASE Throw /\ UNCHANGED target
  BY <1>1, <1>2, <1>3, ThrowEffect
<1>4. CASE ~(Throw /\ UNCHANGED target)
  <2>1. /\ HasPlace("replace", {"base"}) /\ run.tx.prior[run.i] # NoFile
        /\ Here["replace"].data = run.tx.prior[run.i]
        /\ target' = IF target[run.i] # NoFile THEN target
                            ELSE [target EXCEPT ![run.i] =
                                    [data |-> Here["replace"].data, ino |-> Here["replace"].ino]]
        /\ run' = [run EXCEPT !.drop = <<run.i, "replace">>]
    BY <1>4 DEF ReconcileGuard
  <2>2. /\ run'.pc = run.pc /\ run'.i = run.i /\ Context
        /\ run'.wr = run.wr /\ run'.drop = <<run.i, "replace">> /\ run'.purge = run.purge
    BY <1>1, <2>1 DEF Invocation, Context
  <2>. QED BY <1>2, <2>1, <2>2 DEF NoTask, HasPlace
<1>. QED BY <1>3, <1>4

\* A complete temporary file is discarded.
LEMMA TemporaryEffect ==
  ASSUME TypeOK, ReconcileTemporary, run.pc = "reconcile1"
  PROVE  /\ NoTask /\ Still
         /\ \/ Fresh("idle")
            \/ /\ run'.pc = run.pc /\ run'.i = run.i /\ Context
               /\ run'.wr = NoFile /\ run'.drop = <<run.i, "tmp">> /\ run'.purge = NoFile
<1>1. run \in Invocation /\ run.pc \notin Publishing
  BY DEF TypeOK, Publishing
<1>2. NoTask /\ Still
  BY DEF ReconcileTemporary, Reconciling, At, NoTask, files, evidence, history, Still
<1>3. CASE Throw
  BY <1>1, <1>2, <1>3, ThrowEffect
<1>4. CASE run' = [run EXCEPT !.drop = <<run.i, "tmp">>]
  <2>1. /\ run'.pc = run.pc /\ run'.i = run.i /\ Context
        /\ run'.wr = run.wr /\ run'.drop = <<run.i, "tmp">> /\ run'.purge = run.purge
    BY <1>1, <1>4 DEF Invocation, Context
  <2>. QED BY <1>2, <2>1 DEF NoTask
<1>. QED BY <1>3, <1>4 DEF ReconcileTemporary

\* A target without artifacts is passed.
LEMMA ReconcileNextEffect ==
  ASSUME TypeOK, ReconcileNext
  PROVE  /\ NoTask /\ Still /\ Tidy(run.i)
         /\ \A k \in {"tmp", "replace"} : ~HasPlace(k, {"base"})
         /\ \/ run.pc = "reconcile1" /\ Loops("reconcile1", "check")
            \/ run.pc = "reconcile2" /\ Loops("reconcile2", "validate2")
<1>1. run \in Invocation
  BY DEF TypeOK
<1>. QED BY <1>1, LoopEffect
     DEF ReconcileNext, Reconciling, At, NoTask, files, evidence, history, Still

\* A rejected validation is an exception, and noted under a marker.
LEMMA ValidateEffect ==
  ASSUME TypeOK, NEW l \in {"validate1", "validate2"}, NEW next, Validate(l, next)
  PROVE  /\ run.pc = l /\ NoTask /\ Steady
         /\ UNCHANGED <<target, debris, journal, identity, marker, husks, begun, touched>>
         /\ \/ Moves(next) /\ UNCHANGED tampered
            \/ /\ IF l = "validate1" THEN Fresh("idle") ELSE Undoes
               /\ marker # NoFile => tampered'
               /\ tampered => tampered'
<1>1. run \in Invocation /\ (run.pc \in Publishing <=> l = "validate2") /\ run.pc = l
  BY DEF TypeOK, Validate, At, Publishing
<1>2. NoTask /\ UNCHANGED <<target, debris, journal, identity, marker, husks, begun, touched>>
  BY DEF Validate, At, NoTask, files, evidence
<1>3. Steady
  BY DEF Validate, Steady, TypeOK
<1>4. CASE Go(next) /\ UNCHANGED <<tampered, faults>>
  BY <1>1, <1>2, <1>3, <1>4, GoEffect
<1>5. CASE Throw /\ tampered' = (tampered \/ marker # NoFile)
  <2>1. IF l = "validate1" THEN Fresh("idle") ELSE Undoes
    BY <1>1, <1>5, ThrowEffect
  <2>2. (marker # NoFile => tampered') /\ (tampered => tampered')
    BY <1>5, Zenon
  <2>. QED BY <1>1, <1>2, <1>3, <2>1, <2>2
<1>. QED BY <1>4, <1>5 DEF Validate

\* A target is skipped, refused or written from its prior bytes.
LEMMA PublishEffect ==
  ASSUME IInv, Publish
  PROVE  /\ run.pc = "publish" /\ NoTask /\ Still
         /\ \/ Published(run.i) /\ Loops("publish", "reconcile2")
            \/ ~Published(run.i) /\ (AtWant(run.i) \/ ~AtPrior(run.i)) /\ Undoes
            \/ /\ ~Published(run.i) /\ AtPrior(run.i)
               /\ Starts(run.tx.want[run.i], run.tx.prior[run.i])
<1>1. run \in Invocation /\ (run.pc = "publish" => run.pc \in Publishing)
  BY DEF IInv, TypeOK, Publishing
<1>2. run.pc = "publish" /\ NoTask /\ Still
  BY DEF Publish, At, NoTask, files, evidence, history, Still
<1>3. CASE Published(run.i)
  BY <1>1, <1>2, <1>3, LoopEffect DEF Publish
<1>4. CASE ~Published(run.i) /\ (AtWant(run.i) \/ ~AtPrior(run.i))
  BY <1>1, <1>2, <1>4, ThrowEffect DEF Publish
<1>5. CASE ~Published(run.i) /\ ~(AtWant(run.i) \/ ~AtPrior(run.i))
  <2>. DEFINE w == Writing(run.tx.want[run.i], run.tx.prior[run.i])
  <2>1. run' = [run EXCEPT !.wr = w]
    BY <1>5 DEF Publish
  <2>2. w # NoFile
    <3>1. run.tx \in Record /\ run.i \in Target
      BY <1>1, <1>2 DEF IInv, Loaded, Opened, TypeOK, Invocation
    <3>2. w \in Writer
      BY <3>1 DEF Writing, Writer, Record
    <3>. QED BY <3>2, NoTaskAssumption
  <2>. QED BY <1>1, <1>2, <1>5, <2>1, <2>2 DEF Invocation, Starts, Context
<1>. QED BY <1>3, <1>4, <1>5

\* The old sidecar is moved to its guard, and an earlier guard forgotten.
LEMMA PersistEffect ==
  ASSUME TypeOK, Persist
  PROVE  /\ run.pc = "persist" /\ NoTask
         /\ UNCHANGED <<target, debris, journal, marker, begun, touched, tampered, faults>>
         /\ \/ /\ identity = run.pub /\ Loops("publish", "reconcile2")
               /\ UNCHANGED <<identity, husks>>
            \/ /\ Moves("persistPlace") /\ identity' = NoFile
               /\ husks' = {h \in husks : h.kind # "idGuard" \/ h.at # "base"}
                     \cup (IF identity = NoFile THEN {}
                           ELSE {[kind |-> "idGuard", at |-> "base", val |-> identity]})
<1>1. run \in Invocation
  BY DEF TypeOK
<1>2. /\ run.pc = "persist" /\ NoTask
      /\ UNCHANGED <<target, debris, journal, marker, begun, touched, tampered, faults>>
  BY DEF Persist, At, NoTask, files, evidence, history
<1>3. CASE identity = run.pub
  BY <1>1, <1>2, <1>3, AdvanceEffect DEF Persist, evidence
<1>4. CASE identity # run.pub
  BY <1>1, <1>2, <1>4, GoEffect DEF Persist
<1>. QED BY <1>3, <1>4

\* The new sidecar is in place, and only its guard is left to discard.
LEMMA PersistPlaceEffect ==
  ASSUME TypeOK, PersistPlace
  PROVE  /\ run.pc = "persistPlace" /\ NoTask
         /\ UNCHANGED <<target, debris, journal, marker, husks, begun, touched, tampered, faults>>
         /\ identity' = run.pub /\ Context /\ run'.pc \in {"publish", "reconcile2"}
         /\ run'.wr = NoFile /\ run'.drop = NoFile
         /\ \/ run'.purge = NoFile /\ \A h \in husks : ~BaseGuard(h)
            \/ run'.purge \in husks /\ BaseGuard(run'.purge)
<1>. DEFINE s == Advance([run EXCEPT !.pc = "publish"], "reconcile2")
            guards == {h \in husks : h.kind = "idGuard" /\ h.at = "base"}
<1>1. run \in Invocation
  BY DEF TypeOK
<1>2. /\ run.pc = "persistPlace" /\ NoTask
      /\ UNCHANGED <<target, debris, journal, marker, husks, begun, touched, tampered, faults>>
      /\ identity' = run.pub
  BY DEF PersistPlace, At, NoTask, files, history
<1>3. /\ s \in Invocation /\ s.tx = run.tx /\ s.pub = run.pub /\ s.jc = run.jc /\ s.ic = run.ic
      /\ s.wr = NoFile /\ s.drop = NoFile /\ s.purge = NoFile /\ s.pc \in {"publish", "reconcile2"}
  <2>. DEFINE r == [run EXCEPT !.pc = "publish"]
  <2>1. {"publish", "reconcile2"} \subseteq Statements
    BY DEF Statements, Publishing
  <2>2. /\ r \in Invocation /\ r.pc = "publish" /\ r.tx = run.tx /\ r.pub = run.pub
        /\ r.jc = run.jc /\ r.ic = run.ic /\ r.wr = NoFile /\ r.drop = NoFile
        /\ r.purge = NoFile
    BY <1>1, <1>2, <2>1 DEF Invocation, NoTask
  <2>. HIDE DEF r
  <2>3. s.pub = r.pub
    BY <2>2 DEF Advance, Invocation
  <2>4. s = Advance(r, "reconcile2")
    BY DEF r
  <2>. HIDE DEF s
  <2>. QED BY <2>1, <2>2, <2>3, <2>4, AdvanceFields
<1>4. CASE guards = {} /\ run' = s
  <2>. HIDE DEF s
  <2>. QED BY <1>2, <1>3, <1>4 DEF Context, BaseGuard
<1>5. CASE \E h \in guards : run' = [s EXCEPT !.purge = h]
  <2>1. PICK h \in guards : run' = [s EXCEPT !.purge = h]
    BY <1>5
  <2>. HIDE DEF s
  <2>2. /\ run'.purge = h /\ run'.tx = s.tx /\ run'.pub = s.pub /\ run'.jc = s.jc
        /\ run'.ic = s.ic /\ run'.wr = s.wr /\ run'.drop = s.drop /\ run'.pc = s.pc
    BY <1>3, <2>1 DEF Invocation
  <2>. QED BY <1>2, <1>3, <2>1, <2>2 DEF Context, BaseGuard
<1>. QED BY <1>4, <1>5 DEF PersistPlace

\* The last check of the targets before the marker.
LEMMA ValidateTargetsEffect ==
  ASSUME TypeOK, ValidateTargets
  PROVE  /\ run.pc = "targets" /\ NoTask /\ Still
         /\ (AllPublished /\ Moves("mark")) \/ (~AllPublished /\ Undoes)
<1>1. run \in Invocation /\ (run.pc = "targets" => run.pc \in Publishing)
  BY DEF TypeOK, Publishing
<1>2. run.pc = "targets" /\ NoTask /\ Still
  BY DEF ValidateTargets, At, NoTask, files, evidence, history, Still
<1>3. CASE AllPublished
  BY <1>1, <1>2, <1>3, GoEffect DEF ValidateTargets
<1>4. CASE ~AllPublished
  BY <1>1, <1>2, <1>4, ThrowEffect DEF ValidateTargets
<1>. QED BY <1>3, <1>4

-------------------------------------------------------------------------------
\* The steps of a guarded write

\* What a step of a write starts from.
LEMMA StepEffect ==
  ASSUME TypeOK, NEW s, Step(s)
  PROVE  /\ run \in Invocation /\ run.wr \in Writer /\ run.wr # NoFile /\ run.drop = NoFile
         /\ run.wr.step = s /\ run.i \in Target
BY DEF TypeOK, Invocation, Step

\* A write moves to step s, with what it learned in w.
LEMMA WriteMoves ==
  ASSUME run \in Invocation, run.wr \in Writer, NEW w \in Writer, NEW d,
         run' = [run EXCEPT !.wr = w, !.drop = d],
         w.val = run.wr.val, w.exp = run.wr.exp
  PROVE  StepsTo(w.step) /\ run'.drop = d /\ run'.wr = w
BY NoTaskAssumption DEF Invocation, StepsTo, Context

\* A step that only moves the write on.
LEMMA NextStepEffect ==
  ASSUME run \in Invocation, run.wr \in Writer,
         NEW s \in {"open", "create", "fill", "guard", "place", "verify", "done",
                    "abort", "unguard", "failed"}, NextStep(s)
  PROVE  StepsTo(s) /\ Knows /\ run'.drop = run.drop
<1>. DEFINE w == [run.wr EXCEPT !.step = s]
<1>1. /\ w \in Writer /\ w.step = s /\ w.val = run.wr.val /\ w.exp = run.wr.exp
      /\ w.lock = run.wr.lock /\ w.new = run.wr.new /\ w.moved = run.wr.moved
  BY DEF Writer
<1>2. run' = [run EXCEPT !.wr = w, !.drop = run.drop]
  BY DEF Invocation, Writer, NextStep
<1>. HIDE DEF w
<1>. QED BY <1>1, <1>2, WriteMoves DEF Knows

\* The write compares the bytes and locks the inode it found.
LEMMA OpenEffect ==
  ASSUME TypeOK, WriteOpen
  PROVE  /\ Step("open") /\ Still /\ run'.drop = NoFile
         /\ \/ /\ StepsTo("create") /\ Data(target[run.i]) = run.wr.exp
               /\ run'.wr.lock = IF target[run.i] = NoFile THEN NoIno ELSE target[run.i].ino
               /\ run'.wr.moved = run.wr.moved
            \/ StepsTo("failed") /\ Knows /\ Data(target[run.i]) # run.wr.exp
<1>1. /\ Step("open") /\ Still /\ run \in Invocation /\ run.wr \in Writer /\ run.drop = NoFile
      /\ run.i \in Target
  BY StepEffect DEF WriteOpen, files, evidence, history, Still
<1>2. CASE Data(target[run.i]) # run.wr.exp
  BY <1>1, <1>2, NextStepEffect DEF WriteOpen
<1>3. CASE Data(target[run.i]) = run.wr.exp
  <2>. DEFINE l == IF target[run.i] = NoFile THEN NoIno ELSE target[run.i].ino
              w == [run.wr EXCEPT !.step = "create", !.lock = l]
  <2>1. l \in Ino \cup {NoIno}
    BY <1>1 DEF TypeOK, Entry
  <2>2. run' = [run EXCEPT !.wr.step = "create", !.wr.lock = l]
    BY <1>3 DEF WriteOpen
  <2>. HIDE DEF l
  <2>3. /\ w \in Writer /\ w.step = "create" /\ w.val = run.wr.val /\ w.exp = run.wr.exp
        /\ w.lock = l /\ w.moved = run.wr.moved
    BY <1>1, <2>1 DEF Writer
  <2>4. run' = [run EXCEPT !.wr = w, !.drop = run.drop]
    BY <1>1, <2>2 DEF Invocation, Writer
  <2>. HIDE DEF w
  <2>5. StepsTo("create") /\ run'.drop = run.drop /\ run'.wr = w
    BY <1>1, <2>3, <2>4, WriteMoves
  <2>. QED BY <1>1, <1>3, <2>3, <2>5 DEF l
<1>. QED BY <1>2, <1>3

\* It creates its temporary file.
LEMMA CreateEffect ==
  ASSUME TypeOK, WriteCreate
  PROVE  /\ Step("create") /\ StepsTo("fill") /\ run'.drop = NoFile
         /\ UNCHANGED <<target, journal, identity, marker, husks, begun, touched, tampered, faults>>
         /\ \E a \in Artifact : debris' = [debris EXCEPT ![run.i]["tmp"] = a]
         /\ run'.wr.lock = run.wr.lock /\ run'.wr.moved = run.wr.moved
<1>1. /\ Step("create") /\ run \in Invocation /\ run.wr \in Writer /\ run.drop = NoFile
      /\ UNCHANGED <<target, journal, identity, marker, husks, begun, touched, tampered, faults>>
  BY StepEffect DEF WriteCreate, evidence, history
<1>2. PICK n \in Ino :
        /\ debris' = [debris EXCEPT ![run.i]["tmp"] = [at |-> "base", data |-> Torn, ino |-> n]]
        /\ run' = [run EXCEPT !.wr.step = "fill", !.wr.new = n]
  BY DEF WriteCreate
<1>3. [at |-> "base", data |-> Torn, ino |-> n] \in Artifact
  BY DEF Artifact, Place
<1>. DEFINE w == [run.wr EXCEPT !.step = "fill", !.new = n]
<1>4. /\ w \in Writer /\ w.step = "fill" /\ w.val = run.wr.val /\ w.exp = run.wr.exp
      /\ w.lock = run.wr.lock /\ w.moved = run.wr.moved
  BY <1>1 DEF Writer
<1>5. run' = [run EXCEPT !.wr = w, !.drop = run.drop]
  BY <1>1, <1>2 DEF Invocation, Writer
<1>. HIDE DEF w
<1>6. StepsTo("fill") /\ run'.drop = run.drop /\ run'.wr = w
  BY <1>1, <1>4, <1>5, WriteMoves
<1>. QED BY <1>1, <1>2, <1>3, <1>4, <1>6

\* It completes the temporary file.
LEMMA FillEffect ==
  ASSUME TypeOK, WriteFill
  PROVE  /\ Step("fill") /\ StepsTo("guard") /\ Knows /\ run'.drop = NoFile
         /\ UNCHANGED <<target, journal, identity, marker, husks, begun, touched, tampered, faults>>
         /\ debris' = [debris EXCEPT ![run.i]["tmp"].data = run.wr.val]
BY StepEffect, NextStepEffect DEF WriteFill, evidence, history

\* It moves the locked inode to the guard, has none to move, or gives up.
LEMMA WriteGuardEffect ==
  ASSUME TypeOK, WriteGuard
  PROVE  /\ Step("guard") /\ run'.drop = NoFile
         /\ UNCHANGED <<journal, identity, marker, husks, begun, touched, tampered, faults>>
         /\ \/ /\ StepsTo("place") /\ Knows /\ UNCHANGED <<target, debris>>
               /\ run.wr.lock = NoIno /\ target[run.i] = NoFile
            \/ /\ StepsTo("abort") /\ Knows /\ UNCHANGED <<target, debris>>
               /\ IF run.wr.lock = NoIno THEN target[run.i] # NoFile ELSE ~StillExpected(run.i)
            \/ /\ StepsTo("place") /\ run'.wr.moved = TRUE
               /\ run.wr.lock # NoIno /\ StillExpected(run.i)
               /\ target' = [target EXCEPT ![run.i] = NoFile]
               /\ debris' = [debris EXCEPT ![run.i]["replace"] = Displaced(run.i)]
<1>1. /\ Step("guard") /\ run \in Invocation /\ run.wr \in Writer /\ run.drop = NoFile
      /\ UNCHANGED <<journal, identity, marker, husks, begun, touched, tampered, faults>>
  BY StepEffect DEF WriteGuard, evidence, history
<1>2. CASE run.wr.lock = NoIno
  BY <1>1, <1>2, NextStepEffect DEF WriteGuard, files
<1>3. CASE run.wr.lock # NoIno /\ ~StillExpected(run.i)
  BY <1>1, <1>3, NextStepEffect DEF WriteGuard, files
<1>4. CASE run.wr.lock # NoIno /\ StillExpected(run.i)
  <2>. DEFINE w == [run.wr EXCEPT !.step = "place", !.moved = TRUE]
  <2>1. /\ w \in Writer /\ w.step = "place" /\ w.val = run.wr.val /\ w.exp = run.wr.exp
        /\ w.moved = TRUE
    BY <1>1 DEF Writer
  <2>2. /\ run' = [run EXCEPT !.wr.step = "place", !.wr.moved = TRUE]
        /\ target' = [target EXCEPT ![run.i] = NoFile]
        /\ debris' = [debris EXCEPT ![run.i]["replace"] = Displaced(run.i)]
    BY <1>4 DEF WriteGuard
  <2>3. run' = [run EXCEPT !.wr = w, !.drop = run.drop]
    BY <1>1, <2>2 DEF Invocation, Writer
  <2>. HIDE DEF w
  <2>4. StepsTo("place") /\ run'.drop = run.drop /\ run'.wr = w
    BY <1>1, <2>1, <2>3, WriteMoves
  <2>. QED BY <1>1, <1>4, <2>1, <2>2, <2>4
<1>. QED BY <1>2, <1>3, <1>4

\* It places the temporary file at a vacant name, or gives up.
LEMMA PlaceEffect ==
  ASSUME TypeOK, WritePlace
  PROVE  /\ Step("place") /\ run'.drop = NoFile /\ Knows
         /\ UNCHANGED <<journal, identity, marker, husks, begun, touched, tampered, faults>>
         /\ \/ /\ StepsTo("verify") /\ target[run.i] = NoFile
               /\ target' = [target EXCEPT ![run.i] = [data |-> run.wr.val, ino |-> run.wr.new]]
               /\ debris' = [debris EXCEPT ![run.i]["tmp"] = NoFile]
            \/ StepsTo("abort") /\ UNCHANGED <<target, debris>> /\ target[run.i] # NoFile
BY StepEffect, NextStepEffect DEF WritePlace, evidence, history, files

\* It finds what it placed and discards the guard, or gives up.
LEMMA VerifyEffect ==
  ASSUME TypeOK, WriteVerify
  PROVE  /\ Step("verify") /\ Still /\ Knows
         /\ \/ /\ StepsTo("done") /\ target[run.i] = [data |-> run.wr.val, ino |-> run.wr.new]
               /\ run'.drop = IF run.wr.moved THEN <<run.i, "replace">> ELSE NoFile
            \/ /\ StepsTo("abort") /\ run'.drop = NoFile
               /\ target[run.i] # [data |-> run.wr.val, ino |-> run.wr.new]
<1>1. /\ Step("verify") /\ run \in Invocation /\ run.wr \in Writer /\ run.drop = NoFile /\ Still
  BY StepEffect DEF WriteVerify, files, evidence, history, Still
<1>2. CASE target[run.i] # [data |-> run.wr.val, ino |-> run.wr.new]
  BY <1>1, <1>2, NextStepEffect DEF WriteVerify
<1>3. CASE target[run.i] = [data |-> run.wr.val, ino |-> run.wr.new]
  <2>. DEFINE w == [run.wr EXCEPT !.step = "done"]
              d == IF run.wr.moved THEN <<run.i, "replace">> ELSE NoFile
  <2>1. /\ w \in Writer /\ w.step = "done" /\ w.val = run.wr.val /\ w.exp = run.wr.exp
        /\ w.lock = run.wr.lock /\ w.new = run.wr.new /\ w.moved = run.wr.moved
    BY <1>1 DEF Writer
  <2>2. run' = [run EXCEPT !.wr.step = "done", !.drop = d]
    BY <1>3 DEF WriteVerify
  <2>. HIDE DEF d
  <2>3. run' = [run EXCEPT !.wr = w, !.drop = d]
    BY <1>1, <2>2 DEF Invocation, Writer
  <2>. HIDE DEF w
  <2>4. StepsTo("done") /\ run'.drop = d /\ run'.wr = w
    BY <1>1, <2>1, <2>3, WriteMoves
  <2>. QED BY <1>1, <1>3, <2>1, <2>4 DEF d, Knows
<1>. QED BY <1>2, <1>3

\* Giving up discards the temporary file first.
LEMMA AbortEffect ==
  ASSUME TypeOK, WriteAbort
  PROVE  /\ Step("abort") /\ Still /\ StepsTo("unguard") /\ Knows
         /\ run'.drop = <<run.i, "tmp">>
<1>1. /\ Step("abort") /\ run \in Invocation /\ run.wr \in Writer /\ Still
  BY StepEffect DEF WriteAbort, files, evidence, history, Still
<1>. DEFINE w == [run.wr EXCEPT !.step = "unguard"]
            d == <<run.i, "tmp">>
<1>2. /\ w \in Writer /\ w.step = "unguard" /\ w.val = run.wr.val /\ w.exp = run.wr.exp
      /\ w.lock = run.wr.lock /\ w.new = run.wr.new /\ w.moved = run.wr.moved
  BY <1>1 DEF Writer
<1>3. run' = [run EXCEPT !.wr.step = "unguard", !.drop = d]
  BY DEF WriteAbort
<1>. HIDE DEF d
<1>4. run' = [run EXCEPT !.wr = w, !.drop = d]
  BY <1>1, <1>3 DEF Invocation, Writer
<1>. HIDE DEF w
<1>5. StepsTo("unguard") /\ run'.drop = d /\ run'.wr = w
  BY <1>1, <1>2, <1>4, WriteMoves
<1>. QED BY <1>1, <1>2, <1>5 DEF d, Knows

\* Then a vacant target gets its guard back, and the guard is discarded.
LEMMA UnguardEffect ==
  ASSUME TypeOK, WriteUnguard
  PROVE  /\ Step("unguard") /\ StepsTo("failed") /\ Knows
         /\ UNCHANGED <<debris, journal, identity, marker, husks, begun, touched, tampered, faults>>
         /\ \/ ~run.wr.moved /\ run'.drop = NoFile /\ UNCHANGED target
            \/ /\ run.wr.moved /\ run'.drop = <<run.i, "replace">>
               /\ target' = IF target[run.i] # NoFile THEN target
                            ELSE [target EXCEPT ![run.i] =
                                    [data |-> Here["replace"].data, ino |-> Here["replace"].ino]]
<1>1. /\ Step("unguard") /\ run \in Invocation /\ run.wr \in Writer /\ run.drop = NoFile
      /\ UNCHANGED <<debris, journal, identity, marker, husks, begun, touched, tampered, faults>>
  BY StepEffect DEF WriteUnguard, evidence, history
<1>2. CASE ~run.wr.moved
  BY <1>1, <1>2, NextStepEffect DEF WriteUnguard
<1>3. CASE run.wr.moved
  <2>. DEFINE w == [run.wr EXCEPT !.step = "failed"]
              d == <<run.i, "replace">>
  <2>1. /\ w \in Writer /\ w.step = "failed" /\ w.val = run.wr.val /\ w.exp = run.wr.exp
        /\ w.lock = run.wr.lock /\ w.new = run.wr.new /\ w.moved = run.wr.moved
    BY <1>1 DEF Writer
  <2>2. /\ run' = [run EXCEPT !.wr.step = "failed", !.drop = d]
        /\ target' = IF target[run.i] # NoFile THEN target
                     ELSE [target EXCEPT ![run.i] =
                             [data |-> Here["replace"].data, ino |-> Here["replace"].ino]]
    BY <1>3 DEF WriteUnguard
  <2>. HIDE DEF d
  <2>3. run' = [run EXCEPT !.wr = w, !.drop = d]
    BY <1>1, <2>2 DEF Invocation, Writer
  <2>. HIDE DEF w
  <2>4. StepsTo("failed") /\ run'.drop = d /\ run'.wr = w
    BY <1>1, <2>1, <2>3, WriteMoves
  <2>. QED BY <1>1, <1>3, <2>1, <2>2, <2>4 DEF d, Knows
<1>. QED BY <1>2, <1>3

\* A write that returns goes on to the sidecar, or back to the target before.
LEMMA WriteReturnEffect ==
  ASSUME IInv, WriteReturn
  PROVE  /\ Step("done") /\ Still
         /\ \/ /\ run.pc = "publish" /\ run'.pc = "persist" /\ run'.i = run.i
               /\ run'.pub = [run.pub EXCEPT ![run.i] = run.wr.new]
               /\ run'.tx = run.tx /\ run'.jc = run.jc /\ run'.ic = run.ic
               /\ run'.wr = NoFile /\ run'.drop = NoFile /\ run'.purge = run.purge
            \/ /\ run.pc = "rollback" /\ run'.pc = "rollback" /\ run.i > 1 /\ run'.i = run.i - 1
               /\ Context
               /\ run'.wr = NoFile /\ run'.drop = NoFile /\ run'.purge = run.purge
            \/ run.pc = "rollback" /\ run.i = 1 /\ Fresh("idle")
<1>1. /\ Step("done") /\ Still /\ run \in Invocation /\ run.wr # NoFile /\ run.drop = NoFile
      /\ run.pc \in {"publish", "rollback"} /\ run.i \in 1..N /\ N \in Nat
  BY StepEffect, ConstantsAssumption
     DEF IInv, WriteReturn, WriteHome, Target, files, evidence, history, Still
<1>. DEFINE r == [run EXCEPT !.wr = NoFile]
<1>2. /\ r \in Invocation /\ r.wr = NoFile /\ r.pc = run.pc /\ r.i = run.i /\ r.tx = run.tx
      /\ r.pub = run.pub /\ r.jc = run.jc /\ r.ic = run.ic /\ r.drop = NoFile
      /\ r.purge = run.purge
  BY <1>1 DEF Invocation
<1>3. run' = IF run.pc = "publish"
               THEN [r EXCEPT !.pub[run.i] = run.wr.new, !.pc = "persist"]
               ELSE IF run.i > 1 THEN [r EXCEPT !.i = @ - 1] ELSE Idle
  BY DEF WriteReturn
<1>. HIDE DEF r
<1>4. CASE run.pc = "publish"
  <2>. DEFINE p == [run.pub EXCEPT ![run.i] = run.wr.new]
  <2>1. run' = [r EXCEPT !.pub = p, !.pc = "persist"]
    BY <1>2, <1>3, <1>4 DEF Invocation
  <2>. HIDE DEF p
  <2>2. run'.pub = p /\ run'.pc = "persist" /\ run'.i = r.i /\ run'.tx = r.tx /\ run'.jc = r.jc
        /\ run'.ic = r.ic /\ run'.wr = r.wr /\ run'.drop = r.drop /\ run'.purge = r.purge
    BY <1>2, <2>1 DEF Invocation
  <2>. QED BY <1>1, <1>2, <1>4, <2>2 DEF p
<1>5. CASE run.pc = "rollback" /\ run.i > 1
  <2>1. run' = [r EXCEPT !.i = run.i - 1]
    BY <1>2, <1>3, <1>5
  <2>. QED BY <1>1, <1>2, <1>5, <2>1 DEF Invocation, Context
<1>6. CASE run.pc = "rollback" /\ run.i = 1
  BY <1>1, <1>3, <1>6, IdleEffect
<1>. QED BY <1>1, <1>4, <1>5, <1>6

\* A write that fails starts the rollback, or leaves it to the target before.
LEMMA WriteRaiseEffect ==
  ASSUME IInv, WriteRaise
  PROVE  /\ Step("failed") /\ Still
         /\ \/ run.pc = "publish" /\ Undoes
            \/ /\ run.pc = "rollback" /\ run'.pc = "rollback" /\ run.i > 1 /\ run'.i = run.i - 1
               /\ Context
               /\ run'.wr = NoFile /\ run'.drop = NoFile /\ run'.purge = run.purge
            \/ run.pc = "rollback" /\ run.i = 1 /\ Fresh("idle")
<1>1. /\ Step("failed") /\ Still /\ run \in Invocation /\ run.wr # NoFile /\ run.drop = NoFile
      /\ run.pc \in {"publish", "rollback"} /\ run.i \in 1..N /\ N \in Nat
      /\ run.pc = "publish" => run.pc \in Publishing
  BY StepEffect, ConstantsAssumption
     DEF IInv, WriteRaise, WriteHome, Target, files, evidence, history, Still, Publishing
<1>2. CASE run.pc = "publish"
  BY <1>1, <1>2, ThrowEffect DEF WriteRaise, Throw
<1>3. CASE run.pc = "rollback" /\ run.i > 1
  <2>1. run' = [run EXCEPT !.i = @ - 1, !.wr = NoFile]
    BY <1>3 DEF WriteRaise
  <2>. QED BY <1>1, <1>3, <2>1 DEF Invocation, Context
<1>4. CASE run.pc = "rollback" /\ run.i = 1
  BY <1>1, <1>4, IdleEffect DEF WriteRaise
<1>. QED BY <1>1, <1>2, <1>3, <1>4

-------------------------------------------------------------------------------
\* The rollback

\* A target is undone only if it is published, and not at its prior bytes as well.
LEMMA RollbackEffect ==
  ASSUME IInv, Rollback
  PROVE  /\ run.pc = "rollback" /\ NoTask /\ Still
         /\ \/ /\ AtPrior(run.i) \/ ~Published(run.i)
               /\ Backs \/ (run.i = 1 /\ Fresh("idle"))
            \/ /\ Published(run.i) /\ ~AtPrior(run.i)
               /\ \/ run.tx.prior[run.i] = NoFile /\ Moves("remove")
                  \/ Starts(run.tx.prior[run.i], run.tx.want[run.i])
<1>1. run \in Invocation /\ run.pc = "rollback" /\ NoTask /\ Still
  BY DEF IInv, TypeOK, Rollback, At, NoTask, files, evidence, history, Still
<1>2. CASE AtPrior(run.i) \/ ~Published(run.i)
  BY <1>1, <1>2, BackEffect DEF Rollback
<1>3. CASE /\ Published(run.i) /\ ~AtPrior(run.i) /\ run.tx.prior[run.i] = NoFile
           /\ run' = [run EXCEPT !.pc = "remove"]
  BY <1>1, <1>3, GoEffect DEF Go
<1>4. CASE /\ Published(run.i) /\ ~AtPrior(run.i) /\ run.tx.prior[run.i] # NoFile
           /\ run' = [run EXCEPT !.wr = Writing(run.tx.prior[run.i], run.tx.want[run.i])]
  <2>. DEFINE w == Writing(run.tx.prior[run.i], run.tx.want[run.i])
  <2>1. run.tx \in Record /\ run.i \in Target
    BY <1>1 DEF IInv, Loaded, Opened, TypeOK, Invocation
  <2>2. w \in Writer
    BY <2>1, <1>4 DEF Writing, Writer, Record
  <2>3. run' = [run EXCEPT !.wr = w]
    BY <1>4
  <2>. QED BY <1>1, <1>4, <2>2, <2>3, NoTaskAssumption DEF Invocation, Starts, Context
<1>. QED BY <1>2, <1>3, <1>4 DEF Rollback

\* A new target with the desired bytes is removed.
LEMMA RemoveEffect ==
  ASSUME TypeOK, RollbackRemove
  PROVE  /\ run.pc = "remove" /\ NoTask
         /\ UNCHANGED <<journal, identity, marker, husks, begun, touched, tampered, faults>>
         /\ \/ /\ target[run.i] # NoFile /\ AtWant(run.i)
               /\ target' = [target EXCEPT ![run.i] = NoFile]
               /\ debris' = [debris EXCEPT ![run.i]["rollback"] = Displaced(run.i)]
               /\ run'.pc = "removed" /\ run'.i = run.i /\ Context
               /\ run'.wr = NoFile /\ run'.drop = <<run.i, "rollback">> /\ run'.purge = NoFile
            \/ /\ target[run.i] = NoFile \/ ~AtWant(run.i)
               /\ UNCHANGED <<target, debris>>
               /\ Backs \/ (run.i = 1 /\ Fresh("idle"))
<1>1. /\ run \in Invocation /\ run.pc = "remove" /\ NoTask
      /\ UNCHANGED <<journal, identity, marker, husks, begun, touched, tampered, faults>>
  BY DEF TypeOK, RollbackRemove, At, NoTask, evidence, history
<1>2. CASE target[run.i] # NoFile /\ AtWant(run.i)
  <2>. DEFINE d == <<run.i, "rollback">>
  <2>1. /\ target' = [target EXCEPT ![run.i] = NoFile]
        /\ debris' = [debris EXCEPT ![run.i]["rollback"] = Displaced(run.i)]
        /\ run' = [run EXCEPT !.pc = "removed", !.drop = d]
    BY <1>2 DEF RollbackRemove
  <2>. HIDE DEF d
  <2>2. /\ run'.pc = "removed" /\ run'.i = run.i /\ Context
        /\ run'.wr = run.wr /\ run'.drop = d /\ run'.purge = run.purge
    BY <1>1, <2>1 DEF Invocation, Context
  <2>. QED BY <1>1, <1>2, <2>1, <2>2 DEF d, NoTask
<1>3. CASE target[run.i] = NoFile \/ ~AtWant(run.i)
  BY <1>1, <1>3, BackEffect DEF RollbackRemove, files
<1>. QED BY <1>2, <1>3

\* After which the target before is next.
LEMMA RollbackRemovedEffect ==
  ASSUME TypeOK, RollbackRemoved
  PROVE  /\ run.pc = "removed" /\ NoTask /\ Still
         /\ Backs \/ (run.i = 1 /\ Fresh("idle"))
BY BackEffect
   DEF TypeOK, RollbackRemoved, At, NoTask, files, evidence, history, Still

-------------------------------------------------------------------------------
\* The marker and the removal of the evidence

\* The marker is written, or found as it should be.
LEMMA PutMarkerEffect ==
  ASSUME TypeOK, PutMarker
  PROVE  /\ run.pc = "mark" /\ NoTask
         /\ UNCHANGED <<target, debris, journal, identity, husks, begun, touched, tampered, faults>>
         /\ \/ marker = NoFile /\ marker' = run.pub /\ Moves("sealed")
            \/ marker # NoFile /\ UNCHANGED marker /\ (Moves("sealed") \/ Fresh("idle"))
<1>1. run \in Invocation /\ (run.pc = "mark" => run.pc \notin Publishing)
  BY DEF TypeOK, Publishing
<1>. QED BY <1>1, GoEffect, ThrowEffect DEF PutMarker, At, NoTask, files, history

\* The marker is acted on when every target is published.
LEMMA SealedEffect ==
  ASSUME TypeOK, Sealed
  PROVE  /\ run.pc = "sealed" /\ NoTask /\ Still
         /\ (AllPublished /\ Moves("tombstones")) \/ (~AllPublished /\ Fresh("idle"))
<1>1. run \in Invocation /\ (run.pc = "sealed" => run.pc \notin Publishing)
  BY DEF TypeOK, Publishing
<1>2. run.pc = "sealed" /\ NoTask /\ Still
  BY DEF Sealed, At, NoTask, files, evidence, history, Still
<1>3. CASE AllPublished
  BY <1>1, <1>2, <1>3, GoEffect DEF Sealed
<1>4. CASE ~AllPublished
  BY <1>1, <1>2, <1>4, ThrowEffect DEF Sealed
<1>. QED BY <1>3, <1>4

\* The tombstones are discarded one by one.
LEMMA TombstonesEffect ==
  ASSUME TypeOK, DiscardTombstones
  PROVE  /\ run.pc \in {"tombstones", "strays"} /\ NoTask /\ Still
         /\ \/ /\ run'.pc = run.pc /\ run'.i = run.i /\ run'.tx = run.tx /\ run'.pub = run.pub
               /\ run'.jc \subseteq run.jc /\ run'.ic \subseteq run.ic
               /\ run'.wr = NoFile /\ run'.drop = NoFile /\ run'.purge \in run.jc \cup run.ic
            \/ run.pc = "strays" /\ (Fresh("idle") \/ Fresh("capture"))
            \/ run.pc = "tombstones" /\ Moves("rmIdentity")
<1>1. /\ run \in Invocation /\ run.pc \in {"tombstones", "strays"} /\ NoTask /\ Still
  BY DEF TypeOK, DiscardTombstones, At, NoTask, files, evidence, history, Still
<1>2. CASE run.jc # {}
  <2>1. PICK h \in run.jc : run' = [run EXCEPT !.jc = @ \ {h}, !.purge = h]
    BY <1>2 DEF DiscardTombstones
  <2>2. /\ run'.pc = run.pc /\ run'.i = run.i /\ run'.tx = run.tx /\ run'.pub = run.pub
        /\ run'.jc = run.jc \ {h} /\ run'.ic = run.ic /\ run'.purge = h
        /\ run'.wr = run.wr /\ run'.drop = run.drop
    BY <1>1, <2>1 DEF Invocation
  <2>. QED BY <1>1, <2>2 DEF NoTask
<1>3. CASE run.jc = {} /\ run.ic # {}
  <2>1. PICK h \in run.ic : run' = [run EXCEPT !.ic = @ \ {h}, !.purge = h]
    BY <1>3 DEF DiscardTombstones
  <2>2. /\ run'.pc = run.pc /\ run'.i = run.i /\ run'.tx = run.tx /\ run'.pub = run.pub
        /\ run'.jc = run.jc /\ run'.ic = run.ic \ {h} /\ run'.purge = h
        /\ run'.wr = run.wr /\ run'.drop = run.drop
    BY <1>1, <2>1 DEF Invocation
  <2>. QED BY <1>1, <2>2 DEF NoTask
<1>4. CASE run.jc = {} /\ run.ic = {}
  BY <1>1, <1>4, ReturnEffect, GoEffect DEF DiscardTombstones
<1>. QED BY <1>2, <1>3, <1>4

\* An evidence file becomes a tombstone, which is removed next.
Buries(h, l) == /\ husks' = husks \cup {h}
                /\ run'.pc = l /\ run'.i = run.i /\ Context
                /\ run'.wr = NoFile /\ run'.drop = NoFile /\ run'.purge = h

\* Renaming an evidence file to its tombstone.
LEMMA BuryEffect ==
  ASSUME run \in Invocation, NoTask, NEW h, NEW l, Bury(h, l)
  PROVE  Buries(h, l)
BY DEF Bury, Buries, Invocation, Context, NoTask

\* The sidecar goes first,
LEMMA RemoveIdentityEffect ==
  ASSUME TypeOK, RemoveIdentity
  PROVE  /\ run.pc = "rmIdentity" /\ NoTask
         /\ UNCHANGED <<target, debris, journal, marker, begun, touched, tampered, faults>>
         /\ \/ identity = NoFile /\ Moves("rmJournal") /\ UNCHANGED <<identity, husks>>
            \/ ~AllPublished /\ Moves("restore") /\ UNCHANGED <<identity, husks>>
            \/ identity' = NoFile /\ Buries(Tombstone("idTomb", identity), "afterIdentity")
<1>1. /\ run \in Invocation /\ run.pc = "rmIdentity" /\ NoTask
      /\ UNCHANGED <<target, debris, journal, marker, begun, touched, tampered, faults>>
  BY DEF TypeOK, RemoveIdentity, At, NoTask, files, evidence, history
<1>2. CASE identity = NoFile
  BY <1>1, <1>2, GoEffect DEF RemoveIdentity, evidence
<1>3. CASE identity # NoFile /\ ~AllPublished
  BY <1>1, <1>3, GoEffect DEF RemoveIdentity, evidence
<1>4. CASE identity # NoFile /\ AllPublished
  BY <1>1, <1>4, BuryEffect DEF RemoveIdentity
<1>. QED BY <1>2, <1>3, <1>4

\* then the journal, once no candidate is left,
LEMMA RemoveJournalEffect ==
  ASSUME TypeOK, RemoveJournal
  PROVE  /\ run.pc = "rmJournal" /\ NoTask
         /\ UNCHANGED <<target, debris, identity, marker, begun, touched, tampered, faults>>
         /\ \/ /\ IdentityCandidates \cup JournalCandidates # {}
               /\ Fresh("idle") /\ UNCHANGED <<journal, husks>>
            \/ ~AllPublished /\ Moves("restore") /\ UNCHANGED <<journal, husks>>
            \/ journal' = NoFile /\ Buries(JournalTombstone(journal), "afterJournal")
<1>1. /\ run \in Invocation /\ run.pc = "rmJournal" /\ NoTask
      /\ run.pc = "rmJournal" => run.pc \notin Publishing
      /\ UNCHANGED <<target, debris, identity, marker, begun, touched, tampered, faults>>
  BY DEF TypeOK, RemoveJournal, At, NoTask, files, evidence, history, Publishing
<1>2. CASE IdentityCandidates \cup JournalCandidates # {}
  BY <1>1, <1>2, ThrowEffect DEF RemoveJournal, evidence
<1>3. CASE IdentityCandidates \cup JournalCandidates = {} /\ ~AllPublished
  BY <1>1, <1>3, GoEffect DEF RemoveJournal, evidence
<1>4. CASE IdentityCandidates \cup JournalCandidates = {} /\ AllPublished
  BY <1>1, <1>4, BuryEffect DEF RemoveJournal
<1>. QED BY <1>2, <1>3, <1>4

\* then the marker.
LEMMA RemoveMarkerEffect ==
  ASSUME TypeOK, RemoveMarker
  PROVE  /\ run.pc = "rmMarker" /\ NoTask
         /\ UNCHANGED <<target, debris, journal, identity, begun, touched, tampered, faults>>
         /\ \/ ~AllPublished /\ Moves("restore") /\ UNCHANGED <<marker, husks>>
            \/ marker' = NoFile /\ Buries(Tombstone("markerTomb", marker), "afterMarker")
<1>1. /\ run \in Invocation /\ run.pc = "rmMarker" /\ NoTask
      /\ UNCHANGED <<target, debris, journal, identity, begun, touched, tampered, faults>>
  BY DEF TypeOK, RemoveMarker, At, NoTask, files, evidence, history
<1>2. CASE ~AllPublished
  BY <1>1, <1>2, GoEffect DEF RemoveMarker, evidence
<1>3. CASE AllPublished
  BY <1>1, <1>3, BuryEffect DEF RemoveMarker
<1>. QED BY <1>2, <1>3

\* The targets are validated after each of them.
LEMMA RemovedEffect ==
  ASSUME TypeOK, NEW l, NEW next, Removed(l, next)
  PROVE  /\ run.pc = l /\ NoTask /\ Still
         /\ (AllPublished /\ Moves(next)) \/ (~AllPublished /\ Moves("restore"))
BY GoEffect DEF TypeOK, Removed, At, NoTask, files, evidence, history, Still

\* The transaction is over, or its evidence put back.
LEMMA FinishedEffect ==
  ASSUME TypeOK, Finished
  PROVE  /\ run.pc = "afterMarker" /\ NoTask /\ Still
         /\ \/ Fresh("idle") \/ Fresh("capture")
            \/ ~AllPublished /\ Moves("restore")
BY GoEffect, ReturnEffect DEF TypeOK, Finished, At, NoTask, files, evidence, history, Still

\* Evidence is put back one file at a time.
LEMMA RestoreEffect ==
  ASSUME TypeOK, RestoreEvidence
  PROVE  /\ run.pc = "restore" /\ NoTask
         /\ UNCHANGED <<target, debris, husks, begun, touched, tampered, faults>>
         /\ \/ UNCHANGED run /\ journal = NoFile /\ UNCHANGED <<identity, marker>>
            \/ UNCHANGED run /\ identity = NoFile /\ identity' = run.pub /\ UNCHANGED <<journal, marker>>
            \/ UNCHANGED run /\ marker = NoFile /\ marker' = run.pub /\ UNCHANGED <<journal, identity>>
            \/ Fresh("idle") /\ UNCHANGED <<journal, identity, marker>>
<1>1. run \in Invocation /\ (run.pc = "restore" => run.pc \notin Publishing)
  BY DEF TypeOK, Publishing
<1>. QED BY <1>1, ThrowEffect DEF RestoreEvidence, At, NoTask, files, history

\* The exception is raised once the last artifact is discarded.
LEMMA RethrowEffect ==
  ASSUME Rethrow
  PROVE  run.pc = "thrown" /\ NoTask /\ Still /\ Fresh("idle")
BY IdleEffect DEF Rethrow, At, NoTask, files, evidence, history, Still

-------------------------------------------------------------------------------
\* Discards

\* A move of the discard of one artifact of a target.
LEMMA DiscardDebrisEffect ==
  ASSUME TypeOK, DiscardDebris
  PROVE  /\ UNCHANGED <<target, journal, identity, marker, husks, begun, touched, tampered, faults>>
         /\ run'.pc = run.pc /\ run'.i = run.i /\ Context
         /\ run'.wr = run.wr /\ run'.purge = run.purge
         /\ \E t \in Target, k \in TKind :
              /\ run.drop = <<t, k>>
              /\ \/ debris' = [debris EXCEPT ![t][k] = NoFile] /\ run'.drop = NoFile
                 \/ /\ debris[t][k] # NoFile /\ run'.drop = run.drop
                    /\ \E a \in Artifact : debris' = [debris EXCEPT ![t][k] = a]
<1>1. /\ run \in Invocation /\ run.drop \in Target \X TKind
      /\ UNCHANGED <<target, journal, identity, marker, husks, begun, touched, tampered, faults>>
  BY DEF TypeOK, Invocation, DiscardDebris, evidence, history
<1>2. PICK t \in Target, k \in TKind : run.drop = <<t, k>>
  BY <1>1
<1>. DEFINE a == debris[t][k]
<1>3. CASE a = NoFile \/ a.at = "hollow"
  <2>1. debris' = [debris EXCEPT ![t][k] = NoFile] /\ run' = [run EXCEPT !.drop = NoFile]
    BY <1>2, <1>3 DEF DiscardDebris
  <2>2. /\ run'.pc = run.pc /\ run'.i = run.i /\ Context /\ run'.drop = NoFile
        /\ run'.wr = run.wr /\ run'.purge = run.purge
    BY <1>1, <2>1 DEF Invocation, Context
  <2>. QED BY <1>1, <1>2, <2>1, <2>2
<1>4. CASE a # NoFile /\ a.at # "hollow"
  <2>. DEFINE b == [a EXCEPT !.at = AfterPlace[@]]
  <2>1. a \in Artifact /\ a.at \in {"base", "cleanup", "held", "stranded"}
    BY <1>4 DEF TypeOK, Artifact, Place
  <2>2. AfterPlace[a.at] \in Place
    BY <2>1 DEF AfterPlace, Place
  <2>3. b \in Artifact
    BY <2>1, <2>2 DEF Artifact
  <2>4. debris' = [debris EXCEPT ![t][k].at = AfterPlace[@]] /\ UNCHANGED run
    BY <1>2, <1>4 DEF DiscardDebris
  <2>5. debris' = [debris EXCEPT ![t][k] = b]
    BY <2>4 DEF TypeOK
  <2>6. Context
    BY <2>4 DEF Context
  <2>. HIDE DEF b
  <2>7. \E x \in Artifact : debris' = [debris EXCEPT ![t][k] = x]
    BY <2>3, <2>5
  <2>8. debris[t][k] # NoFile /\ run'.drop = run.drop
    BY <1>4, <2>4
  <2>9. run'.pc = run.pc /\ run'.i = run.i /\ run'.wr = run.wr /\ run'.purge = run.purge
    BY <2>4
  <2>. HIDE DEF a
  <2>. QED BY <1>1, <1>2, <2>6, <2>7, <2>8, <2>9, Zenon
<1>. QED BY <1>3, <1>4

\* A move of the discard of one artifact of the evidence, never back to its first name.
LEMMA DiscardHuskEffect ==
  ASSUME TypeOK, DiscardHusk
  PROVE  /\ UNCHANGED <<target, debris, journal, identity, marker, begun, touched, tampered, faults>>
         /\ run.purge # NoFile
         /\ run'.pc = run.pc /\ run'.i = run.i /\ Context
         /\ run'.wr = run.wr /\ run'.drop = run.drop
         /\ \/ husks' = husks \ {run.purge} /\ run'.purge = NoFile
            \/ /\ husks' = (husks \ {run.purge}) \cup {run'.purge}
               /\ run'.purge.at # "base" /\ run'.purge # NoFile
<1>1. /\ run \in Invocation /\ run.purge \in Husk /\ run.purge # NoFile
      /\ UNCHANGED <<target, debris, journal, identity, marker, begun, touched, tampered, faults>>
  BY DEF TypeOK, Invocation, DiscardHusk, files, history
<1>. DEFINE h == run.purge
            next == [h EXCEPT !.at = AfterPlace[@]]
<1>2. CASE h.at = "hollow"
  <2>1. husks' = husks \ {h} /\ run' = [run EXCEPT !.purge = NoFile]
    BY <1>2 DEF DiscardHusk
  <2>. QED BY <1>1, <2>1 DEF Invocation, Context
<1>3. CASE h.at # "hollow"
  <2>1. h.at \in {"base", "cleanup", "held", "stranded"}
    BY <1>1, <1>3 DEF Husk, Place
  <2>2. AfterPlace[h.at] \in Place \ {"base"}
    BY <2>1 DEF AfterPlace, Place
  <2>3. next \in Husk /\ next.at # "base"
    BY <1>1, <2>2 DEF Husk
  <2>4. husks' = (husks \ {h}) \cup {next} /\ run' = [run EXCEPT !.purge = next]
    BY <1>3 DEF DiscardHusk
  <2>. HIDE DEF next
  <2>. QED BY <1>1, <2>3, <2>4, NoTaskAssumption DEF Invocation, Context
<1>. QED BY <1>2, <1>3

-------------------------------------------------------------------------------
\* The calls, crashes and foreign writes

\* A commit starts with the recovery, or with its own work.
LEMMA CommitEffect ==
  ASSUME TypeOK, NEW want \in [Target -> Wanted], Commit(want)
  PROVE  /\ run.pc = "idle" /\ journal = NoFile /\ Steady
         /\ UNCHANGED <<target, debris, journal, identity, marker, husks, begun, touched, tampered>>
         /\ Fresh("scan") \/ Fresh("capture")
<1>1. PICK l \in {"scan", "capture"} :
        run' = [Idle EXCEPT !.pc = l, !.op = "precommit", !.ask = want]
  BY DEF Commit
<1>2. Fresh(l)
  BY <1>1 DEF Idle, Fresh
<1>3. Steady
  BY DEF Commit, Steady, TypeOK
<1>. QED BY <1>2, <1>3 DEF Commit, files, evidence

\* So does a recovery.
LEMMA RecoverEffect ==
  ASSUME Recover
  PROVE  run.pc = "idle" /\ Still /\ Fresh("scan")
BY DEF Recover, Idle, Fresh, files, evidence, history, Still

\* The targets are captured only where no evidence is left.
LEMMA CaptureEffect ==
  ASSUME TypeOK, Capture
  PROVE  /\ run.pc = "capture" /\ NoTask
         /\ UNCHANGED <<target, debris, journal, identity, marker, husks, faults>>
         /\ \/ Fresh("idle") /\ UNCHANGED <<begun, touched, tampered>>
            \/ /\ Fresh("putIdentity") /\ journal = NoFile /\ identity = NoFile /\ marker = NoFile
               /\ begun' = NoFile /\ touched' = {} /\ tampered' = FALSE
<1>1. /\ run.pc = "capture" /\ NoTask
      /\ UNCHANGED <<target, debris, journal, identity, marker, husks, faults>>
  BY DEF Capture, At, NoTask, files, evidence
<1>2. CASE journal # NoFile \/ PendingEvidence
  BY <1>1, <1>2, IdleEffect DEF Capture
<1>3. CASE ~(journal # NoFile \/ PendingEvidence)
  <2>1. PICK tx : run' = [Idle EXCEPT !.pc = "putIdentity", !.tx = tx]
    BY <1>3 DEF Capture
  <2>2. Fresh("putIdentity")
    BY <2>1 DEF Idle, Fresh
  <2>. QED BY <1>1, <1>3, <2>2 DEF Capture, PendingEvidence
<1>. QED BY <1>2, <1>3

\* The sidecar comes before the journal.
LEMMA PutIdentityEffect ==
  ASSUME TypeOK, PutIdentity
  PROVE  /\ run.pc = "putIdentity" /\ NoTask /\ Moves("putJournal") /\ identity' # NoFile
         /\ UNCHANGED <<target, debris, journal, marker, husks, begun, touched, tampered, faults>>
<1>1. NoPub \in Inodes
  BY DEF NoPub, Inodes
<1>. QED BY <1>1, NoFileAssumption, GoEffect DEF TypeOK, PutIdentity, At, NoTask, files, history

\* With the journal the transaction begins.
LEMMA PutJournalEffect ==
  ASSUME PutJournal
  PROVE  /\ run.pc = "putJournal" /\ NoTask /\ Fresh("scan")
         /\ journal' = run.tx /\ begun' = run.tx
         /\ UNCHANGED <<target, debris, identity, marker, husks, touched, tampered, faults>>
BY DEF PutJournal, At, NoTask, Idle, Fresh, files

\* A crash keeps the files and nothing else.
LEMMA CrashEffect ==
  ASSUME TypeOK, Crash
  PROVE  /\ Fresh("idle") /\ faults'.crash # 0 /\ faults'.external = faults.external
         /\ UNCHANGED <<target, debris, journal, identity, marker, husks, begun, touched, tampered>>
<1>1. faults.crash \in Nat /\ faults'.crash = faults.crash + 1 /\ faults'.external = faults.external
  BY DEF Crash, TypeOK
<1>2. Fresh("idle")
  BY IdleEffect DEF Crash
<1>. QED BY <1>1, <1>2 DEF Crash, files, evidence

\* A foreign writer changes one target, and taints what a marker says of it.
LEMMA ExternalEffect ==
  ASSUME TypeOK, NEW t \in Target, External(t)
  PROVE  /\ faults'.external # 0 /\ touched' = touched \cup {t}
         /\ (marker # NoFile => tampered') /\ (tampered => tampered')
         /\ UNCHANGED <<debris, journal, identity, marker, husks, begun, run>>
         /\ \A u \in Target \ {t} : target'[u] = target[u]
<1>1. faults.external \in Nat /\ faults'.external = faults.external + 1
  BY DEF External, TypeOK
<1>2. \A u \in Target \ {t} : target'[u] = target[u]
  BY DEF External, TypeOK
<1>3. (marker # NoFile => tampered') /\ (tampered => tampered')
  BY Zenon DEF External
<1>. QED BY <1>1, <1>2, <1>3 DEF External, evidence

-------------------------------------------------------------------------------
\* What an artifact is in use for

\* No artifact of any target exists when none is a value of debris.
LEMMA NoArtifacts == ASSUME TypeOK PROVE Artifacts = {} <=> \A t \in Target : Bare(t)
<1>1. ASSUME Artifacts = {}, NEW t \in Target, NEW k \in TKind
      PROVE  debris[t][k] = NoFile
  <2>. DEFINE p == <<t, k>>
  <2>1. p \in Target \X TKind /\ debris[p[1]][p[2]] = debris[t][k]
    OBVIOUS
  <2>. HIDE DEF p
  <2>. QED BY <1>1, <2>1 DEF Artifacts
<1>2. ASSUME \A t \in Target : Bare(t)
      PROVE  Artifacts = {}
  BY <1>2 DEF Artifacts, Bare
<1>. QED BY <1>1, <1>2 DEF Bare

\* After the first loop there is no artifact at a statement at which no write and no
\* discard is running.
LEMMA ClearBare ==
  ASSUME Clear, run.pc \in (Opened \ {"reconcile1"}) \cup Closed,
         run.wr = NoFile \/ run.wr.step \in {"open", "create", "done", "failed"},
         run.drop = NoFile
  PROVE  \A t \in Target : Bare(t)
BY NoTaskAssumption DEF Clear, Bare, InUseBy

\* So the second loop finds nothing to reconcile.
LEMMA SecondLoop ==
  ASSUME LInv, ReconcileSteps
  PROVE  run.pc = "reconcile1" \/ (run.pc = "reconcile2" /\ ReconcileNext)
<1>1. run.pc \in {"reconcile1", "reconcile2"} /\ NoTask /\ run.i \in Target
  BY DEF ReconcileSteps, ReconcileRename, ReconcileGuard, ReconcileTemporary, ReconcileNext,
         Reconciling, At, NoTask, LInv, IInv, TypeOK, Invocation
<1>2. CASE run.pc = "reconcile2"
  <2>1. \A k \in TKind : Here[k] = NoFile
    BY <1>1, <1>2, ClearBare DEF LInv, Cleared, Opened, Publishing, NoTask, Bare, Here
  <2>2. \A k \in {"tmp", "replace", "rollback"} : Here[k] = NoFile
    BY <2>1 DEF TKind
  <2>. QED BY <1>2, <2>2 DEF ReconcileSteps, ReconcileRename, ReconcileGuard,
                             ReconcileTemporary, HasPlace
<1>. QED BY <1>1, <1>2

-------------------------------------------------------------------------------
\* One thing at a time

\* Evidence is only discarded by itself.
LEMMA OneTaskStep == ASSUME LInv, IInv', Next PROVE OneTask'
<1>. USE DEF OneTask, Fresh, Moves, Undoes, Loops, Backs, Starts, StepsTo, Buries, Tasks, NoTask
<1>0. TypeOK /\ IInv /\ OneTask
  BY DEF LInv, IInv
<1>1. CASE CommitSteps \/ \E want \in [Target -> Wanted] : Commit(want)
  BY <1>0, <1>1, CaptureEffect, PutIdentityEffect, PutJournalEffect, CommitEffect DEF CommitSteps
<1>2. CASE ReadSteps \/ Recover
  BY <1>0, <1>2, ScanEffect, QuarantineEffect, AdmitNoJournalEffect, RestoreJournalEffect,
     AdmitEffect, CheckTargetsEffect, RecoverEffect DEF ReadSteps
<1>3. CASE ReconcileSteps
  BY <1>0, <1>3, SecondLoop, RenameEffect, GuardEffect, TemporaryEffect, ReconcileNextEffect
     DEF ReconcileSteps
<1>4. CASE PublishSteps
  BY <1>0, <1>4, ValidateEffect, PublishEffect, PersistEffect, PersistPlaceEffect,
     ValidateTargetsEffect DEF PublishSteps
<1>5. CASE WriteSteps
  BY <1>0, <1>5, OpenEffect, CreateEffect, FillEffect, WriteGuardEffect, PlaceEffect,
     VerifyEffect, AbortEffect, UnguardEffect, WriteReturnEffect, WriteRaiseEffect
     DEF WriteSteps, Step
<1>6. CASE RollbackSteps
  BY <1>0, <1>6, RollbackEffect, RemoveEffect, RollbackRemovedEffect DEF RollbackSteps
<1>7. CASE FinalSteps
  BY <1>0, <1>7, PutMarkerEffect, SealedEffect, TombstonesEffect, RemoveIdentityEffect,
     RemoveJournalEffect, RemoveMarkerEffect, RemovedEffect, FinishedEffect, RestoreEffect,
     RethrowEffect DEF FinalSteps
<1>8. CASE DiscardSteps
  BY <1>0, <1>8, DiscardDebrisEffect, DiscardHuskEffect DEF DiscardSteps
<1>9. CASE Crash \/ \E t \in Target : External(t)
  BY <1>0, <1>9, CrashEffect, ExternalEffect
<1>. QED BY <1>1, <1>2, <1>3, <1>4, <1>5, <1>6, <1>7, <1>8, <1>9 DEF Next, Working

\* Foreign writes are counted.
LEMMA CountedStep == ASSUME LInv, IInv', Next PROVE Counted'
<1>. USE DEF Counted, Still, Steady
<1>0. TypeOK /\ IInv /\ Counted
  BY DEF LInv, IInv
<1>1. CASE \E t \in Target : External(t)
  BY <1>0, <1>1, ExternalEffect
<1>2. CASE ~\E t \in Target : External(t)
  <2>1. faults'.external = faults.external /\ touched' \in {touched, {}}
    BY <1>0, <1>2, CommitEffect, CaptureEffect, CrashEffect, ValidateEffect
       DEF Next, Working, Recover, CommitSteps, PutIdentity, PutJournal,
         ReadSteps, Scan, Quarantine, AdmitNoJournal, RestoreJournal, Admit, CheckTargets,
         ReconcileSteps, ReconcileRename, ReconcileGuard, ReconcileTemporary, ReconcileNext,
         PublishSteps, Publish, Persist, PersistPlace, ValidateTargets,
         WriteSteps, WriteOpen, WriteCreate, WriteFill, WriteGuard, WritePlace, WriteVerify,
         WriteAbort, WriteUnguard, WriteReturn, WriteRaise, RollbackSteps, Rollback,
         RollbackRemove, RollbackRemoved,
         FinalSteps, PutMarker, Sealed, DiscardTombstones, RemoveIdentity, Removed,
         RemoveJournal, RemoveMarker, Finished, RestoreEvidence, Rethrow,
         DiscardSteps, DiscardDebris, DiscardHusk, history
  <2>. QED BY <1>0, <2>1
<1>. QED BY <1>1, <1>2

-------------------------------------------------------------------------------
\* Vacant names

\* A step that leaves the targets and their artifacts alone and discards no guard.
LEMMA VacancyKept ==
  ASSUME Vacancy, UNCHANGED <<target, debris, begun, touched>>,
         run'.drop \in {run.drop, NoFile} \/ \E i : run'.drop = <<i, "tmp">>,
         run'.pc = "remove" => run.pc = "remove" /\ run'.i = run.i /\ run'.tx = run.tx
  PROVE  Vacancy'
<1>1. VacantHasGuard' /\ FreshRemove'
  BY DEF Vacancy, VacantHasGuard, FreshRemove
<1>2. ASSUME NEW t \in Target, run'.drop = <<t, "replace">>
      PROVE  run.drop = <<t, "replace">>
  <2>1. <<t, "replace">> \in Target \X TKind
    BY DEF TKind
  <2>2. ASSUME NEW i PROVE <<i, "tmp">> # <<t, "replace">>
    OBVIOUS
  <2>. QED BY <1>2, <2>1, <2>2, NoTaskAssumption
<1>3. SafeDrop'
  BY <1>2 DEF Vacancy, SafeDrop
<1>. QED BY <1>1, <1>3 DEF Vacancy

\* A name is vacated only behind a guard with the expected bytes, and the guard is let
\* go only once the name is taken again.
LEMMA VacancyStep == ASSUME LInv, IInv', Next PROVE Vacancy'
<1>. USE DEF Fresh, Moves, Undoes, Loops, Backs, Starts, StepsTo, Buries, Tasks, NoTask, Context,
             Still
<1>0. TypeOK /\ IInv /\ Vacancy
  BY DEF LInv, IInv
<1>1. CASE CommitSteps \/ \E want \in [Target -> Wanted] : Commit(want)
  <2>1. CASE Capture
    BY <1>0, <2>1, VacancyKept, CaptureEffect
       DEF Vacancy, VacantHasGuard, SafeDrop, FreshRemove
  <2>2. CASE PutJournal
    <3>1. /\ Fresh("scan") /\ begun' = run.tx /\ UNCHANGED <<target, debris, touched>>
          /\ \A t \in Target \ touched : run.tx.prior[t] = Data(target[t])
      BY <1>0, <2>2, PutJournalEffect DEF IInv, Prepared, Preparing
    <3>. QED BY <3>1, NoTaskAssumption
             DEF Vacancy, VacantHasGuard, SafeDrop, FreshRemove, Data, TKind
  <2>. QED BY <1>0, <1>1, <2>1, <2>2, VacancyKept, PutIdentityEffect, CommitEffect DEF CommitSteps
<1>2. CASE ReadSteps \/ Recover
  <2>1. CASE Quarantine
    <3>1. /\ run'.drop = NoFile /\ run'.pc # "remove" /\ UNCHANGED <<target, begun, touched>>
          /\ \A t \in Target, k \in TKind :
               debris[t][k] # NoFile /\ debris[t][k].at = "base" => debris'[t][k] = debris[t][k]
      BY <1>0, <2>1, QuarantineEffect DEF Surface
    <3>. QED BY <1>0, <3>1, NoTaskAssumption
             DEF Vacancy, VacantHasGuard, SafeDrop, FreshRemove, TKind
  <2>. QED BY <1>0, <1>2, <2>1, VacancyKept, ScanEffect, AdmitNoJournalEffect,
              RestoreJournalEffect, AdmitEffect, CheckTargetsEffect, RecoverEffect DEF ReadSteps
<1>3. CASE ReconcileSteps
  <2>1. CASE ReconcileRename
    <3>1. run.pc = "reconcile1" /\ run.i \in Target /\ run.tx = begun
      BY <1>0, <2>1, SecondLoop
         DEF ReconcileSteps, ReconcileRename, ReconcileNext, LInv, IInv, TypeOK, Invocation,
             Reconciling, At, Loaded, Opened, Tidy
    <3>2. CASE Fresh("idle")
      BY <1>0, <2>1, <3>1, <3>2, VacancyKept, RenameEffect
    <3>3. CASE ~Fresh("idle")
      <4>1. PICK k \in {"tmp", "replace"} :
              /\ HasPlace(k, {"cleanup"}) /\ Still /\ run'.pc = "thrown"
              /\ run'.drop = <<run.i, k>>
        BY <1>0, <2>1, <3>1, <3>3, RenameEffect
      <4>2. CASE k = "tmp"
        BY <1>0, <4>1, <4>2, VacancyKept
      <4>3. CASE k = "replace"
        BY <1>0, <3>1, <4>1, <4>3
           DEF Vacancy, VacantHasGuard, SafeDrop, FreshRemove, HasPlace, Here
      <4>. QED BY <4>1, <4>2, <4>3
    <3>. QED BY <3>2, <3>3
  <2>2. CASE ReconcileGuard
    <3>1. run.pc = "reconcile1" /\ run.i \in Target
      BY <1>0, <2>2, SecondLoop
         DEF ReconcileSteps, ReconcileGuard, ReconcileNext, LInv, IInv, TypeOK, Invocation
    <3>2. CASE Fresh("idle") /\ UNCHANGED target
      BY <1>0, <2>2, <3>1, <3>2, VacancyKept, GuardEffect
    <3>3. CASE ~(Fresh("idle") /\ UNCHANGED target)
      <4>1. /\ target' = IF target[run.i] # NoFile THEN target
                         ELSE [target EXCEPT ![run.i] =
                                 [data |-> Here["replace"].data, ino |-> Here["replace"].ino]]
            /\ run'.pc = "reconcile1" /\ run'.drop = <<run.i, "replace">>
            /\ UNCHANGED <<debris, begun, touched>> /\ Here["replace"] # NoFile
            /\ run.tx.prior[run.i] # NoFile /\ Here["replace"] \in Artifact
            /\ Here["replace"].data = run.tx.prior[run.i]
        BY <1>0, <2>2, <3>1, <3>3, GuardEffect DEF TypeOK, Here, TKind
      <4>2. target'[run.i] # NoFile
        <5>1. CASE target[run.i] # NoFile
          BY <4>1, <5>1
        <5>2. CASE target[run.i] = NoFile
          <6>1. target'[run.i] = [data |-> Here["replace"].data, ino |-> Here["replace"].ino]
            BY <1>0, <3>1, <4>1, <5>2 DEF TypeOK
          <6>2. run.tx \in Record
            BY <1>0, <3>1 DEF IInv, Loaded, Opened, TypeOK, Invocation
          <6>3. [data |-> Here["replace"].data, ino |-> Here["replace"].ino] \in Entry
            BY <3>1, <4>1, <6>2 DEF Record, Artifact, Entry
          <6>. QED BY <6>1, <6>3, NoFileAssumption
        <5>. QED BY <5>1, <5>2
      <4>. QED BY <1>0, <3>1, <4>1, <4>2 DEF TypeOK, Vacancy, VacantHasGuard, SafeDrop, FreshRemove
    <3>. QED BY <3>2, <3>3
  <2>3. CASE ReconcileTemporary \/ ReconcileNext
    BY <1>0, <2>3, SecondLoop, VacancyKept, TemporaryEffect, ReconcileNextEffect DEF ReconcileSteps
  <2>. QED BY <1>3, <2>1, <2>2, <2>3 DEF ReconcileSteps
<1>4. CASE PublishSteps
  BY <1>0, <1>4, VacancyKept, ValidateEffect, PublishEffect, PersistEffect, PersistPlaceEffect,
     ValidateTargetsEffect DEF PublishSteps, Publishing
<1>5. CASE WriteSteps
  <2>0. /\ run.i \in Target /\ run.tx = begun /\ begun # NoFile /\ run.drop = NoFile
        /\ run'.pc # "remove" /\ WriteHome /\ WriteProgress
    BY <1>0, <1>5, StepEffect, OpenEffect, CreateEffect, FillEffect, WriteGuardEffect, PlaceEffect,
       VerifyEffect, AbortEffect, UnguardEffect, WriteReturnEffect, WriteRaiseEffect
       DEF WriteSteps, Step, WriteHome, IInv, Loaded, Opened, Publishing, TypeOK, Invocation
  <2>1. CASE WriteOpen \/ WriteAbort \/ WriteReturn \/ WriteRaise
    BY <1>0, <2>0, <2>1, VacancyKept, OpenEffect, AbortEffect, WriteReturnEffect, WriteRaiseEffect
  <2>2. CASE WriteCreate \/ WriteFill
    <3>1. /\ run'.drop = NoFile /\ UNCHANGED <<target, begun, touched>>
          /\ \A t \in Target : debris'[t]["replace"] = debris[t]["replace"]
      <4>1. CASE WriteCreate
        <5>1. PICK a \in Artifact : debris' = [debris EXCEPT ![run.i]["tmp"] = a]
          BY <1>0, <4>1, CreateEffect
        <5>2. \A t \in Target : debris'[t]["replace"] = debris[t]["replace"]
          BY <1>0, <2>0, <5>1 DEF TypeOK, TKind
        <5>. QED BY <1>0, <4>1, <5>2, CreateEffect
      <4>2. CASE WriteFill
        <5>1. debris' = [debris EXCEPT ![run.i]["tmp"].data = run.wr.val]
          BY <1>0, <4>2, FillEffect
        <5>2. debris' = [debris EXCEPT ![run.i]["tmp"] = [debris[run.i]["tmp"] EXCEPT !.data = run.wr.val]]
          BY <1>0, <2>0, <5>1 DEF TypeOK, TKind
        <5>3. \A t \in Target : debris'[t]["replace"] = debris[t]["replace"]
          BY <1>0, <2>0, <5>2 DEF TypeOK, TKind
        <5>. QED BY <1>0, <4>2, <5>3, FillEffect
      <4>. QED BY <2>2, <4>1, <4>2
    <3>. QED BY <1>0, <2>0, <3>1, NoTaskAssumption
             DEF Vacancy, VacantHasGuard, SafeDrop, FreshRemove, TKind
  <2>3. CASE WriteGuard
    <3>1. CASE UNCHANGED <<target, debris>>
      BY <1>0, <2>0, <2>3, <3>1, VacancyKept, WriteGuardEffect
    <3>2. CASE ~UNCHANGED <<target, debris>>
      <4>1. /\ StillExpected(run.i) /\ target' = [target EXCEPT ![run.i] = NoFile]
            /\ debris' = [debris EXCEPT ![run.i]["replace"] = Displaced(run.i)]
            /\ run'.drop = NoFile /\ UNCHANGED <<begun, touched>>
        BY <1>0, <2>3, <3>2, WriteGuardEffect
      <4>2. Displaced(run.i).at = "base"
            /\ Displaced(run.i).data \in {begun.prior[run.i], begun.want[run.i]}
        BY <2>0, <2>3, <4>1 DEF StillExpected, Displaced, WriteHome, WriteGuard, Step
      <4>3. Displaced(run.i) # NoFile
        BY <1>0, <2>0, <4>1, NoFileAssumption DEF TypeOK, Displaced, StillExpected, Artifact, Place, Entry
      <4>4. /\ debris'[run.i]["replace"] = Displaced(run.i)
            /\ \A t \in Target \ {run.i} : target'[t] = target[t] /\ debris'[t] = debris[t]
        BY <1>0, <2>0, <4>1 DEF TypeOK, TKind
      <4>. QED BY <1>0, <2>0, <4>1, <4>2, <4>3, <4>4, NoTaskAssumption
               DEF Vacancy, VacantHasGuard, SafeDrop, FreshRemove, TKind
    <3>. QED BY <3>1, <3>2
  <2>4. CASE WritePlace
    <3>1. CASE UNCHANGED <<target, debris>>
      BY <1>0, <2>0, <2>4, <3>1, VacancyKept, PlaceEffect
    <3>2. CASE ~UNCHANGED <<target, debris>>
      <4>1. /\ target' = [target EXCEPT ![run.i] = [data |-> run.wr.val, ino |-> run.wr.new]]
            /\ debris' = [debris EXCEPT ![run.i]["tmp"] = NoFile]
            /\ run'.drop = NoFile /\ UNCHANGED <<begun, touched>>
        BY <1>0, <2>4, <3>2, PlaceEffect
      <4>2. target'[run.i] = [data |-> run.wr.val, ino |-> run.wr.new]
        BY <1>0, <2>0, <4>1 DEF TypeOK
      <4>3. target'[run.i] # NoFile
        BY <1>0, <2>0, <2>4, <4>2, StepEffect, NoFileAssumption
           DEF WritePlace, Writer, WriteProgress, Entry, Step
      <4>4. /\ \A t \in Target \ {run.i} : target'[t] = target[t]
            /\ \A t \in Target : debris'[t]["replace"] = debris[t]["replace"]
        BY <1>0, <2>0, <4>1 DEF TypeOK, TKind
      <4>. QED BY <1>0, <2>0, <4>1, <4>3, <4>4, NoTaskAssumption
               DEF Vacancy, VacantHasGuard, SafeDrop, FreshRemove, TKind
    <3>. QED BY <3>1, <3>2
  <2>5. CASE WriteVerify
    <3>1. CASE run'.drop = NoFile
      BY <1>0, <2>0, <2>5, <3>1, VacancyKept, VerifyEffect
    <3>2. CASE run'.drop # NoFile
      <4>1. /\ target[run.i] = [data |-> run.wr.val, ino |-> run.wr.new]
            /\ run'.drop = <<run.i, "replace">> /\ Still
        BY <1>0, <2>5, <3>2, VerifyEffect
      <4>2. target[run.i] # NoFile
        BY <1>0, <2>0, <2>5, <4>1, StepEffect, NoFileAssumption
           DEF WriteVerify, Writer, WriteProgress, Entry, Step
      <4>. QED BY <1>0, <2>0, <4>1, <4>2 DEF Vacancy, VacantHasGuard, SafeDrop, FreshRemove
    <3>. QED BY <3>1, <3>2
  <2>6. CASE WriteUnguard
    <3>1. CASE ~run.wr.moved
      BY <1>0, <2>0, <2>6, <3>1, VacancyKept, UnguardEffect
    <3>2. CASE run.wr.moved
      <4>1. /\ target' = IF target[run.i] # NoFile THEN target
                         ELSE [target EXCEPT ![run.i] =
                                 [data |-> Here["replace"].data, ino |-> Here["replace"].ino]]
            /\ run'.drop = <<run.i, "replace">> /\ UNCHANGED <<debris, begun, touched>>
        BY <1>0, <2>6, <3>2, UnguardEffect
      <4>2. Here["replace"] # NoFile /\ Here["replace"].data # NoFile
            /\ Here["replace"].data \in {begun.prior[run.i], begun.want[run.i]}
        BY <2>0, <2>6, <3>2 DEF WriteUnguard, Step, WriteProgress, WriteHome, Here
      <4>3. target'[run.i] # NoFile
        <5>1. CASE target[run.i] # NoFile
          BY <4>1, <5>1
        <5>2. CASE target[run.i] = NoFile
          <6>1. target'[run.i] = [data |-> Here["replace"].data, ino |-> Here["replace"].ino]
            BY <1>0, <2>0, <4>1, <5>2 DEF TypeOK
          <6>. QED BY <1>0, <2>0, <4>2, <6>1, NoFileAssumption
                   DEF IInv, TypeOK, Here, Artifact, Entry, TKind, Record
        <5>. QED BY <5>1, <5>2
      <4>. QED BY <1>0, <2>0, <4>1, <4>3 DEF TypeOK, Vacancy, VacantHasGuard, SafeDrop, FreshRemove
    <3>. QED BY <3>1, <3>2
  <2>. QED BY <1>5, <2>1, <2>2, <2>3, <2>4, <2>5, <2>6 DEF WriteSteps
<1>6. CASE RollbackSteps
  <2>0. run.i \in Target /\ run.tx = begun
    BY <1>0, <1>6, RollbackEffect, RemoveEffect, RollbackRemovedEffect
       DEF RollbackSteps, IInv, Loaded, Opened, TypeOK, Invocation
  <2>1. CASE Rollback
    <3>1. CASE run'.pc = "remove"
      BY <1>0, <2>1, <3>1, RollbackEffect DEF Vacancy, VacantHasGuard, SafeDrop, FreshRemove
    <3>2. CASE run'.pc # "remove"
      BY <1>0, <2>1, <3>2, VacancyKept, RollbackEffect
    <3>. QED BY <3>1, <3>2
  <2>2. CASE RollbackRemove
    <3>1. CASE UNCHANGED <<target, debris>> /\ (Backs \/ Fresh("idle"))
      BY <1>0, <2>2, <3>1, VacancyKept, RemoveEffect
    <3>2. CASE ~(UNCHANGED <<target, debris>> /\ (Backs \/ Fresh("idle")))
      <4>1. /\ run.pc = "remove" /\ target' = [target EXCEPT ![run.i] = NoFile]
            /\ debris' = [debris EXCEPT ![run.i]["rollback"] = Displaced(run.i)]
            /\ run'.pc = "removed" /\ run'.drop = <<run.i, "rollback">>
            /\ UNCHANGED <<begun, touched>>
        BY <1>0, <2>2, <3>2, RemoveEffect
      <4>2. /\ \A t \in Target \ {run.i} : target'[t] = target[t]
            /\ \A t \in Target : debris'[t]["replace"] = debris[t]["replace"]
            /\ begun.prior[run.i] = NoFile
        BY <1>0, <2>0, <4>1 DEF TypeOK, TKind, Vacancy, FreshRemove
      <4>. QED BY <1>0, <2>0, <4>1, <4>2 DEF Vacancy, VacantHasGuard, SafeDrop, FreshRemove
    <3>. QED BY <3>1, <3>2
  <2>3. CASE RollbackRemoved
    BY <1>0, <2>3, VacancyKept, RollbackRemovedEffect
  <2>. QED BY <1>6, <2>1, <2>2, <2>3 DEF RollbackSteps
<1>7. CASE FinalSteps
  BY <1>0, <1>7, VacancyKept, PutMarkerEffect, SealedEffect, TombstonesEffect, RemoveIdentityEffect,
     RemoveJournalEffect, RemoveMarkerEffect, RemovedEffect, FinishedEffect, RestoreEffect,
     RethrowEffect DEF FinalSteps
<1>8. CASE DiscardSteps
  <2>1. CASE DiscardDebris
    <3>1. PICK t \in Target, k \in TKind :
            /\ run.drop = <<t, k>> /\ run'.drop \in {NoFile, run.drop}
            /\ \A u \in Target, l \in TKind :
                 (u # t \/ l # k) => debris'[u][l] = debris[u][l]
      BY <1>0, <2>1, DiscardDebrisEffect DEF TypeOK
    <3>2. /\ UNCHANGED <<target, begun, touched>>
          /\ run'.pc = run.pc /\ run'.i = run.i /\ run'.tx = run.tx
      BY <1>0, <2>1, DiscardDebrisEffect
    <3>3. VacantHasGuard'
      BY <1>0, <3>1, <3>2 DEF Vacancy, VacantHasGuard, SafeDrop, TKind
    <3>4. SafeDrop'
      <4>1. \A u \in Target : <<u, "replace">> # NoFile
        BY NoTaskAssumption DEF TKind
      <4>. QED BY <1>0, <3>1, <3>2, <4>1 DEF Vacancy, SafeDrop
    <3>. QED BY <1>0, <3>2, <3>3, <3>4 DEF Vacancy, FreshRemove
  <2>2. CASE DiscardHusk
    BY <1>0, <2>2, VacancyKept, DiscardHuskEffect
  <2>. QED BY <1>8, <2>1, <2>2 DEF DiscardSteps
<1>9. CASE Crash \/ \E t \in Target : External(t)
  <2>1. CASE Crash
    BY <1>0, <2>1, VacancyKept, CrashEffect
  <2>2. ASSUME NEW u \in Target, External(u)
        PROVE  Vacancy'
    <3>1. /\ touched' = touched \cup {u} /\ UNCHANGED <<debris, begun, run>>
          /\ \A t \in Target \ {u} : target'[t] = target[t]
      BY <1>0, <2>2, ExternalEffect
    <3>. QED BY <1>0, <3>1 DEF Vacancy, VacantHasGuard, SafeDrop, FreshRemove
  <2>. QED BY <1>9, <2>1, <2>2
<1>. QED BY <1>1, <1>2, <1>3, <1>4, <1>5, <1>6, <1>7, <1>8, <1>9 DEF Next, Working

-------------------------------------------------------------------------------
\* Artifacts

\* Without any artifact there is nothing to show; elsewhere than at the statements the
\* artifacts are counted at, only that the journal is still at its name.
LEMMA ClearedBare ==
  ASSUME TypeOK', \A t \in Target : Bare(t)'
  PROVE  Cleared'
<1>1. Artifacts' = {}
  BY DEF Artifacts, Bare
<1>. QED BY <1>1 DEF Cleared, NoOrphanArtifact, Exposed, Swept, Clear, Bare

\* A step to a statement at which artifacts are not counted.
LEMMA ClearedOutside ==
  ASSUME Cleared, UNCHANGED debris, journal' = NoFile => journal = NoFile,
         run'.pc \notin {"admit"} \cup Opened \cup Closed
  PROVE  Cleared'
BY DEF Cleared, NoOrphanArtifact, Exposed, Swept, Clear, Artifacts, Opened

\* A step that changes neither the artifacts nor the statement.
LEMMA ClearedKept ==
  ASSUME Cleared, UNCHANGED debris, journal' = NoFile => journal = NoFile,
         run'.pc = run.pc, run'.i = run.i, run'.drop = run.drop, run'.wr = run.wr
  PROVE  Cleared'
BY DEF Cleared, NoOrphanArtifact, Exposed, Swept, Clear, Artifacts, Bare

\* During a write the journal is there, so only the write's own artifacts matter.
LEMMA ClearedWrite ==
  ASSUME LInv, IInv', run.wr # NoFile, journal' = journal, run'.pc = run.pc, Clear'
  PROVE  Cleared'
<1>1. journal # NoFile /\ run.pc \notin {"admit", "reconcile1"}
  BY DEF LInv, IInv, WriteHome, Loaded, Opened, Publishing
<1>. QED BY <1>1 DEF Cleared, NoOrphanArtifact, Exposed, Swept

\* Quarantined artifacts come back under names the first loop knows.
LEMMA ClearedRead ==
  ASSUME LInv, IInv', ReadSteps \/ Recover
  PROVE  Cleared'
<1>. USE DEF Fresh, Moves, Tasks, NoTask, Context, Still
<1>0. TypeOK /\ TypeOK' /\ Cleared
  BY DEF LInv, IInv
<1>1. CASE Scan \/ AdmitNoJournal \/ Recover
  BY <1>0, <1>1, ClearedOutside, ScanEffect, AdmitNoJournalEffect, RecoverEffect
     DEF Opened, Closed, Publishing
<1>2. CASE Quarantine
  <2>1. CASE Fresh("idle") /\ UNCHANGED <<debris, husks>>
    BY <1>0, <1>2, <2>1, ClearedOutside, QuarantineEffect DEF Opened, Closed, Publishing
  <2>2. CASE ~(Fresh("idle") /\ UNCHANGED <<debris, husks>>)
    <3>1. /\ run'.pc = "admit" /\ UNCHANGED journal
          /\ \A x \in Quarantines : x.at # "stranded"
          /\ debris' = [t \in Target |-> [k \in TKind |->
                          LET a == debris[t][k] IN
                          IF a = NoFile \/ a.at = "hollow" THEN NoFile ELSE Surface(a)]]
      BY <1>0, <1>2, <2>2, QuarantineEffect
    <3>2. ASSUME NEW t \in Target, NEW k \in TKind, debris'[t][k] # NoFile
          PROVE  debris[t][k] # NoFile /\ debris'[t][k].at \in {"base", "cleanup"}
      <4>. DEFINE a == debris[t][k]
                  p == <<t, k>>
      <4>1. a # NoFile /\ a \in Artifact /\ debris'[t][k] = Surface(a) /\ a.at # "hollow"
        BY <1>0, <3>1, <3>2 DEF TypeOK
      <4>2. a \in Artifacts
        <5>1. p \in Target \X TKind /\ debris[p[1]][p[2]] = a
          OBVIOUS
        <5>. HIDE DEF p, a
        <5>. QED BY <4>1, <5>1 DEF Artifacts
      <4>3. a.at # "stranded"
        BY <3>1, <4>2 DEF Quarantines, Quarantined
      <4>4. a.at \in {"base", "cleanup", "held"} /\ Surface(a).at \in {"base", "cleanup"}
        BY <4>1, <4>3 DEF Artifact, Place, Surface
      <4>. QED BY <4>1, <4>4
    <3>3. NoOrphanArtifact'
      <4>1. ASSUME journal' = NoFile PROVE \A t \in Target : Bare(t)'
        BY <1>0, <3>1, <3>2, <4>1, NoArtifacts DEF Cleared, NoOrphanArtifact, Bare
      <4>2. (\A t \in Target : Bare(t)') => Artifacts' = {}
        BY DEF Artifacts, Bare
      <4>. QED BY <4>1, <4>2 DEF NoOrphanArtifact
    <3>. QED BY <3>1, <3>2, <3>3 DEF Cleared, Exposed, Swept, Clear, Opened, Closed, Publishing
  <2>. QED BY <2>1, <2>2
<1>3. CASE RestoreJournal
  <2>1. CASE Fresh("idle") /\ UNCHANGED journal
    BY <1>0, <1>3, <2>1, ClearedOutside, RestoreJournalEffect DEF Opened, Closed, Publishing
  <2>2. CASE ~(Fresh("idle") /\ UNCHANGED journal)
    <3>1. /\ run.pc = "admit" /\ run'.pc = "admit" /\ UNCHANGED debris /\ journal = NoFile
          /\ run'.drop = run.drop
      BY <1>0, <1>3, <2>2, RestoreJournalEffect
    <3>. QED BY <1>0, <3>1 DEF Cleared, NoOrphanArtifact, Exposed, Swept, Clear, Artifacts,
                               Opened, Closed, Publishing
  <2>. QED BY <2>1, <2>2
<1>4. CASE Admit
  <2>1. CASE Fresh("idle")
    BY <1>0, <1>4, <2>1, ClearedOutside, AdmitEffect DEF Opened, Closed, Publishing
  <2>2. CASE ~Fresh("idle")
    <3>1. /\ run.pc = "admit" /\ run'.pc = "reconcile1" /\ run'.i = 1 /\ run'.drop = run.drop
          /\ UNCHANGED <<debris, journal>>
      BY <1>0, <1>4, <2>2, AdmitEffect
    <3>2. \A t \in Target : ~(t < 1)
      BY ConstantsAssumption DEF Target
    <3>. QED BY <1>0, <3>1, <3>2 DEF Cleared, NoOrphanArtifact, Exposed, Swept, Clear, Artifacts,
                                     Opened, Closed, Publishing
  <2>. QED BY <2>1, <2>2
<1>5. CASE CheckTargets
  <2>1. UNCHANGED debris /\ \A t \in Target : Bare(t)
    BY <1>0, <1>5, CheckTargetsEffect, ClearBare DEF Cleared, Opened, Publishing
  <2>. QED BY <1>0, <2>1, ClearedBare DEF Bare
<1>. QED BY <1>1, <1>2, <1>3, <1>4, <1>5 DEF ReadSteps

\* The first loop leaves each target it passes without artifacts.
LEMMA ClearedReconcile ==
  ASSUME LInv, IInv', ReconcileSteps
  PROVE  Cleared'
<1>. USE DEF Fresh, Moves, Tasks, NoTask, Context, Still
<1>0. TypeOK /\ TypeOK' /\ Cleared /\ run.i \in Target /\ run.i \in 1..N /\ N \in Nat
  BY ConstantsAssumption DEF LInv, IInv, TypeOK, Invocation, Target
<1>1. CASE run.pc = "reconcile2"
  <2>1. ReconcileNext /\ UNCHANGED debris /\ \A t \in Target : Bare(t)
    BY <1>0, <1>1, SecondLoop, ReconcileNextEffect, ClearBare DEF Cleared, Opened, Publishing
  <2>. QED BY <1>0, <2>1, ClearedBare DEF Bare
<1>2. CASE run.pc = "reconcile1" /\ run'.pc \in {"idle", "thrown"} /\ UNCHANGED <<debris, journal>>
  BY <1>0, <1>2, ClearedOutside DEF Opened, Closed, Publishing
<1>3. CASE /\ run.pc = "reconcile1" /\ run'.pc = "reconcile1" /\ run'.i = run.i
           /\ run.drop = NoFile /\ UNCHANGED <<debris, journal>>
  <2>1. ASSUME NEW t \in Target, NEW k \in TKind PROVE run.drop # <<t, k>>
    BY <1>3, NoTaskAssumption
  <2>. QED BY <1>0, <1>3, <2>1 DEF Cleared, NoOrphanArtifact, Exposed, Swept, Clear, Artifacts, Bare,
                                   Opened, Closed, Publishing
<1>4. CASE run.pc = "reconcile1" /\ ReconcileNext
  <2>1. /\ run.drop = NoFile /\ UNCHANGED <<debris, journal>> /\ Tidy(run.i)
        /\ \A k \in {"tmp", "replace"} : ~HasPlace(k, {"base"})
        /\ Loops("reconcile1", "check")
    BY <1>0, <1>4, ReconcileNextEffect
  <2>2. \A k \in TKind : debris[run.i][k] # NoFile => debris[run.i][k].at \in {"base", "cleanup"}
    BY <1>0, <1>4, <2>1, NoTaskAssumption DEF Cleared, Exposed
  <2>3. Bare(run.i)
    BY <2>1, <2>2 DEF Tidy, HasPlace, Here, Bare, TKind
  <2>4. \A t \in Target : t < run.i + 1 => Bare(t)
    BY <1>0, <1>4, <2>3 DEF Cleared, Swept, Target
  <2>5. CASE run.i < N
    <3>1. run'.pc = "reconcile1" /\ run'.i = run.i + 1 /\ run'.drop = run.drop
      BY <1>0, <2>1, <2>5 DEF Loops
    <3>. QED BY <1>0, <1>4, <2>1, <2>4, <3>1
             DEF Cleared, NoOrphanArtifact, Exposed, Swept, Clear, Artifacts, Bare,
                 Opened, Closed, Publishing
  <2>6. CASE run.i = N
    <3>1. \A t \in Target : Bare(t)
      BY <1>0, <2>4, <2>6 DEF Target
    <3>. QED BY <1>0, <2>1, <3>1, ClearedBare DEF Bare
  <2>. QED BY <1>0, <2>5, <2>6
<1>5. run.pc = "reconcile1" =>
        \/ ReconcileNext
        \/ run'.pc \in {"idle", "thrown"} /\ UNCHANGED <<debris, journal>>
        \/ /\ run'.pc = "reconcile1" /\ run'.i = run.i
           /\ run.drop = NoFile /\ UNCHANGED <<debris, journal>>
  BY <1>0, RenameEffect, GuardEffect, TemporaryEffect DEF ReconcileSteps
<1>. QED BY <1>1, <1>2, <1>3, <1>4, <1>5, SecondLoop

\* There are none between two writes.
LEMMA ClearedPublish ==
  ASSUME LInv, IInv', PublishSteps
  PROVE  Cleared'
<1>1. TypeOK' /\ UNCHANGED debris /\ \A t \in Target : Bare(t)
  BY ValidateEffect, PublishEffect, PersistEffect, PersistPlaceEffect, ValidateTargetsEffect,
     ClearBare DEF PublishSteps, NoTask, LInv, IInv, Cleared, Opened, Publishing, Still
<1>. QED BY <1>1, ClearedBare DEF Bare

\* The artifacts during a write and after one of its steps.
LEMMA WritingClear ==
  ASSUME TypeOK, Clear, run.wr # NoFile, run.drop = NoFile, run.pc \in {"publish", "rollback"}
  PROVE  /\ \A t \in Target \ {run.i} : Bare(t)
         /\ Here["rollback"] = NoFile
         /\ Here["tmp"] # NoFile => run.wr.step \in {"fill", "guard", "place", "abort"}
         /\ Here["replace"] # NoFile =>
              run.wr.moved /\ run.wr.step \in {"place", "verify", "abort", "unguard"}
<1>1. \A t \in Target, k \in TKind : run.drop # <<t, k>>
  BY NoTaskAssumption
<1>2. run.pc \in (Opened \ {"reconcile1"}) \cup Closed /\ run.i \in Target
  BY DEF Opened, Publishing, TypeOK, Invocation
<1>. QED BY <1>1, <1>2 DEF Clear, Bare, Here, InUseBy, TKind

\* What it takes for a step of a write to leave only artifacts in use.
LEMMA StillClear ==
  ASSUME NEW i \in Target, run'.i = i, run'.wr # NoFile,
         \A t \in Target \ {i} : \A k \in TKind : debris'[t][k] = NoFile,
         debris'[i]["rollback"] = NoFile,
         debris'[i]["tmp"] # NoFile =>
           run'.drop = <<i, "tmp">> \/ run'.wr.step \in {"fill", "guard", "place", "abort"},
         debris'[i]["replace"] # NoFile =>
           \/ run'.drop = <<i, "replace">>
           \/ run'.wr.moved /\ run'.wr.step \in {"place", "verify", "abort", "unguard"}
  PROVE  Clear'
BY DEF Clear, InUseBy, TKind

\* A write uses its own and discards them in the end.
LEMMA ClearedWriting ==
  ASSUME LInv, IInv', WriteSteps
  PROVE  Cleared'
<1>. USE DEF StepsTo, Knows
<1>0. /\ TypeOK /\ TypeOK' /\ run.i \in Target /\ run.wr # NoFile /\ run.drop = NoFile
      /\ run.pc \in {"publish", "rollback"} /\ WriteProgress /\ Clear
      /\ run.pc \in (Opened \ {"reconcile1"}) \cup Closed
  <2>1. run.wr # NoFile /\ run.drop = NoFile
    BY DEF WriteSteps, WriteOpen, WriteCreate, WriteFill, WriteGuard, WritePlace, WriteVerify,
           WriteAbort, WriteUnguard, WriteReturn, WriteRaise, Step
  <2>. QED BY <2>1 DEF LInv, IInv, TypeOK, Invocation, WriteHome, Opened, Publishing, Cleared
<1>1. CASE WriteOpen \/ WriteReturn \/ WriteRaise
  <2>1. UNCHANGED debris
    BY <1>1 DEF WriteOpen, WriteReturn, WriteRaise, files
  <2>2. \A t \in Target : Bare(t)
    BY <1>0, <1>1, ClearBare DEF WriteOpen, WriteReturn, WriteRaise, Step
  <2>. QED BY <1>0, <2>1, <2>2, ClearedBare DEF Bare
<1>2. /\ \A t \in Target \ {run.i} : Bare(t)
      /\ Here["rollback"] = NoFile
      /\ Here["tmp"] # NoFile => run.wr.step \in {"fill", "guard", "place", "abort"}
      /\ Here["replace"] # NoFile =>
           run.wr.moved /\ run.wr.step \in {"place", "verify", "abort", "unguard"}
  BY <1>0, WritingClear
<1>3. CASE WriteVerify \/ WriteAbort \/ WriteUnguard
  <2>1. Clear'
    BY <1>0, <1>2, <1>3, StillClear, VerifyEffect, AbortEffect, UnguardEffect
       DEF Step, Still, Bare, Here
  <2>. QED BY <1>0, <1>3, <2>1, ClearedWrite, VerifyEffect, AbortEffect, UnguardEffect DEF Still
<1>4. CASE WriteCreate
  <2>1. PICK a \in Artifact : debris' = [debris EXCEPT ![run.i]["tmp"] = a]
    BY <1>0, <1>4, CreateEffect
  <2>2. /\ \A t \in Target \ {run.i} : debris'[t] = debris[t]
        /\ \A k \in {"replace", "rollback"} : debris'[run.i][k] = debris[run.i][k]
    BY <1>0, <2>1 DEF TypeOK, TKind
  <2>3. Clear'
    BY <1>0, <1>2, <1>4, <2>2, StillClear, CreateEffect DEF Step, Bare, Here
  <2>. QED BY <1>0, <1>4, <2>3, ClearedWrite, CreateEffect
<1>5. CASE WriteFill
  <2>1. debris' = [debris EXCEPT ![run.i]["tmp"].data = run.wr.val]
    BY <1>0, <1>5, FillEffect
  <2>2. debris' = [debris EXCEPT ![run.i]["tmp"] = [debris[run.i]["tmp"] EXCEPT !.data = run.wr.val]]
    BY <1>0, <2>1 DEF TypeOK, TKind
  <2>3. /\ \A t \in Target \ {run.i} : debris'[t] = debris[t]
        /\ \A k \in {"replace", "rollback"} : debris'[run.i][k] = debris[run.i][k]
    BY <1>0, <2>2 DEF TypeOK, TKind
  <2>4. Clear'
    BY <1>0, <1>2, <1>5, <2>3, StillClear, FillEffect DEF Step, Bare, Here
  <2>. QED BY <1>0, <1>5, <2>4, ClearedWrite, FillEffect
<1>6. CASE WriteGuard
  <2>1. CASE UNCHANGED debris
    <3>1. Clear'
      BY <1>0, <1>2, <1>6, <2>1, StillClear, WriteGuardEffect DEF Step, Bare, Here
    <3>. QED BY <1>0, <1>6, <3>1, ClearedWrite, WriteGuardEffect
  <2>2. CASE debris' # debris
    <3>1. /\ StepsTo("place") /\ run'.wr.moved = TRUE /\ UNCHANGED journal
          /\ debris' = [debris EXCEPT ![run.i]["replace"] = Displaced(run.i)]
      BY <1>0, <1>6, <2>2, WriteGuardEffect
    <3>2. /\ \A t \in Target \ {run.i} : debris'[t] = debris[t]
          /\ \A k \in {"tmp", "rollback"} : debris'[run.i][k] = debris[run.i][k]
      BY <1>0, <3>1 DEF TypeOK, TKind
    <3>3. Clear'
      BY <1>0, <1>2, <3>1, <3>2, StillClear DEF Bare, Here
    <3>. QED BY <1>0, <3>1, <3>3, ClearedWrite
  <2>. QED BY <2>1, <2>2
<1>7. CASE WritePlace
  <2>1. CASE StepsTo("abort") /\ UNCHANGED debris
    <3>1. Clear'
      BY <1>0, <1>2, <1>7, <2>1, StillClear, PlaceEffect DEF Step, Bare, Here
    <3>. QED BY <1>0, <1>7, <3>1, ClearedWrite, PlaceEffect
  <2>2. CASE ~(StepsTo("abort") /\ UNCHANGED debris)
    <3>1. /\ StepsTo("verify") /\ Knows /\ UNCHANGED journal
          /\ debris' = [debris EXCEPT ![run.i]["tmp"] = NoFile]
      BY <1>0, <1>7, <2>2, PlaceEffect
    <3>2. /\ \A t \in Target \ {run.i} : debris'[t] = debris[t]
          /\ debris'[run.i]["tmp"] = NoFile
          /\ \A k \in {"replace", "rollback"} : debris'[run.i][k] = debris[run.i][k]
      BY <1>0, <3>1 DEF TypeOK, TKind
    <3>3. Clear'
      BY <1>0, <1>2, <3>1, <3>2, StillClear DEF Bare, Here
    <3>. QED BY <1>0, <3>1, <3>3, ClearedWrite
  <2>. QED BY <2>1, <2>2
<1>. QED BY <1>1, <1>3, <1>4, <1>5, <1>6, <1>7 DEF WriteSteps

\* The rollback tombstone is discarded at once.
LEMMA ClearedRollback ==
  ASSUME LInv, IInv', RollbackSteps
  PROVE  Cleared'
<1>0. /\ TypeOK /\ TypeOK' /\ run.i \in Target /\ NoTask /\ Clear
      /\ run.pc \in {"rollback", "remove", "removed"}
      /\ run.pc \in (Opened \ {"reconcile1"}) \cup Closed /\ journal # NoFile
  BY RollbackEffect, RemoveEffect, RollbackRemovedEffect
     DEF RollbackSteps, LInv, IInv, Cleared, Loaded, Opened, TypeOK, Invocation
<1>1. \A t \in Target : Bare(t)
  BY <1>0, ClearBare DEF NoTask
<1>2. CASE UNCHANGED debris
  BY <1>0, <1>1, <1>2, ClearedBare DEF Bare
<1>3. CASE debris' # debris
  <2>1. /\ debris' = [debris EXCEPT ![run.i]["rollback"] = Displaced(run.i)] /\ UNCHANGED journal
        /\ run'.pc = "removed" /\ run'.i = run.i /\ run'.drop = <<run.i, "rollback">>
    BY <1>0, <1>3, RemoveEffect, RollbackEffect, RollbackRemovedEffect
       DEF RollbackSteps, Still, LInv
  <2>2. \A t \in Target, k \in TKind :
          t # run.i \/ k # "rollback" => debris'[t][k] = NoFile
    BY <1>0, <1>1, <2>1 DEF TypeOK, Bare
  <2>3. Clear'
    BY <2>1, <2>2 DEF Clear
  <2>. QED BY <1>0, <2>1, <2>3 DEF Cleared, NoOrphanArtifact, Exposed, Swept
<1>. QED BY <1>2, <1>3

\* So the journal is removed with no artifact left.
LEMMA ClearedFinal ==
  ASSUME LInv, IInv', FinalSteps
  PROVE  Cleared'
<1>0. TypeOK /\ TypeOK' /\ Cleared /\ UNCHANGED debris
  BY DEF LInv, IInv, FinalSteps, PutMarker, Sealed, DiscardTombstones, RemoveIdentity, Removed,
         RemoveJournal, RemoveMarker, Finished, RestoreEvidence, Rethrow, files
<1>1. CASE run.pc \in {"strays", "thrown"}
  <2>1. UNCHANGED journal /\ run'.pc \notin {"admit"} \cup Opened \cup Closed
    BY <1>0, <1>1, PutMarkerEffect, SealedEffect, TombstonesEffect, RemoveIdentityEffect,
       RemoveJournalEffect, RemoveMarkerEffect, RemovedEffect, FinishedEffect, RestoreEffect,
       RethrowEffect DEF FinalSteps, Still, Fresh, Opened, Closed, Publishing
  <2>. QED BY <1>0, <2>1, ClearedOutside
<1>2. CASE run.pc \notin {"strays", "thrown"}
  <2>1. NoTask /\ run.pc \in (Opened \ {"reconcile1"}) \cup Closed
    BY <1>0, <1>2, PutMarkerEffect, SealedEffect, TombstonesEffect, RemoveIdentityEffect,
       RemoveJournalEffect, RemoveMarkerEffect, RemovedEffect, FinishedEffect, RestoreEffect,
       RethrowEffect DEF FinalSteps, Opened, Closed
  <2>2. \A t \in Target : Bare(t)
    BY <1>0, <2>1, ClearBare DEF Cleared, NoTask
  <2>. QED BY <1>0, <2>2, ClearedBare DEF Bare
<1>. QED BY <1>1, <1>2

\* A discard ends with one artifact less.
LEMMA ClearedDiscard ==
  ASSUME LInv, IInv', DiscardSteps
  PROVE  Cleared'
<1>0. TypeOK /\ TypeOK' /\ Cleared
  BY DEF LInv, IInv
<1>1. CASE DiscardHusk
  BY <1>0, <1>1, ClearedKept, DiscardHuskEffect
<1>2. CASE DiscardDebris
  <2>1. /\ run'.pc = run.pc /\ run'.i = run.i /\ run'.wr = run.wr /\ UNCHANGED journal
    BY <1>0, <1>2, DiscardDebrisEffect
  <2>2. PICK t \in Target, k \in TKind :
          /\ run.drop = <<t, k>>
          /\ \/ debris' = [debris EXCEPT ![t][k] = NoFile] /\ run'.drop = NoFile
             \/ /\ debris[t][k] # NoFile /\ run'.drop = run.drop
                /\ \E a \in Artifact : debris' = [debris EXCEPT ![t][k] = a]
    BY <1>0, <1>2, DiscardDebrisEffect
  <2>3. /\ \A u \in Target, l \in TKind : u # t \/ l # k => debris'[u][l] = debris[u][l]
        /\ debris'[t][k] # NoFile => debris[t][k] # NoFile /\ run'.drop = <<t, k>>
    BY <1>0, <2>2 DEF TypeOK
  <2>4. \A u \in Target, l \in TKind :
          debris'[u][l] # NoFile => /\ debris[u][l] # NoFile
                                    /\ run'.drop = <<u, l>> \/ ( /\ debris'[u][l] = debris[u][l]
                                                                 /\ run.drop # <<u, l>> )
    BY <2>2, <2>3
  <2>5. NoOrphanArtifact'
    <3>1. Artifacts = {} => \A u \in Target : Bare(u)
      BY <1>0, NoArtifacts
    <3>2. (\A u \in Target, l \in TKind : debris'[u][l] = NoFile) => Artifacts' = {}
      BY DEF Artifacts
    <3>. QED BY <1>0, <2>1, <2>4, <3>1, <3>2 DEF Cleared, NoOrphanArtifact, Bare
  <2>6. Exposed' /\ Swept' /\ Clear'
    BY <1>0, <2>1, <2>4 DEF Cleared, Exposed, Swept, Clear, Bare
  <2>. QED BY <2>5, <2>6 DEF Cleared
<1>. QED BY <1>1, <1>2 DEF DiscardSteps

\* No step leaves an artifact behind that neither a journal nor a discard accounts for.
LEMMA ClearedStep == ASSUME LInv, IInv', Next PROVE Cleared'
<1>0. TypeOK /\ IInv /\ Cleared
  BY DEF LInv, IInv
<1>1. CASE CommitSteps \/ \E want \in [Target -> Wanted] : Commit(want)
  <2>1. UNCHANGED debris /\ journal' \in {journal, run.tx} /\ (PutJournal => run.tx # NoFile)
    BY <1>0, <1>1, CaptureEffect, PutIdentityEffect, PutJournalEffect, CommitEffect
       DEF CommitSteps, IInv, Prepared, Preparing
  <2>2. run'.pc \in {"scan", "capture", "idle", "putIdentity", "putJournal"}
    BY <1>0, <1>1, CaptureEffect, PutIdentityEffect, PutJournalEffect, CommitEffect
       DEF CommitSteps, Fresh, Moves
  <2>3. journal' = NoFile => journal = NoFile
    BY <1>0, <1>1, <2>1, CaptureEffect, PutIdentityEffect, PutJournalEffect, CommitEffect
       DEF CommitSteps
  <2>. QED BY <1>0, <2>1, <2>2, <2>3, ClearedOutside DEF Opened, Closed, Publishing
<1>2. CASE Crash \/ \E t \in Target : External(t)
  <2>1. CASE Crash
    BY <1>0, <2>1, ClearedOutside, CrashEffect DEF Fresh, Opened, Closed, Publishing
  <2>2. CASE \E t \in Target : External(t)
    BY <1>0, <2>2, ClearedKept, ExternalEffect
  <2>. QED BY <1>2, <2>1, <2>2
<1>. QED BY <1>1, <1>2, ClearedRead, ClearedReconcile, ClearedPublish, ClearedWriting, ClearedRollback,
            ClearedFinal, ClearedDiscard DEF Next, Working

-------------------------------------------------------------------------------
\* Targets under the marker

\* The actions that write a target.
LEMMA TargetActions ==
  ASSUME Next, target' # target
  PROVE  \/ \E t \in Target : External(t)
         \/ ReconcileGuard \/ WriteGuard \/ WritePlace \/ WriteUnguard \/ RollbackRemove
BY DEF Next, Working, Commit, Recover, Crash, CommitSteps, Capture, PutIdentity, PutJournal,
       ReadSteps, Scan, Quarantine, AdmitNoJournal, RestoreJournal, Admit, CheckTargets,
       ReconcileSteps, ReconcileRename, ReconcileTemporary, ReconcileNext,
       PublishSteps, Validate, Publish, Persist, PersistPlace, ValidateTargets,
       WriteSteps, WriteOpen, WriteCreate, WriteFill, WriteVerify, WriteAbort, WriteReturn,
       WriteRaise, RollbackSteps, Rollback, RollbackRemoved,
       FinalSteps, PutMarker, Sealed, DiscardTombstones, RemoveIdentity, Removed,
       RemoveJournal, RemoveMarker, Finished, RestoreEvidence, Rethrow,
       DiscardSteps, DiscardDebris, DiscardHusk, files

\* None of them is possible from the last check before the marker on, and the invocation
\* writes none under an undisturbed marker.
LEMMA TargetsFixed ==
  ASSUME LInv, Next, ~\E t \in Target : External(t),
         run.pc \in Final \/ (marker # NoFile /\ ~tampered)
  PROVE  UNCHANGED target
<1>0. TypeOK /\ IInv /\ run.i \in Target
  BY DEF LInv, IInv, TypeOK, Invocation
<1>. SUFFICES ASSUME target' # target PROVE FALSE
  OBVIOUS
<1>1. CASE ReconcileGuard
  <2>1. run.pc = "reconcile1" /\ run.wr = NoFile
    BY <1>1, SecondLoop DEF ReconcileSteps, ReconcileGuard, ReconcileNext, Reconciling, At
  <2>2. marker # NoFile /\ ~tampered
    BY <2>1 DEF Final, Sealing
  <2>3. target[run.i] # NoFile
    <3>1. AtWant(run.i) /\ run.tx \in Record
      BY <1>0, <2>1, <2>2
         DEF LInv, SealedInv, Intact, Checking, AllPublished, Published, IInv, Loaded, Opened,
             TypeOK, Invocation
    <3>. QED BY <1>0, <3>1, ConstantsAssumption DEF AtWant, Data, Record
  <2>. QED BY <1>0, <1>1, <2>1, <2>3, GuardEffect
<1>2. CASE WriteGuard \/ WritePlace \/ WriteUnguard
  <2>1. run.pc \in {"publish", "rollback"} /\ run.wr # NoFile
    BY <1>0, <1>2 DEF WriteGuard, WritePlace, WriteUnguard, Step, IInv, WriteHome
  <2>2. run.pc \notin Final
    BY <2>1 DEF Final, Sealing
  <2>. QED BY <2>1, <2>2 DEF LInv, SealedInv, Intact, Checking, Publishing, Undoing
<1>3. CASE RollbackRemove
  <2>1. run.pc = "remove"
    BY <1>3 DEF RollbackRemove, At
  <2>2. run.pc \notin Final
    BY <2>1 DEF Final, Sealing
  <2>. QED BY <2>1, <2>2 DEF LInv, SealedInv, Intact, Undoing
<1>. QED BY <1>1, <1>2, <1>3, TargetActions

\* A marker is written at the end of a publication, or put back; as long as it is there
\* and nothing interferes, the transaction and its targets stay as they are.
LEMMA MarkerKept ==
  ASSUME LInv, IInv', Next, marker' # NoFile, ~tampered'
  PROVE  /\ UNCHANGED <<target, begun, touched>>
         /\ \/ /\ marker' = run.pub /\ run.pc \in {"mark", "restore"}
               /\ run'.pc \in {"sealed", "restore"}
            \/ marker # NoFile /\ ~tampered /\ UNCHANGED marker
<1>. USE DEF Still, Moves, Buries
<1>0. TypeOK /\ IInv /\ SealedInv
  BY DEF LInv, IInv
<1>1. CASE CommitSteps \/ \E want \in [Target -> Wanted] : Commit(want)
  BY <1>0, <1>1, CommitEffect, CaptureEffect, PutIdentityEffect, PutJournalEffect
     DEF CommitSteps, SealedInv, Unmarked, Preparing
<1>2. CASE \E t \in Target : External(t)
  BY <1>0, <1>2, ExternalEffect
<1>3. CASE Crash
  BY <1>0, <1>3, CrashEffect
<1>4. CASE \/ ReadSteps \/ Recover \/ ReconcileSteps \/ PublishSteps \/ WriteSteps \/ RollbackSteps
           \/ DiscardSteps
  <2>1. UNCHANGED <<marker, begun, touched>>
    BY <1>4 DEF Recover, ReadSteps, Scan, Quarantine, AdmitNoJournal, RestoreJournal, Admit,
         CheckTargets, ReconcileSteps, ReconcileRename, ReconcileGuard, ReconcileTemporary,
         ReconcileNext, PublishSteps, Validate, Publish, Persist, PersistPlace, ValidateTargets,
         WriteSteps, WriteOpen, WriteCreate, WriteFill, WriteGuard, WritePlace, WriteVerify,
         WriteAbort, WriteUnguard, WriteReturn, WriteRaise, RollbackSteps, Rollback,
         RollbackRemove, RollbackRemoved, DiscardSteps, DiscardDebris, DiscardHusk,
         evidence, history
  <2>3. ~tampered
    <3>1. CASE Validate("validate1", "publish") \/ Validate("validate2", "targets")
      <4>1. tampered => tampered'
        BY <3>1, Zenon DEF Validate
      <4>. QED BY <4>1
    <3>2. CASE ~(Validate("validate1", "publish") \/ Validate("validate2", "targets"))
      <4>1. UNCHANGED tampered
        BY <1>4, <3>2
           DEF Recover, ReadSteps, Scan, Quarantine, AdmitNoJournal, RestoreJournal, Admit,
             CheckTargets, ReconcileSteps, ReconcileRename, ReconcileGuard, ReconcileTemporary,
             ReconcileNext, PublishSteps, Publish, Persist, PersistPlace, ValidateTargets,
             WriteSteps, WriteOpen, WriteCreate, WriteFill, WriteGuard, WritePlace, WriteVerify,
             WriteAbort, WriteUnguard, WriteReturn, WriteRaise, RollbackSteps, Rollback,
             RollbackRemove, RollbackRemoved, DiscardSteps, DiscardDebris, DiscardHusk,
             evidence, history
      <4>. QED BY <4>1
    <3>. QED BY <3>1, <3>2
  <2>2. UNCHANGED target
    <3>1. CASE \E t \in Target : External(t)
      BY <1>2, <3>1
    <3>. QED BY <2>1, <2>3, <3>1, TargetsFixed
  <2>. QED BY <2>1, <2>2, <2>3
<1>5. CASE FinalSteps
  BY <1>0, <1>5, PutMarkerEffect, SealedEffect, TombstonesEffect, RemoveIdentityEffect,
     RemoveJournalEffect, RemoveMarkerEffect, RemovedEffect, FinishedEffect, RestoreEffect,
     RethrowEffect DEF FinalSteps
<1>. QED BY <1>1, <1>2, <1>3, <1>4, <1>5 DEF Next, Working

\* The marker still stands for published targets.
LEMMA MarkerSealedStep == ASSUME LInv, IInv', Next PROVE MarkerSealed'
<1>. SUFFICES ASSUME marker' # NoFile, ~tampered',
                     NEW t \in Target, t \notin touched'
              PROVE  target'[t] = [data |-> begun'.want[t], ino |-> marker'[t]]
  BY DEF MarkerSealed
<1>1. CASE marker # NoFile /\ ~tampered /\ UNCHANGED marker
  BY <1>1, MarkerKept DEF LInv, SealedInv, MarkerSealed
<1>2. CASE marker' = run.pub /\ run.pc \in {"mark", "restore"}
  <2>1. Published(t) /\ run.tx = begun /\ run.tx \in Record /\ UNCHANGED <<target, begun>>
    BY <1>2, MarkerKept
       DEF LInv, SealedInv, FinalPublished, Final, IInv, Loaded, Opened, Closed, TypeOK, Invocation
  <2>2. target[t] \in Entry
    BY <2>1, ConstantsAssumption DEF Published, AtWant, Data, Record, LInv, IInv, TypeOK
  <2>. QED BY <1>2, <2>1, <2>2, NoFileAssumption DEF Published, AtWant, Data, Entry
<1>. QED BY <1>1, <1>2, MarkerKept

\* The targets stay published during the finalization.
LEMMA FinalPublishedStep == ASSUME LInv, IInv', Next PROVE FinalPublished'
<1>. USE DEF Still, Moves, Buries, Fresh, Tasks, Context
<1>0. TypeOK /\ IInv /\ FinalPublished
  BY DEF LInv, IInv, SealedInv
<1>. SUFFICES ASSUME run'.pc \in Final PROVE \A t \in Target \ touched' : Published(t)'
  BY DEF FinalPublished
<1>1. CASE \E t \in Target : External(t)
  <2>1. PICK u \in Target : External(u)
    BY <1>1
  <2>2. /\ run' = run /\ touched' = touched \cup {u}
        /\ \A t \in Target \ {u} : target'[t] = target[t]
    BY <1>0, <2>1, ExternalEffect
  <2>. QED BY <1>0, <2>2 DEF FinalPublished, Published, AtWant
<1>2. CASE ~\E t \in Target : External(t)
  <2>1. /\ run.pc \in Final \cup {"targets"} /\ run'.tx = run.tx /\ run'.pub = run.pub
        /\ UNCHANGED touched
        /\ run.pc = "targets" => AllPublished /\ UNCHANGED target
    <3>1. CASE CommitSteps \/ (\E want \in [Target -> Wanted] : Commit(want)) \/ Recover \/ ReadSteps
      BY <1>0, <3>1, CommitEffect, CaptureEffect, PutIdentityEffect, PutJournalEffect,
         RecoverEffect, ScanEffect, QuarantineEffect, AdmitNoJournalEffect, RestoreJournalEffect,
         AdmitEffect, CheckTargetsEffect DEF CommitSteps, ReadSteps, Final, Sealing
    <3>2. CASE ReconcileSteps
      BY <1>0, <3>2, SecondLoop, RenameEffect, GuardEffect, TemporaryEffect, ReconcileNextEffect
         DEF ReconcileSteps, Loops, Final, Sealing
    <3>3. CASE PublishSteps
      BY <1>0, <3>3, ValidateEffect, PublishEffect, PersistEffect, PersistPlaceEffect,
         ValidateTargetsEffect DEF PublishSteps, Loops, Undoes, Starts, Final, Sealing
    <3>4. CASE WriteSteps
      BY <1>0, <3>4, OpenEffect, CreateEffect, FillEffect, WriteGuardEffect, PlaceEffect,
         VerifyEffect, AbortEffect, UnguardEffect, WriteReturnEffect, WriteRaiseEffect
         DEF WriteSteps, Step, StepsTo, Undoes, IInv, WriteHome, Final, Sealing
    <3>5. CASE RollbackSteps
      BY <1>0, <3>5, RollbackEffect, RemoveEffect, RollbackRemovedEffect
         DEF RollbackSteps, Backs, Starts, Final, Sealing
    <3>6. CASE FinalSteps
      BY <1>0, <3>6, PutMarkerEffect, SealedEffect, TombstonesEffect, RemoveIdentityEffect,
         RemoveJournalEffect, RemoveMarkerEffect, RemovedEffect, FinishedEffect, RestoreEffect,
         RethrowEffect DEF FinalSteps, Final, Sealing
    <3>7. CASE DiscardSteps
      BY <1>0, <3>7, DiscardDebrisEffect, DiscardHuskEffect DEF DiscardSteps, Final, Sealing
    <3>8. CASE Crash
      BY <1>0, <3>8, CrashEffect DEF Final, Sealing
    <3>. QED BY <1>2, <3>1, <3>2, <3>3, <3>4, <3>5, <3>6, <3>7, <3>8 DEF Next, Working
  <2>2. UNCHANGED target
    BY <1>2, <2>1, TargetsFixed
  <2>. QED BY <1>0, <2>1, <2>2 DEF FinalPublished, AllPublished, Published, AtWant
<1>. QED BY <1>1, <1>2

\* A transaction starts without a marker.
LEMMA UnmarkedStep == ASSUME LInv, IInv', Next PROVE Unmarked'
<1>. USE DEF Unmarked, Preparing, Fresh, Moves, Undoes, Loops, Backs, Starts, StepsTo, Buries,
             Tasks, NoTask, Context, Still
<1>0. TypeOK /\ IInv /\ Unmarked
  BY DEF LInv, IInv, SealedInv
<1>1. CASE CommitSteps \/ \E want \in [Target -> Wanted] : Commit(want)
  BY <1>0, <1>1, CaptureEffect, PutIdentityEffect, PutJournalEffect, CommitEffect DEF CommitSteps
<1>2. CASE ReadSteps \/ Recover
  BY <1>0, <1>2, ScanEffect, QuarantineEffect, AdmitNoJournalEffect, RestoreJournalEffect,
     AdmitEffect, CheckTargetsEffect, RecoverEffect DEF ReadSteps
<1>3. CASE ReconcileSteps
  BY <1>0, <1>3, SecondLoop, RenameEffect, GuardEffect, TemporaryEffect, ReconcileNextEffect
     DEF ReconcileSteps
<1>4. CASE PublishSteps
  BY <1>0, <1>4, ValidateEffect, PublishEffect, PersistEffect, PersistPlaceEffect,
     ValidateTargetsEffect DEF PublishSteps
<1>5. CASE WriteSteps
  <2>1. run.pc \in {"publish", "rollback"}
    BY <1>0, <1>5
       DEF WriteSteps, WriteOpen, WriteCreate, WriteFill, WriteGuard, WritePlace, WriteVerify,
           WriteAbort, WriteUnguard, WriteReturn, WriteRaise, Step, IInv, WriteHome
  <2>. QED BY <1>0, <1>5, <2>1, OpenEffect, CreateEffect, FillEffect, WriteGuardEffect,
         PlaceEffect, VerifyEffect, AbortEffect, UnguardEffect, WriteReturnEffect,
         WriteRaiseEffect DEF WriteSteps
<1>6. CASE RollbackSteps
  BY <1>0, <1>6, RollbackEffect, RemoveEffect, RollbackRemovedEffect DEF RollbackSteps
<1>7. CASE FinalSteps
  BY <1>0, <1>7, PutMarkerEffect, SealedEffect, TombstonesEffect, RemoveIdentityEffect,
     RemoveJournalEffect, RemoveMarkerEffect, RemovedEffect, FinishedEffect, RestoreEffect,
     RethrowEffect DEF FinalSteps
<1>8. CASE DiscardSteps
  BY <1>0, <1>8, DiscardDebrisEffect, DiscardHuskEffect DEF DiscardSteps
<1>9. CASE Crash \/ \E t \in Target : External(t)
  BY <1>0, <1>9, CrashEffect, ExternalEffect
<1>. QED BY <1>1, <1>2, <1>3, <1>4, <1>5, <1>6, <1>7, <1>8, <1>9 DEF Next, Working

\* Under an undisturbed marker recovery finds every target published and undoes none.
LEMMA IntactStep == ASSUME LInv, IInv', Next PROVE Intact'
<1>. USE DEF Fresh, Moves, Undoes, Loops, Backs, Starts, StepsTo, Buries,
             Tasks, NoTask, Context, Still, Checking, Undoing, Publishing
<1>0. TypeOK /\ IInv /\ Intact
  BY DEF LInv, IInv, SealedInv
<1>. SUFFICES ASSUME marker' # NoFile, ~tampered'
              PROVE  /\ run'.pc \in Checking => AllPublished' /\ run'.wr = NoFile
                     /\ run'.pc \notin Undoing
  BY DEF Intact
<1>1. CASE run'.pc \in {"sealed", "restore"}
  BY <1>1
<1>2. CASE marker # NoFile /\ ~tampered /\ UNCHANGED marker
  <2>1. UNCHANGED target
    BY MarkerKept
  <2>2. /\ run.pc \in Checking => AllPublished /\ run.wr = NoFile
        /\ run.pc \notin Undoing
    BY <1>0, <1>2 DEF Intact
  <2>3. \/ run'.pc \notin Checking \cup Undoing
        \/ /\ run.pc \in Checking /\ run'.pc \in Checking /\ run'.wr = NoFile
           /\ run'.tx = run.tx /\ run'.pub = run.pub
        \/ /\ run'.pc = "reconcile1" /\ run'.wr = NoFile /\ run'.tx = journal /\ run'.pub = marker
           /\ \A t \in Target : /\ Data(target[t]) = journal.want[t]
                                /\ marker[t] # NoIno /\ target[t].ino = marker[t]
    <3>1. CASE CommitSteps \/ \E want \in [Target -> Wanted] : Commit(want)
      BY <1>0, <3>1, CaptureEffect, PutIdentityEffect, PutJournalEffect, CommitEffect
         DEF CommitSteps
    <3>2. CASE ReadSteps \/ Recover
      BY <1>0, <1>2, <2>2, <3>2, ScanEffect, QuarantineEffect, AdmitNoJournalEffect,
         RestoreJournalEffect, AdmitEffect, CheckTargetsEffect, RecoverEffect DEF ReadSteps
    <3>3. CASE ReconcileSteps
      BY <1>0, <2>2, <3>3, SecondLoop, RenameEffect, GuardEffect, TemporaryEffect,
         ReconcileNextEffect DEF ReconcileSteps
    <3>4. CASE PublishSteps
      <4>1. run.i \in Target
        BY <1>0 DEF TypeOK, Invocation
      <4>. QED BY <1>0, <1>2, <2>2, <3>4, <4>1, ValidateEffect, PublishEffect, PersistEffect,
           PersistPlaceEffect, ValidateTargetsEffect DEF PublishSteps, AllPublished
    <3>5. CASE WriteSteps
      <4>1. run.pc \in {"publish", "rollback"} /\ run.wr # NoFile
        BY <1>0, <3>5
           DEF WriteSteps, WriteOpen, WriteCreate, WriteFill, WriteGuard, WritePlace, WriteVerify,
               WriteAbort, WriteUnguard, WriteReturn, WriteRaise, Step, IInv, WriteHome
      <4>. QED BY <2>2, <4>1
    <3>6. CASE RollbackSteps
      BY <1>0, <2>2, <3>6, RollbackEffect, RemoveEffect, RollbackRemovedEffect DEF RollbackSteps
    <3>7. CASE FinalSteps
      BY <1>0, <3>7, PutMarkerEffect, SealedEffect, TombstonesEffect, RemoveIdentityEffect,
         RemoveJournalEffect, RemoveMarkerEffect, RemovedEffect, FinishedEffect, RestoreEffect,
         RethrowEffect DEF FinalSteps
    <3>8. CASE DiscardSteps
      BY <1>0, <2>2, <3>8, DiscardDebrisEffect, DiscardHuskEffect DEF DiscardSteps
    <3>9. CASE Crash \/ \E t \in Target : External(t)
      BY <1>0, <2>2, <3>9, CrashEffect, ExternalEffect
    <3>. QED BY <3>1, <3>2, <3>3, <3>4, <3>5, <3>6, <3>7, <3>8, <3>9 DEF Next, Working
  <2>. QED BY <2>1, <2>2, <2>3 DEF AllPublished, Published, AtWant
<1>. QED BY <1>1, <1>2, MarkerKept

\* All that the marker stands for is kept.
LEMMA SealedInvStep == ASSUME LInv, IInv', Next PROVE SealedInv'
BY MarkerSealedStep, FinalPublishedStep, UnmarkedStep, IntactStep DEF SealedInv

-------------------------------------------------------------------------------
\* The sidecar

\* The journal is left without sidecar, guard and marker only behind a foreign write.
LEMMA JournalOwnedStep == ASSUME LInv, IInv', Next PROVE JournalOwned'
<1>. USE DEF Fresh, Moves, Undoes, Loops, Backs, Starts, StepsTo, Buries,
             Tasks, NoTask, Context, Still, Steady
<1>0. TypeOK /\ IInv /\ JournalOwned /\ Bound /\ GuardLast /\ Gone /\ Counted
  BY DEF LInv, IInv, Sidecar
<1>a. run.pub # NoFile
  BY <1>0, NoFileAssumption DEF TypeOK, Invocation
<1>k. ASSUME journal # NoFile \/ journal' = NoFile, identity # NoFile => identity' # NoFile,
             marker # NoFile => marker' # NoFile, \A h \in husks : BaseGuard(h) => h \in husks',
             faults'.external = faults.external \/ faults'.external # 0
      PROVE  JournalOwned'
  BY <1>0, <1>k DEF JournalOwned, BaseGuard
<1>1. CASE CommitSteps \/ \E want \in [Target -> Wanted] : Commit(want)
  <2>1. CASE PutJournal
    BY <1>0, <2>1, PutJournalEffect DEF Bound, JournalOwned
  <2>2. CASE ~PutJournal
    BY <1>0, <1>1, <1>k, <2>2, CaptureEffect, PutIdentityEffect, CommitEffect DEF CommitSteps
  <2>. QED BY <2>1, <2>2
<1>2. CASE ReadSteps \/ Recover
  <2>1. CASE Scan
    BY <1>0, <1>k, <2>1, ScanEffect
  <2>2. CASE Quarantine
    <3>1. ASSUME NEW h \in husks, BaseGuard(h),
                 husks' = {Surface(g) : g \in {g \in husks : g.at # "hollow"}}
          PROVE  h \in husks'
      <4>1. h.at # "hollow" /\ Surface(h) = h
        BY <3>1 DEF BaseGuard, Surface
      <4>. QED BY <3>1, <4>1
    <3>. QED BY <1>0, <1>k, <2>2, <3>1, QuarantineEffect
  <2>3. CASE RestoreJournal
    BY <1>0, <1>k, <2>3, RestoreJournalEffect DEF JournalOwned
  <2>4. CASE AdmitNoJournal \/ Admit \/ CheckTargets \/ Recover
    BY <1>0, <1>k, <2>4, AdmitNoJournalEffect, AdmitEffect, CheckTargetsEffect, RecoverEffect
  <2>. QED BY <1>2, <2>1, <2>2, <2>3, <2>4 DEF ReadSteps
<1>3. CASE ReconcileSteps
  BY <1>0, <1>k, <1>3, SecondLoop, RenameEffect, GuardEffect, TemporaryEffect,
     ReconcileNextEffect DEF ReconcileSteps
<1>4. CASE PublishSteps
  <2>1. CASE Persist
    <3>1. CASE identity # NoFile /\ identity' = NoFile
      <4>. DEFINE h == [kind |-> "idGuard", at |-> "base", val |-> identity]
      <4>1. h \in husks' /\ BaseGuard(h)
        BY <1>0, <2>1, <3>1, PersistEffect DEF BaseGuard
      <4>. QED BY <4>1 DEF JournalOwned, BaseGuard
    <3>2. CASE identity # NoFile /\ identity' # NoFile
      BY <3>2 DEF JournalOwned
    <3>3. CASE identity = NoFile
      BY <1>0, <2>1, <3>3, PersistEffect DEF Bound, Checking, Publishing, JournalOwned
    <3>. QED BY <3>1, <3>2, <3>3
  <2>2. CASE ~Persist
    BY <1>0, <1>a, <1>k, <1>4, <2>2, ValidateEffect, PublishEffect, PersistPlaceEffect,
       ValidateTargetsEffect DEF PublishSteps
  <2>. QED BY <2>1, <2>2
<1>5. CASE WriteSteps
  BY <1>0, <1>k, <1>5, OpenEffect, CreateEffect, FillEffect, WriteGuardEffect, PlaceEffect,
     VerifyEffect, AbortEffect, UnguardEffect, WriteReturnEffect, WriteRaiseEffect
     DEF WriteSteps
<1>6. CASE RollbackSteps
  BY <1>0, <1>k, <1>6, RollbackEffect, RemoveEffect, RollbackRemovedEffect DEF RollbackSteps
<1>7. CASE FinalSteps
  <2>1. CASE RemoveIdentity
    BY <1>0, <2>1, RemoveIdentityEffect DEF IInv, Marked, Sealing, JournalOwned
  <2>2. CASE RemoveMarker
    BY <1>0, <2>2, RemoveMarkerEffect DEF Gone, JournalOwned
  <2>3. CASE RestoreEvidence
    BY <1>0, <2>3, RestoreEffect DEF Gone, Counted, JournalOwned
  <2>4. CASE ~RemoveIdentity /\ ~RemoveMarker /\ ~RestoreEvidence
    BY <1>0, <1>a, <1>k, <1>7, <2>4, PutMarkerEffect, SealedEffect, TombstonesEffect,
       RemoveJournalEffect, RemovedEffect, FinishedEffect, RethrowEffect DEF FinalSteps
  <2>. QED BY <2>1, <2>2, <2>3, <2>4
<1>8. CASE DiscardSteps
  <2>1. CASE DiscardDebris
    BY <1>0, <1>k, <2>1, DiscardDebrisEffect
  <2>2. CASE DiscardHusk
    <3>1. CASE BaseGuard(run.purge)
      BY <1>0, <2>2, <3>1, DiscardHuskEffect DEF GuardLast, JournalOwned
    <3>2. CASE ~BaseGuard(run.purge)
      BY <1>0, <1>k, <2>2, <3>2, DiscardHuskEffect
    <3>. QED BY <3>1, <3>2
  <2>. QED BY <1>8, <2>1, <2>2 DEF DiscardSteps
<1>9. CASE Crash \/ \E t \in Target : External(t)
  BY <1>0, <1>k, <1>9, CrashEffect, ExternalEffect
<1>. QED BY <1>1, <1>2, <1>3, <1>4, <1>5, <1>6, <1>7, <1>8, <1>9 DEF Next, Working

\* Targets are published only beside a sidecar or a marker.
LEMMA BoundStep == ASSUME LInv, IInv', Next PROVE Bound'
<1>. USE DEF Fresh, Moves, Undoes, Loops, Backs, Starts, StepsTo, Buries,
             Tasks, NoTask, Context, Still, Bound, Checking, Publishing
<1>0. TypeOK /\ IInv /\ Bound
  BY DEF LInv, IInv, Sidecar
<1>a. run.pub # NoFile
  BY <1>0, NoFileAssumption DEF TypeOK, Invocation
<1>1. CASE CommitSteps \/ \E want \in [Target -> Wanted] : Commit(want)
  BY <1>0, <1>1, CaptureEffect, PutIdentityEffect, PutJournalEffect, CommitEffect DEF CommitSteps
<1>2. CASE ReadSteps \/ Recover
  BY <1>0, <1>2, ScanEffect, QuarantineEffect, AdmitNoJournalEffect, RestoreJournalEffect,
     AdmitEffect, CheckTargetsEffect, RecoverEffect DEF ReadSteps
<1>3. CASE ReconcileSteps
  BY <1>0, <1>3, SecondLoop, RenameEffect, GuardEffect, TemporaryEffect, ReconcileNextEffect
     DEF ReconcileSteps
<1>4. CASE PublishSteps
  BY <1>0, <1>a, <1>4, ValidateEffect, PublishEffect, PersistEffect, PersistPlaceEffect,
     ValidateTargetsEffect DEF PublishSteps
<1>5. CASE WriteSteps
  BY <1>0, <1>5, OpenEffect, CreateEffect, FillEffect, WriteGuardEffect, PlaceEffect,
     VerifyEffect, AbortEffect, UnguardEffect, WriteReturnEffect, WriteRaiseEffect
     DEF WriteSteps
<1>6. CASE RollbackSteps
  BY <1>0, <1>6, RollbackEffect, RemoveEffect, RollbackRemovedEffect DEF RollbackSteps
<1>7. CASE FinalSteps
  BY <1>0, <1>7, PutMarkerEffect, SealedEffect, TombstonesEffect, RemoveIdentityEffect,
     RemoveJournalEffect, RemoveMarkerEffect, RemovedEffect, FinishedEffect, RestoreEffect,
     RethrowEffect DEF FinalSteps
<1>8. CASE DiscardSteps
  BY <1>0, <1>8, DiscardDebrisEffect, DiscardHuskEffect DEF DiscardSteps
<1>9. CASE Crash \/ \E t \in Target : External(t)
  BY <1>0, <1>9, CrashEffect, ExternalEffect
<1>. QED BY <1>1, <1>2, <1>3, <1>4, <1>5, <1>6, <1>7, <1>8, <1>9 DEF Next, Working

\* The sidecar's guard is discarded only once its successor is in place.
LEMMA GuardLastStep == ASSUME LInv, IInv', Next PROVE GuardLast'
<1>. USE DEF Fresh, Moves, Undoes, Loops, Backs, Starts, StepsTo, Buries,
             Tasks, NoTask, Context, Still, GuardLast
<1>0. TypeOK /\ IInv /\ GuardLast
  BY DEF LInv, IInv, Sidecar
<1>a. run.pub # NoFile
  BY <1>0, NoFileAssumption DEF TypeOK, Invocation
<1>b. \A h \in JournalCandidates \cup IdentityCandidates : ~BaseGuard(h)
  BY DEF JournalCandidates, IdentityCandidates, BaseGuard
<1>1. CASE CommitSteps \/ \E want \in [Target -> Wanted] : Commit(want)
  BY <1>0, <1>1, CaptureEffect, PutIdentityEffect, PutJournalEffect, CommitEffect DEF CommitSteps
<1>2. CASE ReadSteps \/ Recover
  BY <1>0, <1>b, <1>2, ScanEffect, QuarantineEffect, AdmitNoJournalEffect, RestoreJournalEffect,
     AdmitEffect, CheckTargetsEffect, RecoverEffect DEF ReadSteps
<1>3. CASE ReconcileSteps
  BY <1>0, <1>3, SecondLoop, RenameEffect, GuardEffect, TemporaryEffect, ReconcileNextEffect
     DEF ReconcileSteps
<1>4. CASE PublishSteps
  BY <1>0, <1>a, <1>4, ValidateEffect, PublishEffect, PersistEffect, PersistPlaceEffect,
     ValidateTargetsEffect DEF PublishSteps
<1>5. CASE WriteSteps
  BY <1>0, <1>5, OpenEffect, CreateEffect, FillEffect, WriteGuardEffect, PlaceEffect,
     VerifyEffect, AbortEffect, UnguardEffect, WriteReturnEffect, WriteRaiseEffect
     DEF WriteSteps
<1>6. CASE RollbackSteps
  BY <1>0, <1>6, RollbackEffect, RemoveEffect, RollbackRemovedEffect DEF RollbackSteps
<1>7. CASE FinalSteps
  <2>1. ~BaseGuard(Tombstone("idTomb", identity)) /\ ~BaseGuard(JournalTombstone(journal))
        /\ ~BaseGuard(Tombstone("markerTomb", marker))
    BY DEF BaseGuard, Tombstone, JournalTombstone
  <2>2. CASE RemoveIdentity \/ RemoveJournal \/ RemoveMarker
    BY <1>0, <2>1, <2>2, RemoveIdentityEffect, RemoveJournalEffect, RemoveMarkerEffect
  <2>3. CASE DiscardTombstones
    BY <1>0, <2>3, TombstonesEffect
  <2>. QED BY <1>0, <1>7, <2>2, <2>3, PutMarkerEffect, SealedEffect, RemovedEffect,
         FinishedEffect, RestoreEffect, RethrowEffect DEF FinalSteps
<1>8. CASE DiscardSteps
  BY <1>0, <1>8, DiscardDebrisEffect, DiscardHuskEffect DEF DiscardSteps, BaseGuard
<1>9. CASE Crash \/ \E t \in Target : External(t)
  BY <1>0, <1>9, CrashEffect, ExternalEffect
<1>. QED BY <1>1, <1>2, <1>3, <1>4, <1>5, <1>6, <1>7, <1>8, <1>9 DEF Next, Working

\* The marker outlives the journal, and evidence is put back only after a foreign write.
LEMMA GoneStep == ASSUME LInv, IInv', Next PROVE Gone'
<1>. USE DEF Fresh, Moves, Undoes, Loops, Backs, Starts, StepsTo, Buries,
             Tasks, NoTask, Context, Still, Gone
<1>0. TypeOK /\ IInv /\ Gone
  BY DEF LInv, IInv, Sidecar
<1>a. run.pc \in Final /\ ~AllPublished => touched # {}
  BY DEF LInv, SealedInv, FinalPublished, AllPublished
<1>1. CASE CommitSteps \/ \E want \in [Target -> Wanted] : Commit(want)
  BY <1>0, <1>1, CaptureEffect, PutIdentityEffect, PutJournalEffect, CommitEffect DEF CommitSteps
<1>2. CASE ReadSteps \/ Recover
  BY <1>0, <1>2, ScanEffect, QuarantineEffect, AdmitNoJournalEffect, RestoreJournalEffect,
     AdmitEffect, CheckTargetsEffect, RecoverEffect DEF ReadSteps
<1>3. CASE ReconcileSteps
  BY <1>0, <1>3, SecondLoop, RenameEffect, GuardEffect, TemporaryEffect, ReconcileNextEffect
     DEF ReconcileSteps
<1>4. CASE PublishSteps
  BY <1>0, <1>4, ValidateEffect, PublishEffect, PersistEffect, PersistPlaceEffect,
     ValidateTargetsEffect DEF PublishSteps
<1>5. CASE WriteSteps
  <2>1. run.pc \in {"publish", "rollback"}
    BY <1>0, <1>5
       DEF WriteSteps, WriteOpen, WriteCreate, WriteFill, WriteGuard, WritePlace, WriteVerify,
           WriteAbort, WriteUnguard, WriteReturn, WriteRaise, Step, IInv, WriteHome
  <2>. QED BY <1>0, <1>5, <2>1, OpenEffect, CreateEffect, FillEffect, WriteGuardEffect,
       PlaceEffect, VerifyEffect, AbortEffect, UnguardEffect, WriteReturnEffect,
       WriteRaiseEffect DEF WriteSteps
<1>6. CASE RollbackSteps
  BY <1>0, <1>6, RollbackEffect, RemoveEffect, RollbackRemovedEffect DEF RollbackSteps
<1>7. CASE FinalSteps
  BY <1>0, <1>a, <1>7, PutMarkerEffect, SealedEffect, TombstonesEffect, RemoveIdentityEffect,
     RemoveJournalEffect, RemoveMarkerEffect, RemovedEffect, FinishedEffect, RestoreEffect,
     RethrowEffect DEF FinalSteps, Final, Sealing
<1>8. CASE DiscardSteps
  BY <1>0, <1>8, DiscardDebrisEffect, DiscardHuskEffect DEF DiscardSteps
<1>9. CASE Crash \/ \E t \in Target : External(t)
  BY <1>0, <1>9, CrashEffect, ExternalEffect
<1>. QED BY <1>1, <1>2, <1>3, <1>4, <1>5, <1>6, <1>7, <1>8, <1>9 DEF Next, Working

\* All that ties the journal to its sidecar is kept.
LEMMA SidecarStep == ASSUME LInv, IInv', Next PROVE Sidecar'
BY JournalOwnedStep, BoundStep, GuardLastStep, GoneStep DEF Sidecar

-------------------------------------------------------------------------------
\* When nothing but the validation fails

\* A step after which nothing has failed is none of the environment's, and nothing had
\* failed before it.
LEMMA CalmBefore ==
  ASSUME LInv, Next, Calm'
  PROVE  Calm /\ touched = {} /\ ~Crash /\ ~\E t \in Target : External(t)
<1>0. TypeOK /\ IInv /\ Counted
  BY DEF LInv, IInv
<1>1. ~Crash /\ ~\E t \in Target : External(t)
  BY <1>0, CrashEffect, ExternalEffect DEF Calm
<1>2. faults'.external = faults.external /\ faults'.crash = faults.crash
  BY <1>0, <1>1, CommitEffect, CaptureEffect, ValidateEffect
     DEF Next, Working, Recover, CommitSteps, PutIdentity, PutJournal,
       ReadSteps, Scan, Quarantine, AdmitNoJournal, RestoreJournal, Admit, CheckTargets,
       ReconcileSteps, ReconcileRename, ReconcileGuard, ReconcileTemporary, ReconcileNext,
       PublishSteps, Publish, Persist, PersistPlace, ValidateTargets,
       WriteSteps, WriteOpen, WriteCreate, WriteFill, WriteGuard, WritePlace, WriteVerify,
       WriteAbort, WriteUnguard, WriteReturn, WriteRaise, RollbackSteps, Rollback,
       RollbackRemove, RollbackRemoved,
       FinalSteps, PutMarker, Sealed, DiscardTombstones, RemoveIdentity, Removed,
       RemoveJournal, RemoveMarker, Finished, RestoreEvidence, Rethrow,
       DiscardSteps, DiscardDebris, DiscardHusk, history, Steady
<1>. QED BY <1>0, <1>1, <1>2 DEF Calm, Counted

\* No evidence is left but the one being removed; the finalization finds every target
\* published, so nothing is put back.
LEMMA CalmFacts ==
  ASSUME LInv, Calm
  PROVE  /\ touched = {} /\ run.jc = {} /\ run.ic = {}
         /\ run.purge = NoFile /\ run.pc # "persistPlace" => husks = {}
         /\ run.pc = "idle" \/ run.wr # NoFile => run.purge = NoFile
         /\ run.pc \in Final => AllPublished
         /\ run.pc # "restore"
         /\ run.pc \notin Sealing => marker = NoFile
BY DEF LInv, Calm, Counted, CalmInv, CalmEvidence, OneTask, SealedInv, FinalPublished,
       AllPublished, Sidecar, Gone

\* Without faults no evidence is left over at any statement.
LEMMA CalmEvidenceStep == ASSUME LInv, IInv', Next PROVE CalmEvidence'
<1>. USE DEF Fresh, Moves, Undoes, Loops, Backs, Starts, StepsTo, Buries,
             Tasks, NoTask, Context, Still, CalmEvidence
<1>. SUFFICES ASSUME Calm' PROVE CalmEvidence'
  BY DEF CalmEvidence
<1>0. TypeOK /\ IInv /\ CalmEvidence /\ Calm
  BY CalmBefore DEF LInv, IInv, CalmInv
<1>f. /\ touched = {} /\ run.jc = {} /\ run.ic = {}
      /\ run.purge = NoFile /\ run.pc # "persistPlace" => husks = {}
      /\ run.pc = "idle" \/ run.wr # NoFile => run.purge = NoFile
      /\ run.pc \in Final => AllPublished
      /\ run.pc # "restore"
      /\ run.pc \notin Sealing => marker = NoFile
  BY <1>0, CalmFacts
<1>c. JournalCandidates \subseteq husks /\ IdentityCandidates \subseteq husks
  BY DEF JournalCandidates, IdentityCandidates
<1>1. CASE CommitSteps \/ \E want \in [Target -> Wanted] : Commit(want)
  BY <1>0, <1>f, <1>1, CaptureEffect, PutIdentityEffect, PutJournalEffect, CommitEffect
     DEF CommitSteps, Sealing
<1>2. CASE ReadSteps \/ Recover
  BY <1>0, <1>f, <1>c, <1>2, ScanEffect, QuarantineEffect, AdmitNoJournalEffect,
     RestoreJournalEffect, AdmitEffect, CheckTargetsEffect, RecoverEffect DEF ReadSteps, Sealing
<1>3. CASE ReconcileSteps
  BY <1>0, <1>f, <1>3, SecondLoop, RenameEffect, GuardEffect, TemporaryEffect,
     ReconcileNextEffect DEF ReconcileSteps, Sealing
<1>4. CASE PublishSteps
  <2>1. CASE Persist
    <3>1. husks = {} /\ marker = NoFile /\ UNCHANGED marker
      BY <1>0, <1>f, <2>1, PersistEffect DEF Sealing
    <3>. QED BY <1>0, <1>f, <2>1, <3>1, PersistEffect DEF BaseGuard
  <2>2. CASE PersistPlace
    BY <1>0, <1>f, <2>2, PersistPlaceEffect, NoTaskAssumption DEF TypeOK, Sealing
  <2>. QED BY <1>0, <1>f, <1>4, <2>1, <2>2, ValidateEffect, PublishEffect,
         ValidateTargetsEffect DEF PublishSteps, Sealing
<1>5. CASE WriteSteps
  <2>1. run.pc \in {"publish", "rollback"} /\ run.wr # NoFile
    BY <1>0, <1>5
       DEF WriteSteps, WriteOpen, WriteCreate, WriteFill, WriteGuard, WritePlace, WriteVerify,
           WriteAbort, WriteUnguard, WriteReturn, WriteRaise, Step, IInv, WriteHome
  <2>2. husks = {} /\ marker = NoFile
    BY <1>f, <2>1 DEF Sealing
  <2>. QED BY <1>0, <1>f, <1>5, <2>1, <2>2, OpenEffect, CreateEffect, FillEffect,
       WriteGuardEffect, PlaceEffect, VerifyEffect, AbortEffect, UnguardEffect,
       WriteReturnEffect, WriteRaiseEffect DEF WriteSteps
<1>6. CASE RollbackSteps
  BY <1>0, <1>f, <1>6, RollbackEffect, RemoveEffect, RollbackRemovedEffect
     DEF RollbackSteps, Sealing
<1>7. CASE FinalSteps
  <2>1. CASE RemoveIdentity \/ RemoveJournal \/ RemoveMarker
    <3>1. husks' \subseteq Husk
      BY DEF IInv, TypeOK
    <3>. QED BY <1>0, <1>f, <1>c, <2>1, <3>1, RemoveIdentityEffect, RemoveJournalEffect,
           RemoveMarkerEffect, NoTaskAssumption DEF Final, Sealing
  <2>. QED BY <1>0, <1>f, <1>7, <2>1, PutMarkerEffect, SealedEffect, TombstonesEffect,
         RemovedEffect, FinishedEffect, RestoreEffect, RethrowEffect
         DEF FinalSteps, Final, Sealing
<1>8. CASE DiscardSteps
  BY <1>0, <1>f, <1>8, DiscardDebrisEffect, DiscardHuskEffect DEF DiscardSteps
<1>. QED BY <1>1, <1>2, <1>3, <1>4, <1>5, <1>6, <1>7, <1>8, CalmBefore DEF Next, Working

\* Only a write at its own statement runs; the failed writes do not happen.
LEMMA CalmWriting ==
  ASSUME LInv, IInv', Next, Calm', WriteSteps
  PROVE  /\ run.pc \in {"publish", "rollback"} /\ run.wr # NoFile /\ run.drop = NoFile
         /\ run.i \in Target /\ run.wr \in Writer /\ run.tx \in Record
         /\ \/ /\ run'.pc = run.pc /\ run'.i = run.i /\ Context /\ run'.wr # NoFile
               /\ run'.wr.val = run.wr.val /\ run'.wr.exp = run.wr.exp
               /\ run'.wr.step \in {"create", "fill", "guard", "place", "verify", "done"}
               /\ run'.wr.step \in {"create", "fill", "guard"} =>
                    /\ UNCHANGED target
                    /\ Data(target[run.i]) = run.wr.exp
                    /\ run'.wr.lock = IF target[run.i] = NoFile THEN NoIno ELSE target[run.i].ino
               /\ run'.wr.step = "place" => target'[run.i] = NoFile
               /\ run'.wr.step \in {"verify", "done"} =>
                    /\ run'.wr.new \in Ino
                    /\ target'[run.i] = [data |-> run.wr.val, ino |-> run'.wr.new]
               /\ \A t \in Target \ {run.i} : target'[t] = target[t]
            \/ WriteReturn
<1>0. /\ TypeOK /\ IInv /\ CalmWrite /\ Calm /\ WriteProgress /\ run.i \in Target
  BY CalmBefore DEF LInv, IInv, CalmInv, TypeOK, Invocation
<1>1. /\ run.pc \in {"publish", "rollback"} /\ run.wr # NoFile /\ run.drop = NoFile
  BY <1>0
     DEF WriteSteps, WriteOpen, WriteCreate, WriteFill, WriteGuard, WritePlace, WriteVerify,
         WriteAbort, WriteUnguard, WriteReturn, WriteRaise, Step, IInv, WriteHome
<1>2. run.wr \in Writer /\ run.tx \in Record
  BY <1>0, <1>1 DEF TypeOK, Invocation, IInv, Loaded, Opened, Publishing
<1>3. /\ run.wr.step \in {"open", "create", "fill", "guard", "place", "verify", "done"}
      /\ run.wr.step \in {"open", "create", "fill", "guard"} => Data(target[run.i]) = run.wr.exp
      /\ run.wr.step \in {"create", "fill", "guard"} =>
            run.wr.lock = IF target[run.i] = NoFile THEN NoIno ELSE target[run.i].ino
      /\ run.wr.step = "place" => target[run.i] = NoFile
      /\ run.wr.step \in {"verify", "done"} =>
            run.wr.new \in Ino /\ target[run.i] = [data |-> run.wr.val, ino |-> run.wr.new]
      /\ run.wr.step = "place" => run.wr.new \in Ino
  BY <1>0, <1>1 DEF CalmWrite, WriteProgress
<1>4. CASE WriteOpen
  BY <1>0, <1>1, <1>2, <1>3, <1>4, OpenEffect DEF Step, StepsTo, Still
<1>5. CASE WriteCreate
  BY <1>0, <1>1, <1>2, <1>3, <1>5, CreateEffect DEF Step, StepsTo
<1>6. CASE WriteFill
  BY <1>0, <1>1, <1>2, <1>3, <1>6, FillEffect DEF Step, StepsTo, Knows
<1>7. CASE WriteGuard
  <2>1. Step("guard")
    BY <1>0, <1>7, WriteGuardEffect
  <2>2. target[run.i] # NoFile => target[run.i] \in Entry
    BY <1>0 DEF TypeOK
  <2>3. IF run.wr.lock = NoIno THEN target[run.i] = NoFile ELSE StillExpected(run.i)
    BY <1>3, <2>1, <2>2, ConstantsAssumption DEF Step, StillExpected, Data, Entry
  <2>4. StepsTo("place") /\ target'[run.i] = NoFile
        /\ \A t \in Target \ {run.i} : target'[t] = target[t]
    BY <1>0, <1>7, <2>3, WriteGuardEffect DEF TypeOK
  <2>. QED BY <1>1, <1>2, <1>0, <2>4 DEF StepsTo
<1>8. CASE WritePlace
  <2>1. /\ Step("place") /\ StepsTo("verify") /\ Knows
        /\ target' = [target EXCEPT ![run.i] = [data |-> run.wr.val, ino |-> run.wr.new]]
    BY <1>0, <1>3, <1>8, PlaceEffect DEF Step
  <2>2. /\ target'[run.i] = [data |-> run.wr.val, ino |-> run.wr.new]
        /\ \A t \in Target \ {run.i} : target'[t] = target[t]
    BY <1>0, <2>1 DEF TypeOK
  <2>. QED BY <1>0, <1>1, <1>2, <1>3, <2>1, <2>2 DEF StepsTo, Knows, Step
<1>9. CASE WriteVerify
  BY <1>0, <1>1, <1>2, <1>3, <1>9, VerifyEffect DEF Step, StepsTo, Knows, Still
<1>10. CASE WriteAbort \/ WriteUnguard \/ WriteRaise
  BY <1>0, <1>3, <1>10, AbortEffect, UnguardEffect, WriteRaiseEffect DEF Step
<1>. QED BY <1>0, <1>1, <1>2, <1>4, <1>5, <1>6, <1>7, <1>8, <1>9, <1>10 DEF WriteSteps

\* A write that returns leaves its target with what it wrote.
LEMMA CalmReturn ==
  ASSUME LInv, IInv', Next, Calm', WriteReturn
  PROVE  /\ target[run.i] \in Entry /\ run.wr.new \in Ino
         /\ target[run.i] = [data |-> run.wr.val, ino |-> run.wr.new]
         /\ run.pc = "publish" => run.wr.val = run.tx.want[run.i]
         /\ run.pc = "rollback" => run.wr.val = run.tx.prior[run.i]
<1>0. /\ TypeOK /\ IInv /\ CalmWrite /\ Calm
  BY CalmBefore DEF LInv, IInv, CalmInv
<1>1. Step("done") /\ run.wr \in Writer /\ run.wr # NoFile
  BY <1>0, StepEffect DEF WriteReturn
<1>. QED BY <1>0, <1>1 DEF CalmWrite, Step, Writer, Entry

\* Without faults every write finds what it expects.
LEMMA CalmWriteStep == ASSUME LInv, IInv', Next PROVE CalmWrite'
<1>. SUFFICES ASSUME Calm', run'.wr # NoFile PROVE CalmWrite'
  BY DEF CalmWrite
<1>0. TypeOK /\ IInv /\ CalmWrite /\ Calm
  BY CalmBefore DEF LInv, IInv, CalmInv
<1>1. CASE PublishSteps \/ RollbackSteps
  <2>. USE DEF Fresh, Moves, Undoes, Loops, Backs, Tasks, NoTask, Still
  <2>1. /\ UNCHANGED target /\ run'.pc = run.pc /\ run'.i = run.i /\ run'.tx = run.tx
        /\ \/ /\ run.pc = "publish" /\ AtPrior(run.i)
              /\ run'.wr = Writing(run.tx.want[run.i], run.tx.prior[run.i])
           \/ /\ run.pc = "rollback" /\ AtWant(run.i)
              /\ run'.wr = Writing(run.tx.prior[run.i], run.tx.want[run.i])
    <3>1. CASE PublishSteps
      BY <1>0, <3>1, ValidateEffect, PublishEffect, PersistEffect, PersistPlaceEffect,
         ValidateTargetsEffect DEF PublishSteps, Starts, Context
    <3>2. CASE RollbackSteps
      BY <1>0, <3>2, RollbackEffect, RemoveEffect, RollbackRemovedEffect
         DEF RollbackSteps, Starts, Context, Published
    <3>. QED BY <1>1, <3>1, <3>2
  <2>. QED BY <2>1 DEF CalmWrite, Writing, AtPrior, AtWant
<1>2. CASE WriteSteps
  <2>1. ~WriteReturn
    BY <1>0, WriteReturnEffect DEF Fresh
  <2>2. /\ run.wr # NoFile
        /\ run.pc = "publish" => run.wr.val = run.tx.want[run.i] /\ run.wr.exp = run.tx.prior[run.i]
        /\ run.pc = "rollback" => run.wr.val = run.tx.prior[run.i] /\ run.wr.exp = run.tx.want[run.i]
    BY <1>0, <1>2, CalmWriting DEF CalmWrite
  <2>. QED BY <1>2, <2>1, <2>2, CalmWriting DEF CalmWrite, Context
<1>3. CASE DiscardSteps
  <2>1. /\ run'.wr = run.wr /\ run'.pc = run.pc /\ run'.i = run.i /\ run'.tx = run.tx
        /\ UNCHANGED target
    BY <1>0, <1>3, DiscardDebrisEffect, DiscardHuskEffect DEF DiscardSteps, Context
  <2>. QED BY <1>0, <2>1 DEF CalmWrite
<1>4. CASE CommitSteps \/ (\E want \in [Target -> Wanted] : Commit(want)) \/ Recover \/ ReadSteps
  BY <1>0, <1>4, CaptureEffect, PutIdentityEffect, PutJournalEffect, CommitEffect, ScanEffect,
     QuarantineEffect, AdmitNoJournalEffect, RestoreJournalEffect, AdmitEffect,
     CheckTargetsEffect, RecoverEffect
     DEF CommitSteps, ReadSteps, Fresh, Moves, Tasks, NoTask
<1>5. CASE ReconcileSteps
  BY <1>0, <1>5, SecondLoop, RenameEffect, GuardEffect, TemporaryEffect, ReconcileNextEffect
     DEF ReconcileSteps, Fresh, Loops, Tasks, NoTask
<1>6. CASE FinalSteps
  BY <1>0, <1>6, PutMarkerEffect, SealedEffect, TombstonesEffect, RemoveIdentityEffect,
     RemoveJournalEffect, RemoveMarkerEffect, RemovedEffect, FinishedEffect, RestoreEffect,
     RethrowEffect DEF FinalSteps, Fresh, Moves, Buries, Tasks, NoTask
<1>. QED BY <1>1, <1>2, <1>3, <1>4, <1>5, <1>6, CalmBefore DEF Next, Working

\* Nothing changes but the statement.
LEMMA CalmTargetsKept ==
  ASSUME CalmTargets, Calm, UNCHANGED <<target, journal>>,
         run'.pc \in Outside => run.pc \in Outside,
         run'.pc \notin Publishing \cup Undoing
  PROVE  CalmTargets'
BY DEF CalmTargets, Publishing, Undoing

\* Without faults a rejected publication undoes exactly what it did.
LEMMA CalmTargetsStep == ASSUME LInv, IInv', Next PROVE CalmTargets'
<1>. USE DEF Fresh, Moves, Undoes, Loops, Backs, Starts, StepsTo, Buries,
             Tasks, NoTask, Context, Still
<1>. SUFFICES ASSUME Calm' PROVE CalmTargets'
  BY DEF CalmTargets
<1>0. TypeOK /\ IInv /\ CalmTargets /\ Calm /\ run.i \in Target /\ N \in Nat /\ Target = 1..N
  BY CalmBefore, ConstantsAssumption DEF LInv, IInv, CalmInv, TypeOK, Invocation, Target
<1>f. /\ touched = {} /\ run.jc = {} /\ run.ic = {}
      /\ run.pc \in Final => AllPublished
      /\ run.pc # "restore"
      /\ run.pc \notin Sealing => marker = NoFile
      /\ run.purge = NoFile /\ run.pc # "persistPlace" => husks = {}
      /\ run.pc \in {"afterMarker", "strays", "capture"} => journal = NoFile
  BY <1>0, CalmFacts DEF LInv, Sidecar, Gone
<1>l. run.pc \in Opened => run.tx = journal /\ journal # NoFile /\ run.tx \in Record
  BY <1>0 DEF IInv, Loaded, TypeOK
<1>1. CASE CommitSteps \/ \E want \in [Target -> Wanted] : Commit(want)
  <2>1. CASE PutJournal
    <3>1. /\ run.pc = "putJournal" /\ run'.pc = "scan" /\ journal' = run.tx /\ UNCHANGED target
          /\ \A t \in Target : run.tx.prior[t] = Data(target[t])
      BY <1>0, <1>f, <2>1, PutJournalEffect DEF IInv, Prepared, Preparing
    <3>. QED BY <3>1 DEF CalmTargets, Outside, Publishing, Undoing
  <2>2. CASE ~PutJournal
    BY <1>0, <1>f, <1>1, <2>2, CaptureEffect, PutIdentityEffect, CommitEffect, CalmTargetsKept
       DEF CommitSteps, Outside, Publishing, Undoing, CalmTargets
  <2>. QED BY <2>1, <2>2
<1>2. CASE ReadSteps \/ Recover
  BY <1>0, <1>f, <1>2, ScanEffect, QuarantineEffect, AdmitNoJournalEffect, RestoreJournalEffect,
     AdmitEffect, CheckTargetsEffect, RecoverEffect, CalmTargetsKept
     DEF ReadSteps, Outside, Publishing, Undoing
<1>3. CASE ReconcileSteps
  <2>1. CASE run.pc = "reconcile1"
    <3>1. /\ run'.pc \in {"idle", "thrown", "reconcile1", "check"}
          /\ UNCHANGED journal
      BY <1>0, <1>3, <2>1, SecondLoop, RenameEffect, GuardEffect, TemporaryEffect,
         ReconcileNextEffect DEF ReconcileSteps
    <3>2. UNCHANGED target
      <4>1. CASE ReconcileGuard
        <5>1. Data(target[run.i]) = run.tx.prior[run.i]
          BY <1>0, <1>l, <2>1 DEF CalmTargets, Outside, Opened
        <5>. QED BY <1>0, <2>1, <4>1, <5>1, GuardEffect DEF Data
      <4>. QED BY <1>0, <1>3, <2>1, <4>1, SecondLoop, RenameEffect, TemporaryEffect,
             ReconcileNextEffect DEF ReconcileSteps
    <3>. QED BY <1>0, <2>1, <3>1, <3>2, CalmTargetsKept DEF Outside, Publishing, Undoing
  <2>2. CASE run.pc = "reconcile2"
    <3>1. /\ run'.pc \in {"reconcile2", "validate2"} /\ run'.wr = NoFile /\ run.wr = NoFile
          /\ UNCHANGED target /\ run'.tx = run.tx /\ run'.pub = run.pub
      BY <1>0, <1>3, <2>2, SecondLoop, ReconcileNextEffect
    <3>. QED BY <1>0, <2>2, <3>1
             DEF CalmTargets, Outside, Publishing, Undoing, AtPrior, Published, AtWant
  <2>. QED BY <1>3, <2>1, <2>2, SecondLoop
<1>4. CASE PublishSteps
  <2>1. CASE run.pc = "validate1"
    <3>1. \/ run'.pc = "idle" /\ UNCHANGED <<target, journal>>
          \/ /\ run'.pc = "publish" /\ UNCHANGED target /\ run'.tx = run.tx
      BY <1>0, <1>4, <2>1, ValidateEffect, PublishEffect, PersistEffect, PersistPlaceEffect,
         ValidateTargetsEffect DEF PublishSteps
    <3>2. \A t \in Target : AtPrior(t)
      BY <1>0, <1>l, <2>1 DEF CalmTargets, Outside, Opened, AtPrior
    <3>. QED BY <1>0, <2>1, <3>1, <3>2, CalmTargetsKept
             DEF CalmTargets, Outside, Publishing, Undoing, AtPrior
  <2>2. CASE run.pc # "validate1"
    <3>1. /\ run.pc \in Publishing /\ run.wr = NoFile /\ UNCHANGED target
          /\ run'.tx = run.tx /\ run'.pub = run.pub
          /\ \/ run'.pc \in Publishing \cup {"mark"}
             \/ run'.pc = "rollback" /\ run'.i = N
      BY <1>0, <1>4, <2>2, ValidateEffect, PublishEffect, PersistEffect, PersistPlaceEffect,
         ValidateTargetsEffect DEF PublishSteps, Publishing
    <3>2. \A t \in Target : AtPrior(t) \/ Published(t)
      BY <1>0, <3>1 DEF CalmTargets
    <3>. QED BY <1>0, <3>1, <3>2
             DEF CalmTargets, Outside, Publishing, Undoing, AtPrior, Published, AtWant
  <2>. QED BY <2>1, <2>2
<1>5. CASE WriteSteps
  <2>1. CASE WriteReturn
    <3>1. /\ target[run.i] = [data |-> run.wr.val, ino |-> run.wr.new]
          /\ target[run.i] # NoFile /\ run.wr.new # NoIno
          /\ run.pc = "publish" => run.wr.val = run.tx.want[run.i]
          /\ run.pc = "rollback" => run.wr.val = run.tx.prior[run.i]
      BY <2>1, CalmReturn, ConstantsAssumption, NoFileAssumption
    <3>2. /\ run.pc \in {"publish", "rollback"} /\ run.pub \in Inodes
          /\ \A t \in Target \ {run.i} : AtPrior(t) \/ Published(t)
          /\ run.pc = "rollback" => \A t \in Target : t > run.i => AtPrior(t)
      BY <1>0, <1>5, CalmWriting DEF CalmTargets, Publishing, Undoing, TypeOK, Invocation
    <3>3. CASE run.pc = "publish"
      <4>1. /\ run'.pc = "persist" /\ run'.pub = [run.pub EXCEPT ![run.i] = run.wr.new]
            /\ run'.tx = run.tx /\ UNCHANGED target
        BY <1>0, <2>1, <3>3, WriteReturnEffect
      <4>2. \A t \in Target \ {run.i} : run'.pub[t] = run.pub[t]
        BY <3>2, <4>1 DEF Inodes
      <4>3. run'.pub[run.i] = run.wr.new
        BY <1>0, <3>2, <4>1 DEF Inodes
      <4>4. Published(run.i)' \/ run'.i # run.i
        BY <3>1, <3>3, <4>1, <4>3 DEF Published, AtWant, Data
      <4>5. \A t \in Target : AtPrior(t)' \/ Published(t)'
        <5>1. run'.i = run.i
          BY <1>0, <2>1, <3>3, WriteReturnEffect
        <5>. QED BY <1>0, <3>2, <4>1, <4>2, <4>4, <5>1 DEF AtPrior, Published, AtWant
      <4>. QED BY <4>1, <4>5 DEF CalmTargets, Outside, Undoing
    <3>4. CASE run.pc = "rollback"
      <4>1. AtPrior(run.i)
        BY <3>1, <3>4 DEF AtPrior, Data
      <4>2. \/ run.i = 1 /\ run'.pc = "idle" /\ UNCHANGED <<target, journal>>
            \/ /\ run'.pc = "rollback" /\ run'.i = run.i - 1 /\ UNCHANGED target
               /\ run'.tx = run.tx /\ run'.pub = run.pub
        BY <1>0, <2>1, <3>4, WriteReturnEffect
      <4>3. \A t \in Target : t > run.i - 1 => AtPrior(t)
        BY <1>0, <3>2, <3>4, <4>1
      <4>4. CASE run.i = 1 /\ run'.pc = "idle" /\ UNCHANGED <<target, journal>>
        <5>1. \A t \in Target : Data(target[t]) = journal.prior[t]
          BY <1>0, <1>l, <3>4, <4>3, <4>4 DEF AtPrior, Opened
        <5>. QED BY <4>4, <5>1 DEF CalmTargets, Publishing, Undoing
      <4>5. CASE /\ run'.pc = "rollback" /\ run'.i = run.i - 1 /\ UNCHANGED target
                 /\ run'.tx = run.tx /\ run'.pub = run.pub
        <5>1. \A t \in Target : AtPrior(t) \/ Published(t)
          BY <3>2, <4>1
        <5>. QED BY <4>3, <4>5, <5>1 DEF CalmTargets, Outside, AtPrior, Published, AtWant
      <4>. QED BY <4>2, <4>4, <4>5
    <3>. QED BY <3>2, <3>3, <3>4
  <2>2. CASE ~WriteReturn
    <3>1. /\ run.pc \in {"publish", "rollback"} /\ run'.pc = run.pc /\ run'.i = run.i
          /\ run'.wr # NoFile /\ run.wr # NoFile /\ run'.tx = run.tx /\ run'.pub = run.pub
          /\ \A t \in Target \ {run.i} : target'[t] = target[t]
      BY <1>5, <2>2, CalmWriting
    <3>. QED BY <1>0, <3>1
             DEF CalmTargets, Outside, Publishing, Undoing, AtPrior, Published, AtWant
  <2>. QED BY <2>1, <2>2
<1>6. CASE RollbackSteps
  <2>1. /\ run.pc \in Undoing /\ run.wr = NoFile
        /\ \A t \in Target : AtPrior(t) \/ Published(t)
        /\ \A t \in Target : t > run.i => AtPrior(t)
        /\ run.pc = "remove" => Published(run.i)
        /\ run.pc = "removed" => AtPrior(run.i)
    <3>1. run.pc \in Undoing /\ run.wr = NoFile
      BY <1>6 DEF RollbackSteps, Rollback, RollbackRemove, RollbackRemoved, At, Undoing
    <3>. QED BY <1>0, <3>1 DEF CalmTargets
  <2>. DEFINE back == Backs \/ (run.i = 1 /\ Fresh("idle"))
  <2>2. ASSUME back, AtPrior(run.i), UNCHANGED <<target, journal>>
        PROVE  CalmTargets'
    <3>1. \A t \in Target : t > run.i - 1 => AtPrior(t)
      BY <1>0, <2>1, <2>2
    <3>2. CASE run.i = 1 /\ Fresh("idle")
      <4>1. \A t \in Target : Data(target[t]) = journal.prior[t]
        BY <1>0, <1>l, <2>1, <3>1, <3>2 DEF AtPrior, Opened, Undoing
      <4>. QED BY <2>2, <3>2, <4>1 DEF CalmTargets, Publishing, Undoing
    <3>3. CASE Backs
      BY <2>1, <2>2, <3>1, <3>3 DEF CalmTargets, Outside, AtPrior, Published, AtWant
    <3>. QED BY <2>2, <3>2, <3>3
  <2>3. CASE Rollback
    <3>1. CASE AtPrior(run.i) \/ ~Published(run.i)
      BY <1>0, <2>1, <2>2, <2>3, <3>1, RollbackEffect
    <3>2. CASE ~(AtPrior(run.i) \/ ~Published(run.i))
      <4>1. /\ run'.pc \in {"remove", "rollback"} /\ run'.i = run.i /\ UNCHANGED target
            /\ run'.tx = run.tx /\ run'.pub = run.pub
        BY <1>0, <2>3, <3>2, RollbackEffect
      <4>. QED BY <2>1, <3>2, <4>1
               DEF CalmTargets, Outside, Publishing, Undoing, AtPrior, Published, AtWant
    <3>. QED BY <3>1, <3>2
  <2>4. CASE RollbackRemove
    <3>1. run.pc = "remove" /\ run.tx.prior[run.i] = NoFile /\ run.tx \in Record
      BY <1>0, <1>l, <2>4, RemoveEffect DEF LInv, Vacancy, FreshRemove, Opened
    <3>2. target[run.i] # NoFile /\ AtWant(run.i)
      BY <1>0, <2>1, <3>1, ConstantsAssumption DEF Published, AtWant, Data, Record
    <3>3. /\ target' = [target EXCEPT ![run.i] = NoFile]
          /\ run'.pc = "removed" /\ run'.i = run.i /\ Context
      BY <1>0, <2>4, <3>2, RemoveEffect
    <3>4. target'[run.i] = NoFile /\ \A t \in Target \ {run.i} : target'[t] = target[t]
      BY <1>0, <3>3 DEF TypeOK
    <3>5. AtPrior(run.i)'
      BY <3>1, <3>3, <3>4 DEF AtPrior, Data
    <3>6. \A t \in Target \ {run.i} : /\ AtPrior(t) => AtPrior(t)'
                                      /\ Published(t) => Published(t)'
      BY <3>3, <3>4 DEF AtPrior, Published, AtWant
    <3>. QED BY <1>0, <2>1, <3>3, <3>5, <3>6 DEF CalmTargets, Outside
  <2>5. CASE RollbackRemoved
    BY <1>0, <2>1, <2>2, <2>5, RollbackRemovedEffect
  <2>. QED BY <1>6, <2>3, <2>4, <2>5 DEF RollbackSteps
<1>7. CASE FinalSteps
  BY <1>0, <1>f, <1>7, PutMarkerEffect, SealedEffect, TombstonesEffect, RemoveIdentityEffect,
     RemoveJournalEffect, RemoveMarkerEffect, RemovedEffect, FinishedEffect, RestoreEffect,
     RethrowEffect, CalmTargetsKept
     DEF FinalSteps, Outside, Publishing, Undoing, Final, Sealing, CalmTargets,
         JournalCandidates, IdentityCandidates
<1>8. CASE DiscardSteps
  <2>1. /\ run'.wr = run.wr /\ run'.pc = run.pc /\ run'.i = run.i /\ run'.tx = run.tx
        /\ run'.pub = run.pub /\ UNCHANGED <<target, journal>>
    BY <1>0, <1>8, DiscardDebrisEffect, DiscardHuskEffect DEF DiscardSteps
  <2>. QED BY <1>0, <2>1 DEF CalmTargets, AtPrior, Published, AtWant
<1>. QED BY <1>1, <1>2, <1>3, <1>4, <1>5, <1>6, <1>7, <1>8, CalmBefore DEF Next, Working

-------------------------------------------------------------------------------
\* The whole

\* The longer invariant holds in the beginning.
LEMMA LInvInit == ASSUME Init PROVE LInv
<1>0. IInv /\ TypeOK
  BY InvInit DEF IInv
<1>1. /\ run.pc = "idle" /\ run.wr = NoFile /\ run.drop = NoFile /\ run.purge = NoFile
      /\ run.jc = {} /\ run.ic = {} /\ husks = {} /\ journal = NoFile /\ marker = NoFile
      /\ begun = NoFile /\ touched = {}
  BY DEF Init, Idle
<1>2. \A t \in Target : Bare(t)
  BY DEF Init, Bare
<1>3. Cleared
  BY <1>0, <1>1, <1>2, NoArtifacts
     DEF Cleared, NoOrphanArtifact, Exposed, Swept, Clear, Opened, Closed, Publishing
<1>4. OneTask /\ Counted /\ Vacancy
  BY <1>1 DEF OneTask, Counted, Vacancy, VacantHasGuard, SafeDrop, FreshRemove
<1>5. SealedInv
  BY <1>1 DEF SealedInv, MarkerSealed, FinalPublished, Final, Sealing, Unmarked, Preparing, Intact
<1>6. Sidecar
  BY <1>1 DEF Sidecar, JournalOwned, Bound, Checking, Publishing, GuardLast, Gone
<1>7. CalmInv
  BY <1>1 DEF CalmInv, CalmEvidence, CalmTargets, CalmWrite, Outside, Publishing, Undoing
<1>. QED BY <1>0, <1>3, <1>4, <1>5, <1>6, <1>7 DEF LInv

\* Every step keeps it.
LEMMA LInvStep == ASSUME LInv, [Next]_vars PROVE LInv'
<1>0. IInv'
  BY InvStep DEF LInv
<1>1. CASE Next
  <2>1. CalmInv'
    BY <1>0, <1>1, CalmEvidenceStep, CalmTargetsStep, CalmWriteStep DEF CalmInv
  <2>. QED BY <1>0, <1>1, <2>1, OneTaskStep, CountedStep, VacancyStep, ClearedStep,
         SealedInvStep, SidecarStep DEF LInv
<1>2. CASE UNCHANGED vars
  <2>. USE <1>2 DEF vars, files, evidence, history
  <2>1. OneTask' /\ Counted' /\ Vacancy'
    BY DEF LInv, OneTask, Counted, Vacancy, VacantHasGuard, SafeDrop, FreshRemove
  <2>2. Cleared'
    BY DEF LInv, Cleared, NoOrphanArtifact, Artifacts, Exposed, Swept, Bare, Clear, InUseBy
  <2>3. SealedInv'
    BY DEF LInv, SealedInv, MarkerSealed, FinalPublished, Published, AtWant, Unmarked, Intact,
           AllPublished
  <2>4. Sidecar'
    BY DEF LInv, Sidecar, JournalOwned, Bound, GuardLast, Gone
  <2>5. CalmInv'
    BY DEF LInv, CalmInv, Calm, CalmEvidence, CalmTargets, CalmWrite, AtPrior, Published, AtWant
  <2>. QED BY <1>0, <2>1, <2>2, <2>3, <2>4, <2>5 DEF LInv
<1>. QED BY <1>1, <1>2

\* The artifacts, the marker, the sidecar and the targets agree at every statement of every
\* invocation, whatever fails.
THEOREM LifecycleInvariance == Spec => []LInv
<1>1. Init => LInv
  BY LInvInit
<1>2. LInv /\ [Next]_vars => LInv'
  BY LInvStep
<1>. QED BY <1>1, <1>2, PTL DEF Spec

\* In the middle of a write, a rollback or a crash too, the name of an existing target is
\* vacant only while its bytes are in the guard.
THEOREM NothingLost == Spec => []VacantHasGuard
<1>1. LInv => VacantHasGuard
  BY DEF LInv, Vacancy
<1>. QED BY <1>1, LifecycleInvariance, PTL

\* A marker stands for targets that are published in the inodes it records, unless
\* somebody else interferes.
THEOREM MarkerTrue == Spec => []MarkerSealed
<1>1. LInv => MarkerSealed
  BY DEF LInv, SealedInv
<1>. QED BY <1>1, LifecycleInvariance, PTL

\* No artifact of a target outlives the journal whose id its name carries.
THEOREM ArtifactsRemoved == Spec => []NoOrphanArtifact
<1>1. LInv => NoOrphanArtifact
  BY DEF LInv, Cleared
<1>. QED BY <1>1, LifecycleInvariance, PTL

\* A live journal has its sidecar, the sidecar's guard or the marker, unless a foreign
\* write made the finalization put evidence back.
THEOREM JournalNotAlone == Spec => []JournalOwned
<1>1. LInv => JournalOwned
  BY DEF LInv, Sidecar
<1>. QED BY <1>1, LifecycleInvariance, PTL

\* An invocation that fails without a crash or a foreign write leaves every target as it
\* was, whatever the validation rejected and when.
THEOREM RejectionUndone == Spec => []CleanFailure
<1>1. LInv => CleanFailure
  BY DEF LInv, CalmInv, CalmTargets, Calm, Outside, CleanFailure
<1>. QED BY <1>1, LifecycleInvariance, PTL

\* Under a marker nobody interfered with, no step writes a target: the publication loop
\* that recovery runs again there finds everything published.
THEOREM MarkerFreezes == Spec => [][marker # NoFile /\ ~tampered' => UNCHANGED target]_vars
<1>1. ASSUME LInv, LInv', [Next]_vars, marker # NoFile, ~tampered'
      PROVE  UNCHANGED target
  <2>1. CASE UNCHANGED vars
    BY <2>1 DEF vars, files
  <2>2. CASE Next /\ marker' # NoFile
    BY <1>1, <2>2, MarkerKept DEF LInv
  <2>3. CASE Next /\ marker' = NoFile
    <3>1. RemoveMarker
      BY <1>1, <2>3
         DEF Next, Working, Commit, Recover, Crash, External, CommitSteps, Capture, PutIdentity,
           PutJournal, ReadSteps, Scan, Quarantine, AdmitNoJournal, RestoreJournal, Admit,
           CheckTargets, ReconcileSteps, ReconcileRename, ReconcileGuard, ReconcileTemporary,
           ReconcileNext, PublishSteps, Validate, Publish, Persist, PersistPlace,
           ValidateTargets, WriteSteps, WriteOpen, WriteCreate, WriteFill, WriteGuard,
           WritePlace, WriteVerify, WriteAbort, WriteUnguard, WriteReturn, WriteRaise,
           RollbackSteps, Rollback, RollbackRemove, RollbackRemoved, FinalSteps, PutMarker,
           Sealed, DiscardTombstones, RemoveIdentity, Removed, RemoveJournal, Finished,
           RestoreEvidence, Rethrow, DiscardSteps, DiscardDebris, DiscardHusk, evidence
    <3>. QED BY <3>1 DEF RemoveMarker, files
  <2>. QED BY <1>1, <2>1, <2>2, <2>3
<1>2. LInv /\ LInv' /\ [Next]_vars => [marker # NoFile /\ ~tampered' => UNCHANGED target]_vars
  BY <1>1
<1>. QED BY <1>2, LifecycleInvariance, PTL DEF Spec

\* The reconciliation after the publication never finds an artifact: every write has
\* discarded its own.
THEOREM SecondPassIdle == Spec => [](At("reconcile2") => Artifacts = {})
<1>1. LInv => (At("reconcile2") => Artifacts = {})
  BY NoArtifacts, ClearBare DEF LInv, IInv, Cleared, Opened, Publishing, At
<1>. QED BY <1>1, LifecycleInvariance, PTL
===============================================================================
