----------------------- MODULE RolloutTransactionProofs -----------------------
(***************************************************************************)
(* Proofs about RolloutTransaction for any number of targets, any contents *)
(* and any number of crashes, foreign writes and validation failures.      *)
(***************************************************************************)
EXTENDS RolloutInvariant, TLAPS

-------------------------------------------------------------------------------
\* The memory of an invocation

\* An idle memory is well typed.
LEMMA IdleType == Idle \in Invocation
BY ConstantsAssumption DEF Idle, Invocation, Statements, NoPub, Inodes, Target

\* Moving to another statement keeps everything else in memory.
LEMMA GoFields ==
  ASSUME run \in Invocation, NEW l \in Statements, Go(l)
  PROVE  /\ run' \in Invocation /\ run'.pc = l
         /\ run'.tx = run.tx /\ run'.ask = run.ask /\ run'.op = run.op /\ run'.i = run.i
         /\ run'.wr = run.wr /\ run'.drop = run.drop
         /\ run'.jc = run.jc /\ run'.ic = run.ic /\ run'.purge = run.purge
BY DEF Go, Invocation

\* So does an exception inside the publication, but for the write it ends.
LEMMA ThrownFields ==
  ASSUME run \in Invocation
  PROVE  /\ Thrown \in Invocation /\ Thrown.wr = NoFile
         /\ Thrown = Idle \/ ( /\ run.pc \in Publishing /\ Thrown.pc = "rollback"
                               /\ Thrown.tx = run.tx /\ Thrown.ask = run.ask
                               /\ Thrown.op = run.op /\ Thrown.drop = run.drop
                               /\ Thrown.jc = run.jc /\ Thrown.ic = run.ic
                               /\ Thrown.purge = run.purge )
<1>1. CASE run.pc \in Publishing
  <2>1. N \in Target /\ "rollback" \in Statements
    BY ConstantsAssumption DEF Target, Statements
  <2>. QED BY <1>1, <2>1 DEF Thrown, Invocation
<1>2. CASE run.pc \notin Publishing
  BY <1>2, IdleType DEF Thrown, Idle
<1>. QED BY <1>1, <1>2

\* The loops over the targets stay within the targets.
LEMMA AdvanceFields ==
  ASSUME NEW r \in Invocation, NEW l \in Statements
  PROVE  /\ Advance(r, l) \in Invocation /\ Advance(r, l).pc \in {r.pc, l}
         /\ Advance(r, l).tx = r.tx /\ Advance(r, l).ask = r.ask
         /\ Advance(r, l).op = r.op /\ Advance(r, l).wr = r.wr
         /\ Advance(r, l).drop = r.drop /\ Advance(r, l).purge = r.purge
         /\ Advance(r, l).jc = r.jc /\ Advance(r, l).ic = r.ic
<1>1. r.i \in 1..N /\ N \in Nat \ {0}
  BY ConstantsAssumption DEF Invocation, Target
<1>2. 1 \in Target /\ (r.i < N => r.i + 1 \in Target)
  BY <1>1 DEF Target
<1>3. CASE r.i < N
  BY <1>2, <1>3 DEF Advance, Invocation
<1>4. CASE ~(r.i < N)
  BY <1>2, <1>4 DEF Advance, Invocation
<1>. QED BY <1>3, <1>4

\* The rollback's loop goes down to the first target and ends the invocation.
LEMMA RollbackFields ==
  ASSUME NEW r \in Invocation, r.pc \in {"rollback", "remove", "removed"}
  PROVE  /\ RollbackNext(r) \in Invocation
         /\ RollbackNext(r) = Idle \/ ( /\ RollbackNext(r).pc = "rollback"
                                        /\ RollbackNext(r).tx = r.tx
                                        /\ RollbackNext(r).ask = r.ask
                                        /\ RollbackNext(r).op = r.op
                                        /\ RollbackNext(r).wr = r.wr
                                        /\ RollbackNext(r).jc = r.jc
                                        /\ RollbackNext(r).ic = r.ic
                                        /\ RollbackNext(r).purge = r.purge )
<1>1. r.i \in 1..N /\ N \in Nat \ {0}
  BY ConstantsAssumption DEF Invocation, Target
<1>2. r.i > 1 => r.i - 1 \in Target
  BY <1>1 DEF Target
<1>3. CASE r.i > 1
  BY <1>2, <1>3, ZenonT(40) DEF RollbackNext, Invocation, Statements
<1>4. CASE ~(r.i > 1)
  BY <1>4, IdleType DEF RollbackNext
<1>. QED BY <1>3, <1>4

-------------------------------------------------------------------------------
\* Types

\* A step in memory keeps the files' types.
LEMMA TypeInMemory ==
  ASSUME TypeOK, run' \in Invocation, UNCHANGED <<files, evidence, history>>
  PROVE  TypeOK'
BY DEF TypeOK, files, evidence, history

\* The statements a step goes to.
LEMMA Labels ==
  /\ "idle" \in Statements /\ Publishing \subseteq Statements
  /\ Opened \subseteq Statements /\ Closed \subseteq Statements
BY DEF Statements, Publishing, Opened, Closed

\* What the guards of an invocation's statements read.
LEMMA Candidates ==
  ASSUME TypeOK
  PROVE  /\ JournalCandidates \subseteq husks /\ JournalCandidates \subseteq Husk
         /\ IdentityCandidates \subseteq husks /\ IdentityCandidates \subseteq Husk
         /\ \A h \in IdentityCandidates : h.kind # "journalTomb" /\ h.val \in Inodes
         /\ \A h \in JournalCandidates : h.kind = "journalTomb" /\ h.record \in Record
BY DEF TypeOK, JournalCandidates, IdentityCandidates, Husk

\* Reading the evidence notes its tombstones and, at the end, the journal.
LEMMA NotedFields ==
  ASSUME run \in Invocation, NEW l \in Statements,
         NEW js \in SUBSET Husk, NEW ids \in SUBSET Husk
  PROVE  /\ [run EXCEPT !.pc = l, !.ic = ids] \in Invocation
         /\ [run EXCEPT !.pc = l, !.jc = js, !.ic = ids] \in Invocation
         /\ \A p \in Inodes, tx \in Record \cup {NoFile}, i \in Target :
              [run EXCEPT !.pc = l, !.i = i, !.tx = tx, !.pub = p, !.ic = ids, !.jc = js]
                \in Invocation
<1>1. ASSUME NEW s, s.pc \in Statements, s.op \in {"recover", "precommit"},
             s.ask \in [Target -> Content] \cup {NoFile},
             s.tx \in Record \cup {NoFile}, s.pub \in Inodes,
             s.jc \in SUBSET Husk, s.ic \in SUBSET Husk, s.i \in Target,
             s.wr \in Writer \cup {NoFile},
             s.drop \in (Target \X TKind) \cup {NoFile}, s.purge \in Husk \cup {NoFile},
             s = [pc |-> s.pc, op |-> s.op, ask |-> s.ask, tx |-> s.tx, pub |-> s.pub,
                  jc |-> s.jc, ic |-> s.ic, i |-> s.i, wr |-> s.wr, drop |-> s.drop,
                  purge |-> s.purge]
      PROVE  s \in Invocation
  BY <1>1 DEF Invocation
<1>2. [run EXCEPT !.pc = l, !.ic = ids] \in Invocation
  BY <1>1 DEF Invocation
<1>3. [run EXCEPT !.pc = l, !.jc = js, !.ic = ids] \in Invocation
  BY <1>1 DEF Invocation
<1>4. ASSUME NEW p \in Inodes, NEW tx \in Record \cup {NoFile}, NEW i \in Target
      PROVE  [run EXCEPT !.pc = l, !.i = i, !.tx = tx, !.pub = p, !.ic = ids, !.jc = js]
               \in Invocation
  BY <1>1 DEF Invocation
<1>. QED BY <1>2, <1>3, <1>4

\* Statements of commit keep the types.
LEMMA TypeCommit ==
  ASSUME IInv, CommitSteps \/ \E want \in [Target -> Wanted] : Commit(want)
  PROVE  TypeOK'
<1>. USE DEF IInv
<1>1. ASSUME NEW want \in [Target -> Wanted], Commit(want)
      PROVE  TypeOK'
  <2>1. want \in [Target -> Content]
    BY ConstantsAssumption
  <2>2. run' \in Invocation
    <3>1. PICK l \in {"scan", "capture"} :
            run' = [Idle EXCEPT !.pc = l, !.op = "precommit", !.ask = want]
      BY <1>1 DEF Commit
    <3>. QED BY <3>1, <2>1, IdleType, ZenonT(40) DEF Invocation, Statements
  <2>3. faults.commit \in Nat /\ faults' = [faults EXCEPT !.commit = @ + 1]
    BY <1>1 DEF Commit, TypeOK
  <2>4. faults' \in [{"commit", "crash", "external", "invalid"} -> Nat]
    BY <2>3 DEF TypeOK
  <2>. QED BY <1>1, <2>2, <2>4 DEF TypeOK, Commit, files, evidence
<1>2. CASE Capture
  <2>. DEFINE tx == [prior |-> [t \in Target |-> Data(target[t])], want |-> run.ask]
  <2>1. CASE run' = Idle /\ UNCHANGED <<begun, touched, tampered>>
    BY <1>2, <2>1, IdleType DEF TypeOK, Capture, files, evidence
  <2>2. CASE /\ run' = [Idle EXCEPT !.pc = "putIdentity", !.tx = tx]
             /\ begun' = NoFile /\ touched' = {} /\ tampered' = FALSE
    <3>1. \A t \in Target : Data(target[t]) \in Content \cup {NoFile}
      BY DEF TypeOK, Entry, Data
    <3>2. run.ask \in [Target -> Content]
      BY <1>2 DEF Capture, At, Asked, TypeOK, Invocation
    <3>3. tx \in Record
      BY <3>1, <3>2 DEF Record
    <3>4. run' \in Invocation
      BY <2>2, <3>3, IdleType, ZenonT(40) DEF Invocation, Statements
    <3>. QED BY <1>2, <2>2, <3>4 DEF TypeOK, Capture, files, evidence
  <2>. QED BY <1>2, <2>1, <2>2 DEF Capture
<1>3. CASE PutIdentity
  <2>1. NoPub \in Inodes
    BY DEF NoPub, Inodes
  <2>2. run' \in Invocation
    BY <1>3, GoFields DEF PutIdentity, TypeOK, Statements
  <2>. QED BY <1>3, <2>1, <2>2 DEF TypeOK, PutIdentity, files, history
<1>4. CASE PutJournal
  <2>1. run.tx \in Record
    BY <1>4 DEF PutJournal, At, Prepared, Preparing, TypeOK, Invocation
  <2>2. run' \in Invocation
    BY <1>4, IdleType DEF PutJournal, Invocation, Statements
  <2>. QED BY <1>4, <2>1, <2>2 DEF TypeOK, PutJournal, files
<1>. QED BY <1>1, <1>2, <1>3, <1>4 DEF CommitSteps

\* Reading the evidence keeps the types.
LEMMA TypeRead ==
  ASSUME IInv, ReadSteps \/ Recover
  PROVE  TypeOK'
<1>. USE DEF IInv
<1>0. run \in Invocation /\ Thrown \in Invocation
  BY ThrownFields DEF TypeOK
<1>1. CASE Scan
  <2>1. run' \in Invocation
    <3>1. CASE run' = Thrown
      BY <3>1, <1>0
    <3>2. CASE run' = [run EXCEPT !.pc = "quarantine", !.jc = JournalCandidates,
                                  !.ic = IdentityCandidates]
      <4>1. JournalCandidates \in SUBSET Husk /\ IdentityCandidates \in SUBSET Husk
        BY Candidates
      <4>. QED BY <3>2, <4>1, <1>0, NotedFields DEF Statements
    <3>. QED BY <1>1, <3>1, <3>2 DEF Scan, Throw
  <2>2. identity' \in Inodes \cup {NoFile}
    BY <1>1, Candidates DEF Scan, TypeOK
  <2>. QED BY <1>1, <2>1, <2>2 DEF Scan, TypeOK, files, history
<1>2. CASE Quarantine
  <2>1. CASE run' = Thrown /\ UNCHANGED <<debris, husks>>
    BY <1>2, <2>1, <1>0 DEF Quarantine, TypeOK, history
  <2>2. CASE /\ debris' = [t \in Target |-> [k \in TKind |->
                             LET a == debris[t][k] IN
                             IF a = NoFile \/ a.at = "hollow" THEN NoFile ELSE Surface(a)]]
             /\ husks' = {Surface(h) : h \in {g \in husks : g.at # "hollow"}}
             /\ Go("admit")
    <3>1. run' \in Invocation
      BY <2>2, <1>0, GoFields DEF Statements
    <3>2. \A a \in Artifact : Surface(a) \in Artifact
      BY DEF Artifact, Surface, Place
    <3>3. debris' \in [Target -> [TKind -> Artifact \cup {NoFile}]]
      <4>1. ASSUME NEW t \in Target, NEW k \in TKind
            PROVE  (IF debris[t][k] = NoFile \/ debris[t][k].at = "hollow"
                      THEN NoFile ELSE Surface(debris[t][k])) \in Artifact \cup {NoFile}
        BY <3>2 DEF TypeOK
      <4>. QED BY <2>2, <4>1
    <3>4. \A h \in Husk : Surface(h) \in Husk
      BY DEF Husk, Surface, Place
    <3>. QED BY <1>2, <2>2, <3>1, <3>3, <3>4 DEF Quarantine, TypeOK, history
  <2>. QED BY <1>2, <2>1, <2>2 DEF Quarantine, Throw
<1>3. CASE AdmitNoJournal
  <2>1. run' \in Invocation
    <3>1. CASE run' = Thrown
      BY <3>1, <1>0
    <3>2. CASE run' = [run EXCEPT !.pc = "strays",
                                  !.ic = IF @ = {} THEN {} ELSE IdentityCandidates]
      <4>1. (IF run.ic = {} THEN {} ELSE IdentityCandidates) \in SUBSET Husk
        BY Candidates
      <4>. QED BY <3>2, <4>1, <1>0, NotedFields DEF Statements
    <3>. QED BY <1>3, <3>1, <3>2 DEF AdmitNoJournal, Throw
  <2>. QED BY <1>3, <2>1, TypeInMemory DEF AdmitNoJournal
<1>4. CASE RestoreJournal
  <2>1. CASE run' = Thrown /\ UNCHANGED journal
    BY <1>4, <2>1, <1>0 DEF RestoreJournal, TypeOK, files, history
  <2>2. CASE /\ \E h \in JournalCandidates : journal' = h.record
             /\ run' = [run EXCEPT !.jc = JournalCandidates]
    <3>1. run' \in Invocation
      BY <2>2, <1>0, Candidates DEF Invocation
    <3>. QED BY <1>4, <2>2, <3>1, Candidates DEF RestoreJournal, TypeOK, files, history
  <2>. QED BY <1>4, <2>1, <2>2 DEF RestoreJournal, Throw
<1>5. CASE Admit
  <2>1. run' \in Invocation
    <3>1. CASE run' = Thrown
      BY <3>1, <1>0
    <3>2. ASSUME NEW p \in Inodes, NEW ic \in SUBSET Husk, NEW jc \in SUBSET Husk,
                 run' = [run EXCEPT !.pc = "reconcile1", !.i = 1, !.tx = journal,
                                    !.pub = p, !.ic = ic, !.jc = jc]
          PROVE  run' \in Invocation
      <4>1. 1 \in Target
        BY ConstantsAssumption DEF Target
      <4>2. journal \in Record \cup {NoFile}
        BY DEF TypeOK
      <4>. QED BY <3>2, <4>1, <4>2, <1>0, NotedFields DEF Statements
    <3>. DEFINE ids == IF run.ic = {} THEN {} ELSE IdentityCandidates
                js  == IF run.jc = {} THEN {} ELSE JournalCandidates
                pub == IF marker # NoFile THEN marker ELSE identity
    <3>3. ids \in SUBSET Husk /\ js \in SUBSET Husk
      BY Candidates
    <3>4. \/ run' = Thrown
          \/ /\ run' = [run EXCEPT !.pc = "reconcile1", !.i = 1, !.tx = journal,
                                   !.pub = pub, !.ic = ids, !.jc = js]
             /\ ~(identity = NoFile /\ marker = NoFile)
      BY <1>5 DEF Admit, Throw
    <3>5. ~(identity = NoFile /\ marker = NoFile) => pub \in Inodes
      BY DEF TypeOK
    <3>. HIDE DEF ids, js, pub
    <3>. QED BY <3>1, <3>2, <3>3, <3>4, <3>5
  <2>. QED BY <1>5, <2>1, TypeInMemory DEF Admit
<1>6. CASE CheckTargets
  <2>1. run' \in Invocation
    BY <1>6, <1>0, GoFields DEF CheckTargets, Throw, Statements
  <2>. QED BY <1>6, <2>1, TypeInMemory DEF CheckTargets
<1>7. CASE Recover
  <2>1. run' \in Invocation
    BY <1>7, IdleType DEF Recover, Invocation, Statements
  <2>. QED BY <1>7, <2>1, TypeInMemory DEF Recover
<1>. QED BY <1>1, <1>2, <1>3, <1>4, <1>5, <1>6, <1>7 DEF ReadSteps

\* Reconciling a target's artifacts keeps the types.
LEMMA TypeReconcile ==
  ASSUME IInv, ReconcileSteps
  PROVE  TypeOK'
<1>. USE DEF IInv
<1>0. /\ run \in Invocation /\ Thrown \in Invocation
      /\ run.i \in Target /\ {"tmp", "replace"} \subseteq TKind
      /\ "thrown" \in Statements
  BY ThrownFields DEF TypeOK, Invocation, TKind, Statements
<1>1. CASE ReconcileRename
  <2>1. ASSUME NEW k \in {"tmp", "replace"},
               run' = [Thrown EXCEPT !.drop = <<run.i, k>>,
                                     !.pc = IF @ = "idle" THEN "thrown" ELSE @]
        PROVE  run' \in Invocation
    <3>. DEFINE l == IF Thrown.pc = "idle" THEN "thrown" ELSE Thrown.pc
                d == <<run.i, k>>
    <3>1. l \in Statements /\ d \in Target \X TKind
      BY <1>0 DEF Invocation
    <3>2. run' = [Thrown EXCEPT !.drop = d, !.pc = l]
      BY <2>1
    <3>. HIDE DEF l, d
    <3>. QED BY <3>1, <3>2, <1>0 DEF Invocation
  <2>2. run' \in Invocation
    BY <1>1, <2>1, <1>0 DEF ReconcileRename, Throw
  <2>. QED BY <1>1, <2>2, TypeInMemory DEF ReconcileRename
<1>2. CASE ReconcileGuard
  <2>. DEFINE t == run.i
              guard == debris[t]["replace"]
  <2>1. CASE run' = Thrown /\ UNCHANGED target
    BY <1>2, <2>1, <1>0 DEF ReconcileGuard, TypeOK, evidence, history
  <2>2. CASE /\ run.tx.prior[t] # NoFile /\ guard.data = run.tx.prior[t]
             /\ target' = IF target[t] # NoFile THEN target
                            ELSE [target EXCEPT ![t] = [data |-> guard.data, ino |-> guard.ino]]
             /\ run' = [run EXCEPT !.drop = <<t, "replace">>]
    <3>1. run' \in Invocation
      BY <2>2, <1>0 DEF Invocation
    <3>2. run.tx \in Record /\ run.tx.prior[t] \in Content
      BY <1>2, <2>2, <1>0 DEF ReconcileGuard, Reconciling, At, Loaded, Opened, Publishing,
                              TypeOK, Invocation, Record
    <3>3. guard # NoFile
      BY <1>2 DEF ReconcileGuard, HasPlace, Here
    <3>4. guard \in Artifact
      BY <3>3, <1>0 DEF TypeOK
    <3>5. [data |-> guard.data, ino |-> guard.ino] \in Entry
      BY <2>2, <3>2, <3>4 DEF Entry, Artifact
    <3>6. target' \in [Target -> Entry \cup {NoFile}]
      BY <2>2, <3>5, <1>0 DEF TypeOK
    <3>. QED BY <1>2, <3>1, <3>6 DEF ReconcileGuard, TypeOK, evidence, history
  <2>. QED BY <1>2, <2>1, <2>2 DEF ReconcileGuard, Throw, Here
<1>3. CASE ReconcileTemporary
  <2>1. run' \in Invocation
    BY <1>3, <1>0 DEF ReconcileTemporary, Throw, Invocation
  <2>. QED BY <1>3, <2>1, TypeInMemory DEF ReconcileTemporary
<1>4. CASE ReconcileNext
  <2>1. {"check", "validate2"} \subseteq Statements
    BY DEF Statements, Publishing
  <2>2. run' \in Invocation
    BY <1>4, <2>1, <1>0, AdvanceFields DEF ReconcileNext
  <2>. QED BY <1>4, <2>2, TypeInMemory DEF ReconcileNext
<1>. QED BY <1>1, <1>2, <1>3, <1>4 DEF ReconcileSteps

\* The publication keeps the types.
LEMMA TypePublish ==
  ASSUME IInv, PublishSteps
  PROVE  TypeOK'
<1>. USE DEF IInv
<1>0. /\ run \in Invocation /\ Thrown \in Invocation /\ run.i \in Target
      /\ {"publish", "persistPlace", "reconcile2", "targets", "mark"} \subseteq Statements
  BY ThrownFields DEF TypeOK, Invocation, Statements, Publishing
<1>1. ASSUME NEW l, NEW next \in {"publish", "targets"}, Validate(l, next)
      PROVE  TypeOK'
  <2>1. Go(next) \/ run' = Thrown
    BY <1>1 DEF Validate, Throw
  <2>2. run' \in Invocation
    <3>1. next \in Statements
      BY <1>0
    <3>2. CASE Go(next)
      BY <3>1, <3>2, <1>0, GoFields
    <3>. QED BY <2>1, <3>2, <1>0
  <2>3. faults' \in [{"commit", "crash", "external", "invalid"} -> Nat]
    BY <1>1 DEF Validate, TypeOK
  <2>4. tampered' \in BOOLEAN
    <3>1. tampered \in BOOLEAN /\ tampered' \in {tampered, tampered \/ marker # NoFile}
      BY <1>1, Zenon DEF Validate, TypeOK
    <3>. QED BY <3>1, Zenon
  <2>. QED BY <1>1, <2>2, <2>3, <2>4 DEF Validate, TypeOK, files, evidence
<1>2. CASE Publish
  <2>. DEFINE w == Writing(run.tx.want[run.i], run.tx.prior[run.i])
  <2>1. run.tx \in Record
    BY <1>2, <1>0 DEF Publish, At, Loaded, Opened, Publishing, TypeOK, Invocation
  <2>2. w \in Writer
    BY <2>1, <1>0 DEF Writing, Writer, Record
  <2>3. [run EXCEPT !.wr = w] \in Invocation
    BY <2>2, <1>0 DEF Invocation
  <2>4. run' \in {Advance(run, "reconcile2"), Thrown, [run EXCEPT !.wr = w]}
    BY <1>2 DEF Publish, Throw
  <2>5. Advance(run, "reconcile2") \in Invocation
    BY <1>0, AdvanceFields
  <2>. HIDE DEF w
  <2>6. run' \in Invocation
    BY <2>3, <2>4, <2>5, <1>0
  <2>. QED BY <1>2, <2>6, TypeInMemory DEF Publish
<1>3. CASE Persist
  <2>. DEFINE r == [run EXCEPT !.pc = "publish"]
              guard == [kind |-> "idGuard", at |-> "base", val |-> identity]
  <2>1. r \in Invocation
    BY <1>0 DEF Invocation
  <2>2. CASE run' = Advance(r, "reconcile2") /\ UNCHANGED evidence
    <3>1. run' \in Invocation
      BY <2>1, <2>2, <1>0, AdvanceFields
    <3>. QED BY <1>3, <2>2, <3>1 DEF Persist, TypeOK, files, evidence, history
  <2>3. CASE /\ identity' = NoFile
             /\ husks' = {h \in husks : h.kind # "idGuard" \/ h.at # "base"}
                   \cup (IF identity = NoFile THEN {} ELSE {guard})
             /\ Go("persistPlace")
             /\ UNCHANGED <<journal, marker>>
    <3>1. run' \in Invocation
      BY <2>3, <1>0, GoFields
    <3>2. identity # NoFile => guard \in Husk
      BY DEF TypeOK, Husk, Place
    <3>3. husks' \subseteq Husk
      BY <2>3, <3>2 DEF TypeOK
    <3>. QED BY <1>3, <2>3, <3>1, <3>3 DEF Persist, TypeOK, files, history
  <2>. QED BY <1>3, <2>2, <2>3 DEF Persist
<1>4. CASE PersistPlace
  <2>. DEFINE r == Advance([run EXCEPT !.pc = "publish"], "reconcile2")
              guards == {h \in husks : h.kind = "idGuard" /\ h.at = "base"}
  <2>1. r \in Invocation
    <3>1. [run EXCEPT !.pc = "publish"] \in Invocation
      BY <1>0 DEF Invocation
    <3>. QED BY <3>1, <1>0, AdvanceFields
  <2>2. run' = r \/ \E h \in guards : run' = [r EXCEPT !.purge = h]
    BY <1>4 DEF PersistPlace
  <2>3. guards \subseteq Husk
    BY DEF TypeOK
  <2>. HIDE DEF r, guards
  <2>4. run' \in Invocation
    BY <2>1, <2>2, <2>3 DEF Invocation
  <2>5. identity' \in Inodes
    BY <1>4, <1>0 DEF PersistPlace, Invocation
  <2>. QED BY <1>4, <2>4, <2>5 DEF PersistPlace, TypeOK, files, history
<1>5. CASE ValidateTargets
  <2>1. run' \in Invocation
    BY <1>5, <1>0, GoFields DEF ValidateTargets, Throw
  <2>. QED BY <1>5, <2>1, TypeInMemory DEF ValidateTargets
<1>. QED BY <1>1, <1>2, <1>3, <1>4, <1>5 DEF PublishSteps

\* A write moves to another step with what the step learned.
LEMMA WriterFields ==
  ASSUME run \in Invocation, run.wr \in Writer,
         NEW s \in {"open", "create", "fill", "guard", "place", "verify", "done",
                    "abort", "unguard", "failed"}
  PROVE  /\ [run EXCEPT !.wr.step = s] \in Invocation
         /\ [run EXCEPT !.wr.step = s, !.wr.moved = TRUE] \in Invocation
         /\ \A l \in Ino \cup {NoIno} : [run EXCEPT !.wr.step = s, !.wr.lock = l] \in Invocation
         /\ \A n \in Ino : [run EXCEPT !.wr.step = s, !.wr.new = n] \in Invocation
         /\ \A d \in (Target \X TKind) \cup {NoFile} :
              [run EXCEPT !.wr.step = s, !.drop = d] \in Invocation
<1>2. ASSUME NEW w \in Writer PROVE [run EXCEPT !.wr = w] \in Invocation
  BY DEF Invocation
<1>1. [run EXCEPT !.wr.step = s] \in Invocation
  <2>. DEFINE w == [run.wr EXCEPT !.step = s]
  <2>1. w \in Writer
    BY DEF Writer
  <2>2. [run EXCEPT !.wr.step = s] = [run EXCEPT !.wr = w]
    BY DEF Invocation, Writer
  <2>. QED BY <2>1, <2>2, <1>2
<1>3. [run EXCEPT !.wr.step = s, !.wr.moved = TRUE] \in Invocation
  <2>. DEFINE w == [run.wr EXCEPT !.step = s, !.moved = TRUE]
  <2>1. w \in Writer
    BY DEF Writer
  <2>2. [run EXCEPT !.wr.step = s, !.wr.moved = TRUE] = [run EXCEPT !.wr = w]
    BY DEF Invocation, Writer
  <2>. QED BY <2>1, <2>2, <1>2
<1>4. ASSUME NEW l \in Ino \cup {NoIno}
      PROVE  [run EXCEPT !.wr.step = s, !.wr.lock = l] \in Invocation
  <2>. DEFINE w == [run.wr EXCEPT !.step = s, !.lock = l]
  <2>1. w \in Writer
    BY DEF Writer
  <2>2. [run EXCEPT !.wr.step = s, !.wr.lock = l] = [run EXCEPT !.wr = w]
    BY DEF Invocation, Writer
  <2>. QED BY <2>1, <2>2, <1>2
<1>5. ASSUME NEW n \in Ino
      PROVE  [run EXCEPT !.wr.step = s, !.wr.new = n] \in Invocation
  <2>. DEFINE w == [run.wr EXCEPT !.step = s, !.new = n]
  <2>1. w \in Writer
    BY DEF Writer
  <2>2. [run EXCEPT !.wr.step = s, !.wr.new = n] = [run EXCEPT !.wr = w]
    BY DEF Invocation, Writer
  <2>. QED BY <2>1, <2>2, <1>2
<1>6. ASSUME NEW d \in (Target \X TKind) \cup {NoFile}
      PROVE  [run EXCEPT !.wr.step = s, !.drop = d] \in Invocation
  <2>1. [run EXCEPT !.wr.step = s, !.drop = d] = [[run EXCEPT !.wr.step = s] EXCEPT !.drop = d]
    BY DEF Invocation
  <2>2. ASSUME NEW r \in Invocation PROVE [r EXCEPT !.drop = d] \in Invocation
    BY DEF Invocation
  <2>. QED BY <1>1, <2>1, <2>2
<1>. QED BY <1>1, <1>3, <1>4, <1>5, <1>6

\* A running write keeps the types.
LEMMA TypeWrite ==
  ASSUME IInv, WriteSteps
  PROVE  TypeOK'
<1>. USE DEF IInv
<1>. DEFINE t == run.i
            guard == debris[t]["replace"]
<1>0. /\ run \in Invocation /\ Thrown \in Invocation /\ Idle \in Invocation
      /\ t \in Target /\ {"tmp", "replace", "rollback"} \subseteq TKind
      /\ {"persist", "publish"} \subseteq Statements
  BY ThrownFields, IdleType DEF TypeOK, Invocation, TKind, Statements, Publishing
<1>1. run.wr \in Writer
  BY <1>0 DEF WriteSteps, WriteOpen, WriteCreate, WriteFill, WriteGuard, WritePlace, WriteVerify,
              WriteAbort, WriteUnguard, WriteReturn, WriteRaise, Step, Invocation
<1>2. ASSUME NEW w \in Writer \cup {NoFile}, NEW d \in (Target \X TKind) \cup {NoFile}
      PROVE  [run EXCEPT !.wr = w, !.drop = d] \in Invocation /\ [run EXCEPT !.wr = w] \in Invocation
  BY <1>0 DEF Invocation
<1>3. ASSUME NEW s \in {"open", "create", "fill", "guard", "place", "verify", "done",
                        "abort", "unguard", "failed"}, NextStep(s)
      PROVE  run' \in Invocation
  BY <1>3, <1>1, <1>0 DEF NextStep, Invocation, Writer
<1>4. ASSUME NEW i \in Target, NEW k \in TKind, NEW a \in Artifact
      PROVE  [debris EXCEPT ![i][k] = a] \in [Target -> [TKind -> Artifact \cup {NoFile}]]
  BY DEF TypeOK
<1>5. CASE WriteOpen
  <2>. DEFINE l == IF target[t] = NoFile THEN NoIno ELSE target[t].ino
  <2>1. l \in Ino \cup {NoIno}
    BY <1>0 DEF TypeOK, Entry
  <2>2. NextStep("failed") \/ run' = [run EXCEPT !.wr.step = "create", !.wr.lock = l]
    BY <1>5 DEF WriteOpen
  <2>. HIDE DEF l
  <2>3. run' \in Invocation
    <3>1. [run EXCEPT !.wr.step = "create", !.wr.lock = l] \in Invocation
      BY <2>1, <1>0, <1>1, WriterFields
    <3>. QED BY <2>2, <3>1, <1>3
  <2>. QED BY <1>5, <2>3, TypeInMemory DEF WriteOpen
<1>6. CASE WriteCreate
  <2>1. PICK n \in Ino \ InUse :
          /\ debris' = [debris EXCEPT ![t]["tmp"] = [at |-> "base", data |-> Torn, ino |-> n]]
          /\ run' = [run EXCEPT !.wr.step = "fill", !.wr.new = n]
    BY <1>6 DEF WriteCreate
  <2>2. [at |-> "base", data |-> Torn, ino |-> n] \in Artifact
    BY DEF Artifact, Place
  <2>3. run' \in Invocation
    BY <2>1, <1>0, <1>1, WriterFields
  <2>. QED BY <1>6, <2>1, <2>2, <2>3, <1>0, <1>4 DEF WriteCreate, TypeOK, evidence, history
<1>7. CASE WriteFill
  <2>1. debris[t]["tmp"] \in Artifact
    BY <1>7, <1>0 DEF WriteFill, Step, WriteProgress, TypeOK
  <2>2. run.wr.val \in Content
    BY <1>1 DEF Writer
  <2>3. [debris[t]["tmp"] EXCEPT !.data = run.wr.val] \in Artifact
    BY <2>1, <2>2 DEF Artifact
  <2>4. debris' \in [Target -> [TKind -> Artifact \cup {NoFile}]]
    BY <1>7, <1>0, <2>3 DEF WriteFill, TypeOK
  <2>5. run' \in Invocation
    BY <1>7, <1>3 DEF WriteFill
  <2>. QED BY <1>7, <2>4, <2>5 DEF WriteFill, TypeOK, evidence, history
<1>8. CASE WriteGuard
  <2>1. CASE (NextStep("place") \/ NextStep("abort")) /\ UNCHANGED files
    BY <1>8, <2>1, <1>3, TypeInMemory DEF WriteGuard
  <2>2. CASE /\ target[t] # NoFile
             /\ target' = [target EXCEPT ![t] = NoFile]
             /\ debris' = [debris EXCEPT ![t]["replace"] = Displaced(t)]
             /\ run' = [run EXCEPT !.wr.step = "place", !.wr.moved = TRUE]
    <3>1. Displaced(t) \in Artifact
      BY <2>2, <1>0 DEF Displaced, TypeOK, Entry, Artifact, Place
    <3>2. run' \in Invocation
      BY <2>2, <1>0, <1>1, WriterFields
    <3>3. target' \in [Target -> Entry \cup {NoFile}]
      BY <2>2 DEF TypeOK
    <3>. QED BY <1>8, <2>2, <3>1, <3>2, <3>3, <1>0, <1>4 DEF WriteGuard, TypeOK, evidence, history
  <2>. QED BY <1>8, <2>1, <2>2 DEF WriteGuard, StillExpected
<1>9. CASE WritePlace
  <2>1. CASE NextStep("abort") /\ UNCHANGED files
    BY <1>9, <2>1, <1>3, TypeInMemory DEF WritePlace
  <2>2. CASE /\ target' = [target EXCEPT ![t] = [data |-> run.wr.val, ino |-> run.wr.new]]
             /\ debris' = [debris EXCEPT ![t]["tmp"] = NoFile]
             /\ NextStep("verify")
    <3>1. run.wr.new \in Ino
      BY <1>9, <1>1 DEF WritePlace, Step, WriteProgress
    <3>2. [data |-> run.wr.val, ino |-> run.wr.new] \in Entry
      BY <3>1, <1>1 DEF Entry, Writer
    <3>3. target' \in [Target -> Entry \cup {NoFile}]
      BY <2>2, <3>2 DEF TypeOK
    <3>4. debris' \in [Target -> [TKind -> Artifact \cup {NoFile}]]
      BY <2>2 DEF TypeOK
    <3>5. run' \in Invocation
      BY <2>2, <1>3
    <3>. QED BY <1>9, <3>3, <3>4, <3>5 DEF WritePlace, TypeOK, evidence, history
  <2>. QED BY <1>9, <2>1, <2>2 DEF WritePlace
<1>10. CASE WriteVerify
  <2>. DEFINE d == IF run.wr.moved THEN <<t, "replace">> ELSE NoFile
  <2>1. d \in (Target \X TKind) \cup {NoFile}
    BY <1>0
  <2>2. NextStep("abort") \/ run' = [run EXCEPT !.wr.step = "done", !.drop = d]
    BY <1>10 DEF WriteVerify
  <2>. HIDE DEF d
  <2>3. run' \in Invocation
    BY <2>1, <2>2, <1>0, <1>1, <1>3, WriterFields, ZenonT(40)
  <2>. QED BY <1>10, <2>3, TypeInMemory DEF WriteVerify
<1>11. CASE WriteAbort
  <2>. DEFINE d == <<t, "tmp">>
  <2>1. d \in Target \X TKind /\ run' = [run EXCEPT !.wr.step = "unguard", !.drop = d]
    BY <1>11, <1>0 DEF WriteAbort
  <2>. HIDE DEF d
  <2>2. run' \in Invocation
    BY <2>1, <1>0, <1>1, WriterFields
  <2>. QED BY <1>11, <2>2, TypeInMemory DEF WriteAbort
<1>12. CASE WriteUnguard
  <2>1. CASE NextStep("failed") /\ UNCHANGED target
    <3>1. run' \in Invocation
      BY <2>1, <1>3
    <3>. QED BY <1>12, <2>1, <3>1 DEF WriteUnguard, TypeOK, evidence, history
  <2>2. CASE /\ run.wr.moved
             /\ target' = IF target[t] # NoFile THEN target
                            ELSE [target EXCEPT ![t] = [data |-> guard.data, ino |-> guard.ino]]
             /\ run' = [run EXCEPT !.wr.step = "failed", !.drop = <<t, "replace">>]
    <3>1. guard \in Artifact /\ guard.data \in Content
      <4>1. guard # NoFile /\ guard.data = run.wr.exp /\ run.wr.exp # NoFile
        BY <1>12, <2>2 DEF WriteUnguard, Step, WriteProgress
      <4>. QED BY <4>1, <1>0, <1>1 DEF TypeOK, Writer
    <3>2. [data |-> guard.data, ino |-> guard.ino] \in Entry
      BY <3>1 DEF Entry, Artifact
    <3>3. target' \in [Target -> Entry \cup {NoFile}]
      BY <2>2, <3>2 DEF TypeOK
    <3>. DEFINE d == <<t, "replace">>
    <3>4. d \in Target \X TKind /\ run' = [run EXCEPT !.wr.step = "failed", !.drop = d]
      BY <2>2, <1>0
    <3>. HIDE DEF d
    <3>5. run' \in Invocation
      BY <3>4, <1>0, <1>1, WriterFields
    <3>. QED BY <1>12, <3>3, <3>5 DEF WriteUnguard, TypeOK, evidence, history
  <2>. QED BY <1>12, <2>1, <2>2 DEF WriteUnguard, Here
<1>13. CASE WriteReturn
  <2>. DEFINE r == [run EXCEPT !.wr = NoFile]
  <2>1. r \in Invocation /\ r.i = t
    BY <1>0 DEF Invocation
  <2>2. t > 1 => t - 1 \in Target
    BY <1>0, ConstantsAssumption DEF Target
  <2>3. \/ run' = [r EXCEPT !.pub[t] = run.wr.new, !.pc = "persist"]
        \/ t > 1 /\ run' = [r EXCEPT !.i = t - 1]
        \/ run' = Idle
    BY <1>13, <2>1 DEF WriteReturn
  <2>. HIDE DEF r, t
  <2>4. run' \in Invocation
    <3>1. run.wr.new \in Ino \cup {NoIno} /\ [r.pub EXCEPT ![t] = run.wr.new] \in Inodes
      BY <2>1, <1>0, <1>1 DEF Writer, Invocation, Inodes
    <3>2. [r EXCEPT !.pub[t] = run.wr.new, !.pc = "persist"] \in Invocation
      BY <2>1, <3>1, <1>0 DEF Invocation
    <3>3. t > 1 => [r EXCEPT !.i = t - 1] \in Invocation
      BY <2>1, <2>2 DEF Invocation
    <3>. QED BY <2>3, <3>2, <3>3, <1>0
  <2>. QED BY <1>13, <2>4, TypeInMemory DEF WriteReturn
<1>14. CASE WriteRaise
  <2>1. t > 1 => t - 1 \in Target
    BY <1>0, ConstantsAssumption DEF Target
  <2>2. \/ run' = Thrown
        \/ t > 1 /\ run' = [run EXCEPT !.i = t - 1, !.wr = NoFile]
        \/ run' = Idle
    BY <1>14 DEF WriteRaise
  <2>3. run' \in Invocation
    BY <2>1, <2>2, <1>0 DEF Invocation
  <2>. QED BY <1>14, <2>3, TypeInMemory DEF WriteRaise
<1>. QED
  BY <1>5, <1>6, <1>7, <1>8, <1>9, <1>10, <1>11, <1>12, <1>13, <1>14 DEF WriteSteps

\* The rollback keeps the types.
LEMMA TypeRollback ==
  ASSUME IInv, RollbackSteps
  PROVE  TypeOK'
<1>. USE DEF IInv
<1>. DEFINE t == run.i
<1>0. /\ run \in Invocation /\ Idle \in Invocation /\ t \in Target
      /\ {"tmp", "replace", "rollback"} \subseteq TKind
      /\ {"remove", "removed"} \subseteq Statements
  BY IdleType DEF TypeOK, Invocation, TKind, Statements
<1>1. CASE Rollback
  <2>. DEFINE w == Writing(run.tx.prior[t], run.tx.want[t])
  <2>1. run.tx \in Record /\ run.pc = "rollback"
    BY <1>1, <1>0 DEF Rollback, At, Loaded, Opened, TypeOK, Invocation
  <2>2. run.tx.prior[t] # NoFile => w \in Writer
    BY <2>1, <1>0 DEF Writing, Writer, Record
  <2>3. run.tx.prior[t] # NoFile => [run EXCEPT !.wr = w] \in Invocation
    BY <2>2, <1>0 DEF Invocation
  <2>4. [run EXCEPT !.pc = "remove"] \in Invocation
    BY <1>0 DEF Invocation
  <2>5. \/ run' = RollbackNext(run)
        \/ run' = [run EXCEPT !.pc = "remove"]
        \/ run.tx.prior[t] # NoFile /\ run' = [run EXCEPT !.wr = w]
    BY <1>1 DEF Rollback
  <2>. HIDE DEF w
  <2>6. run' \in Invocation
    BY <2>1, <2>3, <2>4, <2>5, <1>0, RollbackFields
  <2>. QED BY <1>1, <2>6, TypeInMemory DEF Rollback
<1>2. CASE RollbackRemove
  <2>1. CASE run' = RollbackNext(run) /\ UNCHANGED files
    <3>1. run.pc = "remove"
      BY <1>2 DEF RollbackRemove, At
    <3>2. run' \in Invocation
      BY <2>1, <3>1, <1>0, RollbackFields
    <3>. QED BY <1>2, <2>1, <3>2, TypeInMemory DEF RollbackRemove
  <2>2. CASE /\ target[t] # NoFile
             /\ target' = [target EXCEPT ![t] = NoFile]
             /\ debris' = [debris EXCEPT ![t]["rollback"] = Displaced(t)]
             /\ run' = [run EXCEPT !.pc = "removed", !.drop = <<t, "rollback">>]
    <3>. DEFINE d == <<t, "rollback">>
    <3>1. d \in Target \X TKind /\ run' = [run EXCEPT !.pc = "removed", !.drop = d]
      BY <2>2, <1>0
    <3>. HIDE DEF d
    <3>2. run' \in Invocation
      BY <3>1, <1>0 DEF Invocation
    <3>3. Displaced(t) \in Artifact
      BY <2>2, <1>0 DEF Displaced, TypeOK, Entry, Artifact, Place
    <3>4. debris' \in [Target -> [TKind -> Artifact \cup {NoFile}]]
      BY <2>2, <3>3, <1>0 DEF TypeOK
    <3>5. target' \in [Target -> Entry \cup {NoFile}]
      BY <2>2 DEF TypeOK
    <3>. QED BY <1>2, <3>2, <3>4, <3>5 DEF RollbackRemove, TypeOK, evidence, history
  <2>. QED BY <1>2, <2>1, <2>2 DEF RollbackRemove
<1>3. CASE RollbackRemoved
  <2>1. run.pc = "removed" /\ run' = RollbackNext(run)
    BY <1>3 DEF RollbackRemoved, At
  <2>2. run' \in Invocation
    BY <2>1, <1>0, RollbackFields
  <2>. QED BY <1>3, <2>2, TypeInMemory DEF RollbackRemoved
<1>. QED BY <1>1, <1>2, <1>3 DEF RollbackSteps

\* The finalization keeps the types.
LEMMA TypeFinal ==
  ASSUME IInv, FinalSteps
  PROVE  TypeOK'
<1>. USE DEF IInv
<1>0. /\ run \in Invocation /\ Idle \in Invocation /\ Thrown \in Invocation
      /\ {"sealed", "tombstones", "rmIdentity", "rmJournal", "rmMarker", "restore",
          "afterIdentity", "afterJournal", "afterMarker", "capture"} \subseteq Statements
  BY IdleType, ThrownFields DEF TypeOK, Statements
<1>1. ASSUME NEW l \in {"sealed", "tombstones", "rmIdentity", "rmJournal", "rmMarker",
                        "restore"}, Go(l)
      PROVE  run' \in Invocation
  BY <1>0, <1>1, GoFields
<1>2. ASSUME Return PROVE run' \in Invocation
  <2>1. run.ask \in [Target -> Content] \cup {NoFile}
    BY <1>0 DEF Invocation
  <2>2. [Idle EXCEPT !.pc = "capture", !.ask = run.ask] \in Invocation
    BY <2>1, <1>0 DEF Invocation
  <2>. QED BY <1>2, <2>2, <1>0 DEF Return
<1>3. ASSUME NEW h \in Husk, NEW l \in Statements, Bury(h, l)
      PROVE  run' \in Invocation /\ husks' \subseteq Husk
  BY <1>0, <1>3 DEF Bury, Invocation, TypeOK
<1>4. CASE PutMarker
  <2>1. run' \in Invocation
    BY <1>4, <1>0, <1>1 DEF PutMarker, Throw
  <2>2. marker' \in Inodes \cup {NoFile}
    BY <1>4, <1>0 DEF PutMarker, Invocation, TypeOK
  <2>. QED BY <1>4, <2>1, <2>2 DEF PutMarker, TypeOK, files, history
<1>5. CASE Sealed
  <2>1. run' \in Invocation
    BY <1>5, <1>0, <1>1 DEF Sealed, Throw
  <2>. QED BY <1>5, <2>1, TypeInMemory DEF Sealed
<1>6. CASE DiscardTombstones
  <2>1. run.jc \subseteq Husk /\ run.ic \subseteq Husk
    BY <1>0 DEF Invocation
  <2>2. \A h \in run.jc : [run EXCEPT !.jc = @ \ {h}, !.purge = h] \in Invocation
    BY <2>1, <1>0 DEF Invocation
  <2>3. \A h \in run.ic : [run EXCEPT !.ic = @ \ {h}, !.purge = h] \in Invocation
    BY <2>1, <1>0 DEF Invocation
  <2>4. \/ \E h \in run.jc : run' = [run EXCEPT !.jc = @ \ {h}, !.purge = h]
        \/ \E h \in run.ic : run' = [run EXCEPT !.ic = @ \ {h}, !.purge = h]
        \/ Return \/ Go("rmIdentity")
    BY <1>6 DEF DiscardTombstones
  <2>5. run' \in Invocation
    BY <2>2, <2>3, <2>4, <1>1, <1>2
  <2>. QED BY <1>6, <2>5, TypeInMemory DEF DiscardTombstones
<1>7. CASE RemoveIdentity
  <2>1. identity # NoFile => Tombstone("idTomb", identity) \in Husk
    BY DEF TypeOK, Tombstone, Husk, Place
  <2>2. CASE (Go("rmJournal") \/ Go("restore")) /\ UNCHANGED evidence
    BY <1>7, <2>2, <1>1, TypeInMemory DEF RemoveIdentity
  <2>3. CASE /\ identity # NoFile /\ identity' = NoFile
             /\ Bury(Tombstone("idTomb", identity), "afterIdentity")
             /\ UNCHANGED <<journal, marker>>
    <3>1. run' \in Invocation /\ husks' \subseteq Husk
      BY <2>1, <2>3, <1>0, <1>3
    <3>. QED BY <1>7, <2>3, <3>1 DEF RemoveIdentity, TypeOK, files, history
  <2>. QED BY <1>7, <2>2, <2>3 DEF RemoveIdentity
<1>8. CASE RemoveJournal
  <2>1. run.pc = "rmJournal" => journal \in Record
    BY DEF Loaded, Opened, TypeOK
  <2>2. run.pc = "rmJournal" => JournalTombstone(journal) \in Husk
    BY <2>1 DEF JournalTombstone, Husk, Place
  <2>3. CASE (Throw \/ Go("restore")) /\ UNCHANGED evidence
    BY <1>8, <2>3, <1>0, <1>1, TypeInMemory DEF RemoveJournal, Throw
  <2>4. CASE /\ journal' = NoFile
             /\ Bury(JournalTombstone(journal), "afterJournal")
             /\ UNCHANGED <<identity, marker>>
    <3>1. run' \in Invocation /\ husks' \subseteq Husk
      BY <1>8, <2>2, <2>4, <1>0, <1>3 DEF RemoveJournal, At
    <3>. QED BY <1>8, <2>4, <3>1 DEF RemoveJournal, TypeOK, files, history
  <2>. QED BY <1>8, <2>3, <2>4 DEF RemoveJournal
<1>9. CASE RemoveMarker
  <2>1. CASE Go("restore") /\ UNCHANGED evidence
    BY <1>9, <2>1, <1>1, TypeInMemory DEF RemoveMarker
  <2>2. CASE Bury(Tombstone("markerTomb", marker), "afterMarker") /\ marker' = NoFile
    <3>1. Tombstone("markerTomb", marker) \in Husk
      BY <1>9 DEF RemoveMarker, At, Marked, Sealing, TypeOK, Tombstone, Husk, Place
    <3>2. run' \in Invocation /\ husks' \subseteq Husk
      BY <2>2, <3>1, <1>0, <1>3
    <3>. QED BY <1>9, <2>2, <3>2 DEF RemoveMarker, TypeOK, files, evidence, history
  <2>. QED BY <1>9, <2>1, <2>2 DEF RemoveMarker
<1>10. ASSUME NEW k, NEW l \in {"rmJournal", "rmMarker"}, Removed(k, l)
       PROVE  TypeOK'
  <2>1. run' \in Invocation
    BY <1>10, <1>1 DEF Removed
  <2>. QED BY <1>10, <2>1, TypeInMemory DEF Removed
<1>11. CASE Finished
  <2>1. run' \in Invocation
    BY <1>11, <1>1, <1>2 DEF Finished
  <2>. QED BY <1>11, <2>1, TypeInMemory DEF Finished
<1>12. CASE RestoreEvidence
  <2>1. run.tx \in Record \cup {NoFile} /\ run.pub \in Inodes
    BY <1>0 DEF Invocation
  <2>2. run' \in Invocation
    BY <1>12, <1>0 DEF RestoreEvidence, Throw
  <2>. QED BY <1>12, <2>1, <2>2 DEF RestoreEvidence, TypeOK, files, history
<1>13. CASE Rethrow
  BY <1>13, <1>0, TypeInMemory DEF Rethrow
<1>. QED
  BY <1>4, <1>5, <1>6, <1>7, <1>8, <1>9, <1>10, <1>11, <1>12, <1>13 DEF FinalSteps

\* A discard keeps the types.
LEMMA TypeDiscard ==
  ASSUME IInv, DiscardSteps
  PROVE  TypeOK'
<1>. USE DEF IInv
<1>0. run \in Invocation
  BY DEF TypeOK
<1>1. CASE DiscardDebris
  <2>. DEFINE t == run.drop[1]
              k == run.drop[2]
              a == debris[t][k]
  <2>1. t \in Target /\ k \in TKind
    BY <1>1, <1>0 DEF DiscardDebris, Invocation
  <2>2. CASE debris' = [debris EXCEPT ![t][k] = NoFile] /\ run' = [run EXCEPT !.drop = NoFile]
    <3>1. run' \in Invocation
      BY <2>2, <1>0 DEF Invocation
    <3>2. debris' \in [Target -> [TKind -> Artifact \cup {NoFile}]]
      BY <2>1, <2>2 DEF TypeOK
    <3>. QED BY <1>1, <3>1, <3>2 DEF DiscardDebris, TypeOK, evidence, history
  <2>3. CASE /\ ~(a = NoFile \/ a.at = "hollow")
             /\ debris' = [debris EXCEPT ![t][k].at = AfterPlace[@]]
             /\ UNCHANGED run
    <3>1. a \in Artifact
      BY <2>1, <2>3 DEF TypeOK
    <3>2. [a EXCEPT !.at = AfterPlace[a.at]] \in Artifact
      <4>1. a.at \in Place \ {"hollow"}
        BY <3>1, <2>3 DEF Artifact
      <4>2. AfterPlace[a.at] \in Place
        BY <4>1 DEF AfterPlace, Place
      <4>. QED BY <3>1, <4>2 DEF Artifact
    <3>3. debris' \in [Target -> [TKind -> Artifact \cup {NoFile}]]
      BY <2>1, <2>3, <3>2 DEF TypeOK
    <3>. QED BY <1>1, <1>0, <2>3, <3>3 DEF DiscardDebris, TypeOK, evidence, history
  <2>. QED BY <1>1, <2>2, <2>3 DEF DiscardDebris
<1>2. CASE DiscardHusk
  <2>. DEFINE h == run.purge
              next == [h EXCEPT !.at = AfterPlace[@]]
  <2>1. h \in Husk
    BY <1>2, <1>0 DEF DiscardHusk, Invocation
  <2>2. CASE husks' = husks \ {h} /\ run' = [run EXCEPT !.purge = NoFile]
    <3>1. run' \in Invocation
      BY <2>2, <1>0 DEF Invocation
    <3>. QED BY <1>2, <2>2, <3>1 DEF DiscardHusk, TypeOK, files, history
  <2>3. CASE /\ h.at # "hollow"
             /\ husks' = (husks \ {h}) \cup {next} /\ run' = [run EXCEPT !.purge = next]
    <3>1. next \in Husk
      <4>1. h.at \in Place \ {"hollow"}
        BY <2>1, <2>3 DEF Husk
      <4>2. AfterPlace[h.at] \in Place
        BY <4>1 DEF AfterPlace, Place
      <4>3. \A p \in Place : [h EXCEPT !.at = p] \in Husk
        BY <2>1 DEF Husk
      <4>. QED BY <4>2, <4>3
    <3>. HIDE DEF next
    <3>2. run' \in Invocation
      BY <2>3, <3>1, <1>0 DEF Invocation
    <3>. QED BY <1>2, <2>3, <3>1, <3>2 DEF DiscardHusk, TypeOK, files, history
  <2>. QED BY <1>2, <2>2, <2>3 DEF DiscardHusk
<1>. QED BY <1>1, <1>2 DEF DiscardSteps

\* Crashes and foreign writes keep the types.
LEMMA TypeEnvironment ==
  ASSUME IInv, Crash \/ \E t \in Target : External(t)
  PROVE  TypeOK'
<1>. USE DEF IInv
<1>1. CASE Crash
  <2>1. faults' \in [{"commit", "crash", "external", "invalid"} -> Nat]
    BY <1>1 DEF Crash, TypeOK
  <2>. QED BY <1>1, <2>1, IdleType DEF Crash, TypeOK, files, evidence
<1>2. ASSUME NEW t \in Target, External(t)
      PROVE  TypeOK'
  <2>1. faults' \in [{"commit", "crash", "external", "invalid"} -> Nat]
    BY <1>2 DEF External, TypeOK
  <2>2. tampered' \in BOOLEAN
    <3>1. tampered \in BOOLEAN /\ tampered' = (tampered \/ marker # NoFile)
      BY <1>2, Zenon DEF External, TypeOK
    <3>. QED BY <3>1, Zenon
  <2>3. target' \in [Target -> Entry \cup {NoFile}]
    <3>1. CASE target' = [target EXCEPT ![t] = NoFile]
      BY <3>1 DEF TypeOK
    <3>2. ASSUME NEW c \in Content, NEW n \in Ino,
                 target' = [target EXCEPT ![t] = [data |-> c, ino |-> n]]
          PROVE  target' \in [Target -> Entry \cup {NoFile}]
      <4>1. [data |-> c, ino |-> n] \in Entry
        BY DEF Entry
      <4>. QED BY <3>2, <4>1 DEF TypeOK
    <3>. QED BY <1>2, <3>1, <3>2 DEF External
  <2>. QED BY <1>2, <2>1, <2>2, <2>3 DEF External, TypeOK, evidence
<1>. QED BY <1>1, <1>2

\* Every step keeps the types.
LEMMA TypeStep == ASSUME IInv, Next PROVE TypeOK'
<1>1. CASE \E want \in [Target -> Wanted] : Commit(want)
  BY <1>1, TypeCommit
<1>2. CASE Recover \/ ReadSteps
  BY <1>2, TypeRead
<1>3. CASE Working /\ ~ReadSteps
  BY <1>3, TypeCommit, TypeReconcile, TypePublish, TypeWrite, TypeRollback, TypeFinal,
     TypeDiscard DEF Working
<1>4. CASE Crash \/ \E t \in Target : External(t)
  BY <1>4, TypeEnvironment
<1>. QED BY <1>1, <1>2, <1>3, <1>4 DEF Next, Working

-------------------------------------------------------------------------------
\* What a step may do without disturbing the invariant, by where it leads

\* A step adds no journal tombstone of its own.
NoNewTomb == \A h \in Tombs' : h.kind = "journalTomb" => h \in Tombs

LEMMA BuriedStep == ASSUME IInv, NoNewTomb, UNCHANGED begun PROVE Buried'
BY DEF IInv, Buried, NoNewTomb

\* The steps that leave the husks alone add none.
LEMMA TombsStep ==
  ASSUME husks' \subseteq husks,
         run'.jc \subseteq Tombs, run'.ic \subseteq Tombs,
         run'.purge \in Tombs \cup {NoFile}
  PROVE  NoNewTomb
BY DEF NoNewTomb, Tombs

\* Reading the evidence, and the end of an invocation.
LEMMA ReadingStep ==
  ASSUME IInv, TypeOK', NoNewTomb, UNCHANGED <<target, journal, begun, touched>>,
         run'.pc \in {"idle", "scan", "quarantine", "admit", "strays", "thrown"},
         run'.wr = NoFile, run'.op = "precommit" => run'.ask # NoFile
  PROVE  IInv'
<1>. USE DEF IInv
<1>1. Recorded' /\ Promise!Promised'
  BY DEF Recorded, Promise!Promised
<1>2. Asked' /\ Prepared' /\ Loaded' /\ Marked'
  BY DEF Asked, Prepared, Loaded, Marked, Preparing, Opened, Closed, Sealing, Publishing
<1>3. WriteHome' /\ WriteProgress'
  BY DEF WriteHome, WriteProgress
<1>. QED BY <1>1, <1>2, <1>3, BuriedStep

\* The end of an invocation in particular.
LEMMA IdleStep ==
  ASSUME IInv, TypeOK', run' = Idle, husks' \subseteq husks,
         UNCHANGED <<target, journal, begun, touched>>
  PROVE  IInv'
<1>1. /\ run'.pc = "idle" /\ run'.wr = NoFile /\ run'.op = "recover"
      /\ run'.jc = {} /\ run'.ic = {} /\ run'.purge = NoFile
  BY DEF Idle
<1>2. NoNewTomb
  BY <1>1, TombsStep
<1>. QED BY <1>1, <1>2, ReadingStep

\* While the journal is at its name, the targets may be written.
LEMMA OpenStep ==
  ASSUME IInv, TypeOK', NoNewTomb, UNCHANGED <<journal, begun>>,
         run.pc \in Opened, run'.pc \in Opened,
         run'.tx = run.tx, run'.ask = run.ask, run'.op = run.op,
         run'.pc \in Sealing => marker' # NoFile,
         WriteHome', WriteProgress'
  PROVE  IInv'
<1>. USE DEF IInv
<1>1. journal = begun /\ begun # NoFile /\ run.tx = begun
  BY DEF Loaded
<1>2. Recorded' /\ Promise!Promised'
  BY <1>1 DEF Recorded, Promise!Promised
<1>3. Asked' /\ Prepared' /\ Loaded' /\ Marked'
  BY <1>1 DEF Asked, Prepared, Loaded, Marked, Preparing, Opened, Closed, Sealing, Publishing
<1>. QED BY <1>2, <1>3, BuriedStep

\* Afterwards they may not.
LEMMA ClosedStep ==
  ASSUME IInv, TypeOK', NoNewTomb, UNCHANGED <<target, journal, begun, touched>>,
         run.pc \in Opened \cup Closed, run'.pc \in Closed,
         run'.tx = run.tx, run'.ask = run.ask, run'.op = run.op,
         run'.pc \in Sealing => marker' # NoFile,
         run'.wr = NoFile
  PROVE  IInv'
<1>. USE DEF IInv
<1>1. Recorded' /\ Promise!Promised'
  BY DEF Recorded, Promise!Promised
<1>2. Asked' /\ Prepared' /\ Loaded' /\ Marked'
  BY DEF Asked, Prepared, Loaded, Marked, Preparing, Opened, Closed, Sealing, Publishing
<1>3. WriteHome' /\ WriteProgress'
  BY DEF WriteHome, WriteProgress
<1>. QED BY <1>1, <1>2, <1>3, BuriedStep

\* A discard moves an entry at any statement.
LEMMA DiscardStep ==
  ASSUME IInv, TypeOK', UNCHANGED <<target, journal, marker, begun, touched>>,
         run'.pc = run.pc, run'.tx = run.tx, run'.ask = run.ask, run'.op = run.op,
         run'.wr = run.wr, run'.i = run.i,
         WriteProgress', Buried'
  PROVE  IInv'
<1>. USE DEF IInv
<1>1. Recorded' /\ Promise!Promised'
  BY DEF Recorded, Promise!Promised
<1>2. Asked' /\ Prepared' /\ Loaded' /\ Marked'
  BY DEF Asked, Prepared, Loaded, Marked
<1>3. WriteHome'
  BY DEF WriteHome
<1>. QED BY <1>1, <1>2, <1>3

\* Return goes back to the caller, or to the commit that asked.
LEMMA ReturnStep ==
  ASSUME IInv, TypeOK', Return, husks' \subseteq husks,
         UNCHANGED <<target, journal, begun, touched>>
  PROVE  IInv'
<1>. USE DEF IInv
<1>1. CASE run' = Idle
  BY <1>1, IdleStep
<1>2. CASE run.op = "precommit" /\ run' = [Idle EXCEPT !.pc = "capture", !.ask = run.ask]
  <2>1. /\ run'.pc = "capture" /\ run'.ask = run.ask /\ run'.wr = NoFile
        /\ run'.jc = {} /\ run'.ic = {} /\ run'.purge = NoFile
    BY <1>2 DEF Idle
  <2>2. NoNewTomb
    BY <2>1, TombsStep
  <2>3. Recorded' /\ Promise!Promised'
    BY DEF Recorded, Promise!Promised
  <2>4. Asked' /\ Prepared' /\ Loaded' /\ Marked'
    BY <1>2, <2>1 DEF Asked, Prepared, Loaded, Marked, Preparing, Opened, Closed, Sealing,
                      Publishing
  <2>5. WriteHome' /\ WriteProgress'
    BY <2>1 DEF WriteHome, WriteProgress
  <2>. QED BY <2>2, <2>3, <2>4, <2>5, BuriedStep
<1>. QED BY <1>1, <1>2 DEF Return

-------------------------------------------------------------------------------
\* Every step keeps the invariant

LEMMA InvCommit ==
  ASSUME IInv, TypeOK', CommitSteps \/ \E want \in [Target -> Wanted] : Commit(want)
  PROVE  IInv'
<1>. USE DEF IInv
<1>1. ASSUME NEW want \in [Target -> Wanted], Commit(want)
      PROVE  IInv'
  <2>1. PICK l \in {"scan", "capture"} :
          run' = [Idle EXCEPT !.pc = l, !.op = "precommit", !.ask = want]
    BY <1>1 DEF Commit
  <2>2. /\ run'.pc = l /\ run'.ask = want /\ run'.wr = NoFile
        /\ run'.jc = {} /\ run'.ic = {} /\ run'.purge = NoFile
    BY <2>1 DEF Idle
  <2>3. want # NoFile
    BY ConstantsAssumption, NoFileAssumption
  <2>4. NoNewTomb
    BY <1>1, <2>2, TombsStep DEF Commit, evidence
  <2>5. Recorded' /\ Promise!Promised'
    BY <1>1 DEF Commit, files, evidence, Recorded, Promise!Promised
  <2>6. Asked' /\ Prepared' /\ Loaded' /\ Marked'
    BY <2>2, <2>3 DEF Asked, Prepared, Loaded, Marked, Preparing, Opened, Closed, Sealing,
                      Publishing
  <2>7. WriteHome' /\ WriteProgress'
    BY <2>2 DEF WriteHome, WriteProgress
  <2>. QED BY <1>1, <2>4, <2>5, <2>6, <2>7, BuriedStep DEF Commit
<1>2. CASE Capture
  <2>. DEFINE tx == [prior |-> [t \in Target |-> Data(target[t])], want |-> run.ask]
  <2>1. CASE run' = Idle /\ UNCHANGED <<begun, touched, tampered>>
    BY <1>2, <2>1, IdleStep DEF Capture, files, evidence
  <2>2. CASE /\ ~(journal # NoFile \/ PendingEvidence)
             /\ run' = [Idle EXCEPT !.pc = "putIdentity", !.tx = tx]
             /\ begun' = NoFile /\ touched' = {}
    <3>1. /\ run'.pc = "putIdentity" /\ run'.tx = tx /\ run'.op = "recover"
          /\ run'.wr = NoFile /\ run'.jc = {} /\ run'.ic = {} /\ run'.purge = NoFile
      BY <2>2 DEF Idle
    <3>2. UNCHANGED <<target, debris, journal, marker, husks>>
      BY <1>2 DEF Capture, files, evidence
    <3>3. tx # NoFile
      <4>1. \A t \in Target : Data(target[t]) \in Content \cup {NoFile}
        BY DEF TypeOK, Entry, Data
      <4>2. run.ask \in [Target -> Content]
        BY <1>2 DEF Capture, At, Asked, TypeOK, Invocation
      <4>3. tx \in Record
        BY <4>1, <4>2 DEF Record
      <4>. QED BY <4>3, NoFileAssumption
    <3>4. \A h \in husks : h.kind # "journalTomb"
      <4>1. ASSUME NEW h \in husks, h.kind = "journalTomb" PROVE FALSE
        <5>1. h.at \in Place
          BY DEF TypeOK, Husk
        <5>2. h \in JournalCandidates \/ h \in Quarantines
          BY <4>1, <5>1 DEF JournalCandidates, Quarantines, Quarantined, Place
        <5>. QED BY <2>2, <5>2 DEF PendingEvidence
      <4>. QED BY <4>1
    <3>5. Buried'
      BY <3>1, <3>2, <3>4 DEF Buried, Tombs
    <3>6. Recorded' /\ Promise!Promised'
      BY <2>2, <3>2 DEF Recorded, Promise!Promised
    <3>7. Prepared'
      BY <2>2, <3>1, <3>2, <3>3 DEF Prepared
    <3>8. Asked' /\ Loaded' /\ Marked' /\ WriteHome' /\ WriteProgress'
      BY <3>1 DEF Asked, Loaded, Marked, WriteHome, WriteProgress, Opened, Closed, Sealing,
                  Publishing
    <3>. QED BY <3>5, <3>6, <3>7, <3>8
  <2>. QED BY <1>2, <2>1, <2>2 DEF Capture
<1>3. CASE PutIdentity
  <2>1. /\ run'.pc = "putJournal" /\ run'.tx = run.tx /\ run'.ask = run.ask /\ run'.op = run.op
        /\ run'.wr = NoFile /\ run'.jc = run.jc /\ run'.ic = run.ic /\ run'.purge = run.purge
    BY <1>3, GoFields DEF PutIdentity, At, TypeOK, Statements
  <2>2. UNCHANGED <<target, journal, husks, begun, touched>> /\ run.pc = "putIdentity"
    BY <1>3 DEF PutIdentity, At, files, history
  <2>3. NoNewTomb
    BY <2>1, <2>2, TombsStep DEF Tombs
  <2>4. Recorded' /\ Promise!Promised'
    BY <2>2 DEF Recorded, Promise!Promised
  <2>5. Asked' /\ Prepared' /\ Loaded' /\ Marked' /\ WriteHome' /\ WriteProgress'
    BY <2>1, <2>2 DEF Asked, Prepared, Loaded, Marked, WriteHome, WriteProgress, Preparing,
                      Opened, Closed, Sealing, Publishing
  <2>. QED BY <2>2, <2>3, <2>4, <2>5, BuriedStep
<1>4. CASE PutJournal
  <2>1. /\ run'.pc = "scan" /\ run'.op = "recover" /\ run'.wr = NoFile
        /\ run'.jc = {} /\ run'.ic = {} /\ run'.purge = NoFile
    BY <1>4 DEF PutJournal, Idle
  <2>2. /\ run.tx # NoFile /\ begun = NoFile
        /\ journal' = run.tx /\ begun' = run.tx /\ UNCHANGED <<target, husks, touched>>
    BY <1>4 DEF PutJournal, At, Prepared, Preparing, files
  <2>3. Buried'
    BY <2>1, <2>2 DEF Buried, Tombs
  <2>4. Recorded' /\ Promise!Promised'
    BY <2>2 DEF Recorded, Promise!Promised
  <2>5. Asked' /\ Prepared' /\ Loaded' /\ Marked' /\ WriteHome' /\ WriteProgress'
    BY <2>1 DEF Asked, Prepared, Loaded, Marked, WriteHome, WriteProgress, Preparing,
                Opened, Closed, Sealing, Publishing
  <2>. QED BY <2>3, <2>4, <2>5
<1>. QED BY <1>1, <1>2, <1>3, <1>4 DEF CommitSteps

LEMMA InvRead ==
  ASSUME IInv, TypeOK', ReadSteps \/ Recover
  PROVE  IInv'
<1>. USE DEF IInv
<1>0. run \in Invocation
  BY DEF TypeOK
<1>1. CASE Scan
  <2>1. run.pc = "scan" /\ UNCHANGED <<target, journal, husks, begun, touched>>
    BY <1>1 DEF Scan, At, files, history
  <2>2. CASE run' = Thrown
    <3>1. run' = Idle
      BY <2>1, <2>2, <1>0, ThrownFields DEF Publishing
    <3>. QED BY <2>1, <3>1, IdleStep
  <2>3. CASE run' = [run EXCEPT !.pc = "quarantine", !.jc = JournalCandidates,
                                !.ic = IdentityCandidates]
    <3>1. /\ run'.pc = "quarantine" /\ run'.jc = JournalCandidates
          /\ run'.ic = IdentityCandidates /\ run'.purge = run.purge
          /\ run'.wr = run.wr /\ run'.op = run.op /\ run'.ask = run.ask
      BY <2>3, <1>0 DEF Invocation
    <3>2. NoNewTomb
      BY <2>1, <3>1, Candidates, TombsStep DEF Tombs
    <3>. QED BY <1>1, <2>1, <3>1, <3>2, ReadingStep DEF Scan, At, Asked
  <2>. QED BY <1>1, <2>2, <2>3 DEF Scan, Throw
<1>2. CASE Quarantine
  <2>1. run.pc = "quarantine" /\ UNCHANGED <<target, journal, begun, touched>>
    BY <1>2 DEF Quarantine, At, history
  <2>2. CASE run' = Thrown /\ UNCHANGED husks
    <3>1. run' = Idle
      BY <2>1, <2>2, <1>0, ThrownFields DEF Publishing
    <3>. QED BY <2>1, <2>2, <3>1, IdleStep
  <2>3. CASE /\ husks' = {Surface(h) : h \in {g \in husks : g.at # "hollow"}}
             /\ Go("admit")
    <3>1. /\ run'.pc = "admit" /\ run'.jc = run.jc /\ run'.ic = run.ic
          /\ run'.purge = run.purge /\ run'.wr = run.wr /\ run'.op = run.op
          /\ run'.ask = run.ask /\ run'.tx = run.tx
      BY <2>3, <1>0, GoFields DEF Statements
    <3>2. \A h \in Husk : Surface(h).kind = h.kind
                            /\ (h.kind = "journalTomb" => Surface(h).record = h.record)
      BY DEF Surface, Husk
    <3>3. Buried'
      BY <2>1, <2>3, <3>1, <3>2 DEF Buried, Tombs, TypeOK
    <3>4. Recorded' /\ Promise!Promised'
      BY <2>1 DEF Recorded, Promise!Promised
    <3>5. run.wr = NoFile
      BY <1>2 DEF Quarantine, At
    <3>6. Asked' /\ Prepared' /\ Loaded' /\ Marked' /\ WriteHome' /\ WriteProgress'
      BY <3>1, <3>5 DEF Asked, Prepared, Loaded, Marked, WriteHome, WriteProgress, Preparing,
                        Opened, Closed, Sealing, Publishing
    <3>. QED BY <3>3, <3>4, <3>6
  <2>. QED BY <1>2, <2>2, <2>3 DEF Quarantine, Throw
<1>3. CASE AdmitNoJournal
  <2>1. /\ run.pc = "admit" /\ run.wr = NoFile
        /\ UNCHANGED <<target, journal, husks, begun, touched>>
    BY <1>3 DEF AdmitNoJournal, At, files, evidence, history
  <2>2. CASE run' = Thrown
    <3>1. run' = Idle
      BY <2>1, <2>2, <1>0, ThrownFields DEF Publishing
    <3>. QED BY <2>1, <3>1, IdleStep
  <2>. DEFINE ids == IF run.ic = {} THEN {} ELSE IdentityCandidates
  <2>3. CASE run' = [run EXCEPT !.pc = "strays", !.ic = ids]
    <3>1. ids \subseteq husks
      BY Candidates
    <3>. HIDE DEF ids
    <3>2. /\ run'.pc = "strays" /\ run'.jc = run.jc /\ run'.ic = ids
          /\ run'.purge = run.purge /\ run'.wr = run.wr /\ run'.op = run.op
          /\ run'.ask = run.ask
      BY <2>3, <1>0 DEF Invocation
    <3>3. NoNewTomb
      BY <2>1, <3>1, <3>2, TombsStep DEF Tombs
    <3>. QED BY <2>1, <3>2, <3>3, ReadingStep DEF Asked
  <2>. QED BY <1>3, <2>2, <2>3 DEF AdmitNoJournal, Throw
<1>4. CASE RestoreJournal
  <2>1. /\ run.pc = "admit" /\ run.wr = NoFile
        /\ UNCHANGED <<target, husks, begun, touched>>
    BY <1>4 DEF RestoreJournal, At, files, history
  <2>2. CASE run' = Thrown /\ UNCHANGED journal
    <3>1. run' = Idle
      BY <2>1, <2>2, <1>0, ThrownFields DEF Publishing
    <3>. QED BY <2>1, <2>2, <3>1, IdleStep
  <2>3. CASE /\ \E h \in JournalCandidates : journal' = h.record
             /\ run' = [run EXCEPT !.jc = JournalCandidates]
    <3>1. journal' = begun /\ begun # NoFile
      BY <2>3, Candidates DEF Buried, Tombs
    <3>2. /\ run'.pc = "admit" /\ run'.jc = JournalCandidates /\ run'.ic = run.ic
          /\ run'.purge = run.purge /\ run'.wr = run.wr /\ run'.op = run.op
          /\ run'.ask = run.ask
      BY <2>1, <2>3, <1>0 DEF Invocation
    <3>3. NoNewTomb
      BY <2>1, <3>2, Candidates, TombsStep DEF Tombs
    <3>4. Recorded' /\ Promise!Promised'
      BY <2>1, <3>1 DEF Recorded, Promise!Promised
    <3>5. Asked' /\ Prepared' /\ Loaded' /\ Marked' /\ WriteHome' /\ WriteProgress'
      BY <2>1, <3>2 DEF Asked, Prepared, Loaded, Marked, WriteHome, WriteProgress, Preparing,
                        Opened, Closed, Sealing, Publishing
    <3>. QED BY <2>1, <3>3, <3>4, <3>5, BuriedStep
  <2>. QED BY <1>4, <2>2, <2>3 DEF RestoreJournal, Throw
<1>5. CASE Admit
  <2>1. /\ run.pc = "admit" /\ run.wr = NoFile /\ journal # NoFile
        /\ UNCHANGED <<target, journal, husks, begun, touched>>
    BY <1>5 DEF Admit, At, files, evidence, history
  <2>2. CASE run' = Thrown
    <3>1. run' = Idle
      BY <2>1, <2>2, <1>0, ThrownFields DEF Publishing
    <3>. QED BY <2>1, <3>1, IdleStep
  <2>. DEFINE ids == IF run.ic = {} THEN {} ELSE IdentityCandidates
              js  == IF run.jc = {} THEN {} ELSE JournalCandidates
              pub == IF marker # NoFile THEN marker ELSE identity
  <2>3. CASE run' = [run EXCEPT !.pc = "reconcile1", !.i = 1, !.tx = journal,
                                !.pub = pub, !.ic = ids, !.jc = js]
    <3>1. ids \subseteq husks /\ js \subseteq husks
      BY Candidates
    <3>. HIDE DEF ids, js, pub
    <3>2. /\ run'.pc = "reconcile1" /\ run'.tx = journal /\ run'.jc = js /\ run'.ic = ids
          /\ run'.purge = run.purge /\ run'.wr = run.wr /\ run'.op = run.op
          /\ run'.ask = run.ask
      BY <2>3, <1>0 DEF Invocation
    <3>3. NoNewTomb
      BY <2>1, <3>1, <3>2, TombsStep DEF Tombs
    <3>4. Recorded' /\ Promise!Promised'
      BY <2>1 DEF Recorded, Promise!Promised
    <3>5. Loaded'
      BY <2>1, <3>2 DEF Loaded, Recorded
    <3>6. Asked' /\ Prepared' /\ Marked' /\ WriteHome' /\ WriteProgress'
      BY <2>1, <3>2 DEF Asked, Prepared, Marked, WriteHome, WriteProgress, Preparing, Sealing
    <3>. QED BY <2>1, <3>3, <3>4, <3>5, <3>6, BuriedStep
  <2>. QED BY <1>5, <2>2, <2>3 DEF Admit, Throw
<1>6. CASE CheckTargets
  <2>1. /\ run.pc = "check" /\ run.wr = NoFile
        /\ UNCHANGED <<target, journal, husks, begun, touched>>
    BY <1>6 DEF CheckTargets, At, files, evidence, history
  <2>2. CASE run' = Thrown
    <3>1. run' = Idle
      BY <2>1, <2>2, <1>0, ThrownFields DEF Publishing
    <3>. QED BY <2>1, <3>1, IdleStep
  <2>3. CASE Go("validate1")
    <3>1. /\ run'.pc = "validate1" /\ run'.jc = run.jc /\ run'.ic = run.ic
          /\ run'.purge = run.purge /\ run'.wr = run.wr /\ run'.op = run.op
          /\ run'.ask = run.ask /\ run'.tx = run.tx
      BY <2>3, <1>0, GoFields DEF Statements
    <3>2. NoNewTomb
      BY <2>1, <3>1, TombsStep DEF Tombs
    <3>3. WriteHome' /\ WriteProgress'
      BY <2>1, <3>1 DEF WriteHome, WriteProgress
    <3>. QED BY <2>1, <3>1, <3>2, <3>3, OpenStep DEF Opened, Sealing
  <2>. QED BY <1>6, <2>2, <2>3 DEF CheckTargets, Throw
<1>7. CASE Recover
  <2>1. /\ run'.pc = "scan" /\ run'.op = "recover" /\ run'.wr = NoFile
        /\ run'.jc = {} /\ run'.ic = {} /\ run'.purge = NoFile
    BY <1>7 DEF Recover, Idle
  <2>2. UNCHANGED <<target, journal, husks, begun, touched>>
    BY <1>7 DEF Recover, files, evidence, history
  <2>3. NoNewTomb
    BY <2>1, <2>2, TombsStep
  <2>. QED BY <2>1, <2>2, <2>3, ReadingStep
<1>. QED BY <1>1, <1>2, <1>3, <1>4, <1>5, <1>6, <1>7 DEF ReadSteps

\* An exception while the journal is open, wherever it is caught.
LEMMA ThrowStep ==
  ASSUME IInv, TypeOK', run' = Thrown, run.pc \in Opened \/ run.wr = NoFile,
         husks' \subseteq husks, UNCHANGED <<target, journal, begun, touched>>
  PROVE  IInv'
<1>. USE DEF IInv
<1>0. run \in Invocation
  BY DEF TypeOK
<1>1. CASE run' = Idle
  BY <1>1, IdleStep
<1>2. CASE run' # Idle
  <2>1. /\ run.pc \in Publishing /\ run'.pc = "rollback" /\ run'.wr = NoFile
        /\ run'.tx = run.tx /\ run'.ask = run.ask /\ run'.op = run.op
        /\ run'.jc = run.jc /\ run'.ic = run.ic /\ run'.purge = run.purge
    BY <1>0, <1>2, ThrownFields
  <2>2. run.pc \in Opened /\ run'.pc \in Opened /\ run'.pc \notin Sealing
    BY <2>1 DEF Opened, Sealing
  <2>3. NoNewTomb
    BY <2>1, TombsStep DEF Tombs
  <2>4. WriteHome' /\ WriteProgress'
    BY <2>1 DEF WriteHome, WriteProgress
  <2>. QED BY <2>1, <2>2, <2>3, <2>4, OpenStep
<1>. QED BY <1>1, <1>2

\* A step between two statements at which the journal is open.
LEMMA OpenGoStep ==
  ASSUME IInv, TypeOK', run.pc \in Opened, run'.pc \in Opened,
         run'.tx = run.tx, run'.ask = run.ask, run'.op = run.op, run'.wr = NoFile,
         run'.jc \subseteq Tombs, run'.ic \subseteq Tombs,
         run'.purge \in Tombs \cup {NoFile}, husks' \subseteq husks,
         run'.pc \in Sealing => marker' # NoFile,
         UNCHANGED <<journal, begun>>
  PROVE  IInv'
<1>1. NoNewTomb
  BY TombsStep
<1>2. WriteHome' /\ WriteProgress'
  BY DEF WriteHome, WriteProgress
<1>. QED BY <1>1, <1>2, OpenStep

LEMMA InvReconcile ==
  ASSUME IInv, TypeOK', ReconcileSteps
  PROVE  IInv'
<1>. USE DEF IInv
<1>0. /\ run \in Invocation /\ run.pc \in {"reconcile1", "reconcile2"} /\ run.wr = NoFile
      /\ UNCHANGED <<journal, husks, begun, touched>>
  BY DEF TypeOK, ReconcileSteps, ReconcileRename, ReconcileGuard, ReconcileTemporary,
         ReconcileNext, Reconciling, At, files, evidence, history
<1>1. run.pc \in Opened
  BY <1>0 DEF Opened, Publishing
<1>2. CASE run' = Thrown /\ UNCHANGED target
  BY <1>0, <1>1, <1>2, ThrowStep
<1>3. CASE ReconcileRename /\ run' # Thrown
  <2>. DEFINE l == IF Thrown.pc = "idle" THEN "thrown" ELSE Thrown.pc
  <2>1. PICK k \in {"tmp", "replace"} :
          run' = [Thrown EXCEPT !.drop = <<run.i, k>>, !.pc = l]
    BY <1>3 DEF ReconcileRename, Throw
  <2>2. UNCHANGED target
    BY <1>3 DEF ReconcileRename, files
  <2>3. Thrown \in Invocation
    BY <1>0, ThrownFields
  <2>4. /\ run'.pc = l /\ run'.tx = Thrown.tx /\ run'.ask = Thrown.ask /\ run'.op = Thrown.op
        /\ run'.wr = Thrown.wr /\ run'.jc = Thrown.jc /\ run'.ic = Thrown.ic
        /\ run'.purge = Thrown.purge
    <3>. HIDE DEF l
    <3>. QED BY <2>1, <2>3 DEF Invocation
  <2>5. CASE Thrown = Idle
    <3>1. /\ run'.pc = "thrown" /\ run'.wr = NoFile /\ run'.op = "recover"
          /\ run'.jc = {} /\ run'.ic = {} /\ run'.purge = NoFile
      BY <2>4, <2>5 DEF Idle
    <3>2. NoNewTomb
      BY <1>0, <3>1, TombsStep
    <3>. QED BY <1>0, <2>2, <3>1, <3>2, ReadingStep
  <2>6. CASE Thrown # Idle
    <3>1. /\ run'.pc = "rollback" /\ run'.wr = NoFile /\ run'.tx = run.tx
          /\ run'.ask = run.ask /\ run'.op = run.op
          /\ run'.jc = run.jc /\ run'.ic = run.ic /\ run'.purge = run.purge
      BY <1>0, <2>4, <2>6, ThrownFields
    <3>. QED BY <1>0, <1>1, <3>1, OpenGoStep DEF Opened, Sealing, Tombs
  <2>. QED BY <2>5, <2>6
<1>4. CASE ReconcileGuard /\ run' # Thrown
  <2>1. run' = [run EXCEPT !.drop = <<run.i, "replace">>]
    BY <1>4 DEF ReconcileGuard, Throw
  <2>. QED BY <1>0, <1>1, <2>1, OpenGoStep DEF Invocation, Tombs, Sealing
<1>5. CASE ReconcileTemporary /\ run' # Thrown
  <2>1. run' = [run EXCEPT !.drop = <<run.i, "tmp">>]
    BY <1>5 DEF ReconcileTemporary, Throw
  <2>. QED BY <1>0, <1>1, <2>1, OpenGoStep DEF Invocation, Tombs, Sealing
<1>6. CASE ReconcileNext
  <2>1. PICK l \in {"check", "validate2"} : run' = Advance(run, l)
    BY <1>6 DEF ReconcileNext
  <2>2. l \in Statements
    BY <2>1 DEF Statements, Publishing
  <2>3. /\ run'.pc \in {run.pc, l} /\ run'.tx = run.tx /\ run'.ask = run.ask
        /\ run'.op = run.op /\ run'.wr = run.wr /\ run'.jc = run.jc /\ run'.ic = run.ic
        /\ run'.purge = run.purge
    BY <1>0, <2>1, <2>2, AdvanceFields
  <2>4. run'.pc \in Opened /\ run'.pc \notin Sealing
    BY <1>0, <2>1, <2>3 DEF Opened, Publishing, Sealing
  <2>. QED BY <1>0, <1>1, <2>3, <2>4, OpenGoStep DEF Tombs
<1>7. run' = Thrown => UNCHANGED target \/ ReconcileGuard
  BY DEF ReconcileSteps, ReconcileRename, ReconcileTemporary, ReconcileNext, files
<1>8. ReconcileGuard /\ run' = Thrown => UNCHANGED target \/ run' = [run EXCEPT !.drop = <<run.i, "replace">>]
  BY DEF ReconcileGuard, Throw
<1>9. Thrown # [run EXCEPT !.drop = <<run.i, "replace">>]
  BY <1>0, ThrownFields DEF Invocation, Idle
<1>. QED BY <1>2, <1>3, <1>4, <1>5, <1>6, <1>7, <1>8, <1>9 DEF ReconcileSteps

LEMMA InvPublish ==
  ASSUME IInv, TypeOK', PublishSteps
  PROVE  IInv'
<1>. USE DEF IInv
<1>0. /\ run \in Invocation /\ run.wr = NoFile /\ run.pc \in Publishing \cup {"validate1"}
      /\ UNCHANGED <<target, journal, begun, touched>>
  BY DEF TypeOK, PublishSteps, Validate, Publish, Persist, PersistPlace, ValidateTargets,
         Publishing, At, files, evidence, history
<1>1. run.pc \in Opened
  BY <1>0 DEF Opened
<1>2. /\ {"publish", "targets", "mark", "persistPlace", "reconcile2", "validate2"} \subseteq Opened
      /\ Opened \subseteq Statements
      /\ \A l \in {"publish", "targets", "mark", "persistPlace", "reconcile2"} : l \notin Sealing
  BY Labels DEF Opened, Publishing, Sealing
<1>3. CASE run' = Thrown /\ husks' = husks
  BY <1>0, <1>1, <1>3, ThrowStep
<1>4. ASSUME NEW l \in {"publish", "targets", "mark"}, Go(l), husks' = husks
      PROVE  IInv'
  BY <1>0, <1>1, <1>2, <1>4, GoFields, OpenGoStep DEF Tombs
<1>5. ASSUME NEW l, NEW next \in {"publish", "targets"}, Validate(l, next)
      PROVE  IInv'
  BY <1>3, <1>4, <1>5 DEF Validate, Throw, evidence
<1>6. ASSUME NEW r \in Invocation, r.pc \in {"publish", "reconcile2"}, r.wr = NoFile,
             r.tx = run.tx, r.ask = run.ask, r.op = run.op, r.jc = run.jc, r.ic = run.ic,
             r.purge = run.purge, husks' = husks,
             \/ run' = r
             \/ \E h \in husks : run' = [r EXCEPT !.purge = h]
      PROVE  IInv'
  <2>1. /\ run'.pc = r.pc /\ run'.wr = NoFile /\ run'.tx = run.tx /\ run'.ask = run.ask
        /\ run'.op = run.op /\ run'.jc = run.jc /\ run'.ic = run.ic
        /\ run'.purge \in husks \cup {run.purge}
    BY <1>6 DEF Invocation
  <2>. QED BY <1>0, <1>1, <1>2, <1>6, <2>1, OpenGoStep DEF Tombs
<1>7. ASSUME NEW s \in Invocation, s.pc = "publish", s.wr = NoFile, s.tx = run.tx,
             s.ask = run.ask, s.op = run.op, s.jc = run.jc, s.ic = run.ic,
             s.purge = run.purge, husks' = husks,
             \/ run' = Advance(s, "reconcile2")
             \/ \E h \in husks : run' = [Advance(s, "reconcile2") EXCEPT !.purge = h]
      PROVE  IInv'
  <2>. DEFINE r == Advance(s, "reconcile2")
  <2>1. /\ r \in Invocation /\ r.pc \in {"publish", "reconcile2"} /\ r.wr = NoFile
        /\ r.tx = run.tx /\ r.ask = run.ask /\ r.op = run.op /\ r.jc = run.jc
        /\ r.ic = run.ic /\ r.purge = run.purge
    BY <1>2, <1>7, AdvanceFields
  <2>2. run' = r \/ \E h \in husks : run' = [r EXCEPT !.purge = h]
    BY <1>7
  <2>. HIDE DEF r
  <2>. QED BY <2>1, <2>2, <1>7, <1>6
<1>8. /\ [run EXCEPT !.pc = "publish"] \in Invocation
      /\ [run EXCEPT !.pc = "publish"].pc = "publish"
      /\ \A f \in {"wr", "tx", "ask", "op", "jc", "ic", "purge"} :
           [run EXCEPT !.pc = "publish"][f] = run[f]
  BY <1>0, <1>2 DEF Invocation
<1>9. CASE Publish
  <2>. DEFINE t == run.i
              w == Writing(run.tx.want[t], run.tx.prior[t])
  <2>1. run.pc = "publish" /\ husks' = husks
    BY <1>9 DEF Publish, At, evidence
  <2>2. CASE run' = Advance(run, "reconcile2")
    BY <1>0, <1>7, <2>1, <2>2
  <2>3. CASE run' = [run EXCEPT !.wr = w]
    <3>1. /\ w.val = run.tx.want[t] /\ w.exp = run.tx.prior[t] /\ w.step = "open"
          /\ w.moved = FALSE /\ w.new = NoIno
      BY DEF Writing
    <3>2. run.drop = NoFile
      BY <1>9 DEF Publish, At
    <3>. HIDE DEF w
    <3>3. /\ run'.pc = "publish" /\ run'.wr = w /\ run'.i = t /\ run'.tx = run.tx
          /\ run'.ask = run.ask /\ run'.op = run.op /\ run'.drop = NoFile
          /\ run'.jc = run.jc /\ run'.ic = run.ic /\ run'.purge = run.purge
      BY <2>1, <2>3, <3>2, <1>0 DEF Invocation
    <3>4. NoNewTomb
      BY <2>1, <3>3, TombsStep DEF Tombs
    <3>5. WriteHome'
      BY <3>1, <3>3 DEF WriteHome
    <3>6. WriteProgress'
      BY <3>1, <3>3 DEF WriteProgress
    <3>. QED BY <1>0, <1>1, <1>2, <3>3, <3>4, <3>5, <3>6, OpenStep
  <2>. QED BY <1>9, <2>1, <2>2, <2>3, <1>3 DEF Publish, Throw
<1>10. CASE Persist
  <2>1. CASE /\ run' = Advance([run EXCEPT !.pc = "publish"], "reconcile2")
             /\ UNCHANGED evidence
    BY <1>0, <1>7, <1>8, <2>1 DEF evidence
  <2>2. CASE /\ husks' = {h \in husks : h.kind # "idGuard" \/ h.at # "base"}
                   \cup (IF identity = NoFile THEN {}
                         ELSE {[kind |-> "idGuard", at |-> "base", val |-> identity]})
             /\ Go("persistPlace")
    <3>1. /\ run'.pc = "persistPlace" /\ run'.wr = NoFile /\ run'.tx = run.tx
          /\ run'.ask = run.ask /\ run'.op = run.op /\ run'.jc = run.jc /\ run'.ic = run.ic
          /\ run'.purge = run.purge
      BY <1>0, <1>2, <2>2, GoFields
    <3>2. \A h \in husks' : h \in husks \/ h.kind = "idGuard"
      BY <2>2
    <3>3. NoNewTomb
      BY <3>1, <3>2 DEF NoNewTomb, Tombs
    <3>4. WriteHome' /\ WriteProgress'
      BY <3>1 DEF WriteHome, WriteProgress
    <3>. QED BY <1>0, <1>1, <1>2, <3>1, <3>3, <3>4, OpenStep
  <2>. QED BY <1>10, <2>1, <2>2 DEF Persist
<1>11. CASE PersistPlace
  <2>1. \/ run' = Advance([run EXCEPT !.pc = "publish"], "reconcile2")
        \/ \E h \in husks : run' = [Advance([run EXCEPT !.pc = "publish"], "reconcile2")
                                      EXCEPT !.purge = h]
    BY <1>11 DEF PersistPlace
  <2>2. husks' = husks
    BY <1>11 DEF PersistPlace
  <2>. QED BY <1>0, <1>7, <1>8, <2>1, <2>2
<1>12. CASE ValidateTargets
  BY <1>12, <1>3, <1>4 DEF ValidateTargets, Throw, evidence
<1>. QED BY <1>5, <1>9, <1>10, <1>11, <1>12 DEF PublishSteps

\* A write that goes on keeps its contents, and the memory around it.
LEMMA WriteStep ==
  ASSUME IInv, TypeOK', run.wr # NoFile,
         run'.wr.val = run.wr.val, run'.wr.exp = run.wr.exp,
         run'.pc = run.pc, run'.tx = run.tx, run'.ask = run.ask, run'.op = run.op,
         run'.i = run.i, run'.jc = run.jc, run'.ic = run.ic, run'.purge = run.purge,
         UNCHANGED <<journal, husks, begun>>, WriteProgress'
  PROVE  IInv'
<1>. USE DEF IInv
<1>1. run.pc \in Opened /\ run'.pc \notin Sealing
  BY DEF WriteHome, Opened, Publishing, Sealing
<1>2. WriteHome'
  BY DEF WriteHome
<1>3. NoNewTomb
  BY TombsStep DEF Tombs
<1>. QED BY <1>1, <1>2, <1>3, OpenStep

\* The memory after a step of a write.
LEMMA WriterValues ==
  ASSUME run \in Invocation, run.wr \in Writer, NEW w \in Writer, NEW d,
         run' = [run EXCEPT !.wr = w, !.drop = d]
  PROVE  /\ run'.wr = w /\ run'.drop = d /\ run'.pc = run.pc /\ run'.tx = run.tx
         /\ run'.ask = run.ask /\ run'.op = run.op /\ run'.i = run.i
         /\ run'.jc = run.jc /\ run'.ic = run.ic /\ run'.purge = run.purge
BY DEF Invocation

LEMMA InvWrite ==
  ASSUME IInv, TypeOK', WriteSteps
  PROVE  IInv'
<1>. USE DEF IInv
<1>. DEFINE t == run.i
            guard == debris[t]["replace"]
<1>0. /\ run \in Invocation /\ t \in Target /\ {"tmp", "replace", "rollback"} \subseteq TKind
      /\ UNCHANGED <<journal, husks, begun, touched>>
      /\ run.wr # NoFile /\ run.drop = NoFile
  BY DEF TypeOK, Invocation, TKind, WriteSteps, WriteOpen, WriteCreate, WriteFill, WriteGuard,
         WritePlace, WriteVerify, WriteAbort, WriteUnguard, WriteReturn, WriteRaise, Step,
         evidence, history
<1>1. run.wr \in Writer
  BY <1>0 DEF Invocation
<1>2. ASSUME NEW w \in Writer, NEW d,
             run' = [run EXCEPT !.wr = w, !.drop = d],
             w.val = run.wr.val, w.exp = run.wr.exp,
             w.step \notin {"unguard", "failed", "done"} => d = NoFile,
             w.step = "unguard" => d \in {NoFile, <<t, "tmp">>},
             w.step \in {"open", "create", "fill", "guard"} => ~w.moved,
             w.step = "fill" => debris'[t]["tmp"] # NoFile,
             w.step \in {"fill", "guard", "place", "verify"} => w.new \in Ino,
             w.moved /\ w.step \in {"place", "verify", "abort", "unguard"} =>
               debris'[t]["replace"] # NoFile /\ debris'[t]["replace"].data = w.exp
                 /\ w.exp # NoFile
      PROVE  IInv'
  <2>. HIDE DEF t
  <2>1. /\ run'.wr = w /\ run'.drop = d /\ run'.pc = run.pc /\ run'.tx = run.tx
        /\ run'.ask = run.ask /\ run'.op = run.op /\ run'.i = run.i
        /\ run'.jc = run.jc /\ run'.ic = run.ic /\ run'.purge = run.purge
    BY <1>0, <1>1, <1>2, WriterValues
  <2>2. WriteProgress'
    BY <1>2, <2>1 DEF WriteProgress, t
  <2>. QED BY <1>0, <1>2, <2>1, <2>2, WriteStep
<1>3. ASSUME NEW s \in {"open", "create", "fill", "guard", "place", "verify", "done",
                        "abort", "unguard", "failed"}
      PROVE  /\ [run.wr EXCEPT !.step = s] \in Writer
             /\ [run.wr EXCEPT !.step = s, !.moved = TRUE] \in Writer
             /\ \A l \in Ino \cup {NoIno} : [run.wr EXCEPT !.step = s, !.lock = l] \in Writer
             /\ \A n \in Ino : [run.wr EXCEPT !.step = s, !.new = n] \in Writer
  BY <1>1 DEF Writer
<1>4. ASSUME NEW s, NextStep(s)
      PROVE  run' = [run EXCEPT !.wr = [run.wr EXCEPT !.step = s], !.drop = NoFile]
  BY <1>0, <1>1, <1>4 DEF NextStep, Invocation, Writer
<1>5. ASSUME NextStep("failed") PROVE IInv'
  <2>. DEFINE w == [run.wr EXCEPT !.step = "failed"]
  <2>1. w \in Writer /\ run' = [run EXCEPT !.wr = w, !.drop = NoFile]
    BY <1>3, <1>4, <1>5
  <2>2. w.step = "failed" /\ w.val = run.wr.val /\ w.exp = run.wr.exp
    BY <1>1 DEF Writer
  <2>. HIDE DEF w
  <2>. QED BY <1>2, <2>1, <2>2
<1>6. ASSUME NextStep("abort"), UNCHANGED debris, run.wr.step \in {"guard", "place", "verify"}
      PROVE  IInv'
  <2>1. run.wr.moved => guard # NoFile /\ guard.data = run.wr.exp /\ run.wr.exp # NoFile
    BY <1>0, <1>6 DEF WriteProgress
  <2>. DEFINE w == [run.wr EXCEPT !.step = "abort"]
  <2>2. w \in Writer /\ run' = [run EXCEPT !.wr = w, !.drop = NoFile]
    BY <1>3, <1>4, <1>6
  <2>3. w.step = "abort" /\ w.val = run.wr.val /\ w.exp = run.wr.exp /\ w.moved = run.wr.moved
    BY <1>1 DEF Writer
  <2>. HIDE DEF w
  <2>. QED BY <1>2, <1>6, <2>1, <2>2, <2>3
<1>8. CASE WriteOpen
  <2>. DEFINE l == IF target[t] = NoFile THEN NoIno ELSE target[t].ino
              w == [run.wr EXCEPT !.step = "create", !.lock = l]
  <2>1. l \in Ino \cup {NoIno}
    BY <1>0 DEF TypeOK, Entry
  <2>2. NextStep("failed") \/ run' = [run EXCEPT !.wr.step = "create", !.wr.lock = l]
    BY <1>8 DEF WriteOpen
  <2>3. ~run.wr.moved /\ UNCHANGED debris
    BY <1>8, <1>0 DEF WriteOpen, Step, WriteProgress, files
  <2>. HIDE DEF l
  <2>4. w \in Writer
    BY <2>1, <1>3
  <2>5. w.step = "create" /\ w.val = run.wr.val /\ w.exp = run.wr.exp /\ w.moved = run.wr.moved
    BY <1>1 DEF Writer
  <2>6. NextStep("failed") \/ run' = [run EXCEPT !.wr = w, !.drop = NoFile]
    BY <1>0, <1>1, <2>2, ZenonT(40) DEF Invocation, Writer
  <2>. HIDE DEF w
  <2>. QED BY <1>2, <1>5, <2>3, <2>4, <2>5, <2>6
<1>9. CASE WriteCreate
  <2>1. PICK n \in Ino \ InUse :
          /\ debris' = [debris EXCEPT ![t]["tmp"] = [at |-> "base", data |-> Torn, ino |-> n]]
          /\ run' = [run EXCEPT !.wr.step = "fill", !.wr.new = n]
    BY <1>9 DEF WriteCreate
  <2>. DEFINE w == [run.wr EXCEPT !.step = "fill", !.new = n]
  <2>2. debris'[t]["tmp"] # NoFile
    <3>1. [at |-> "base", data |-> Torn, ino |-> n] \in Artifact
      BY DEF Artifact, Place
    <3>2. debris'[t]["tmp"] = [at |-> "base", data |-> Torn, ino |-> n]
      BY <1>0, <2>1 DEF TypeOK
    <3>. QED BY <3>1, <3>2, NoFileAssumption
  <2>3. ~run.wr.moved
    BY <1>9, <1>0 DEF WriteCreate, Step, WriteProgress
  <2>4. w \in Writer
    BY <1>3
  <2>5. /\ w.step = "fill" /\ w.val = run.wr.val /\ w.exp = run.wr.exp
        /\ w.moved = run.wr.moved /\ w.new = n
    BY <1>1 DEF Writer
  <2>6. run' = [run EXCEPT !.wr = w, !.drop = NoFile]
    BY <1>0, <1>1, <2>1 DEF Invocation, Writer
  <2>. HIDE DEF w
  <2>. QED BY <1>2, <2>2, <2>3, <2>4, <2>5, <2>6
<1>10. CASE WriteFill
  <2>. DEFINE w == [run.wr EXCEPT !.step = "guard"]
  <2>1. ~run.wr.moved /\ run.wr.new \in Ino
    BY <1>10, <1>0 DEF WriteFill, Step, WriteProgress
  <2>2. w \in Writer /\ run' = [run EXCEPT !.wr = w, !.drop = NoFile]
    BY <1>10, <1>3, <1>4 DEF WriteFill
  <2>3. /\ w.step = "guard" /\ w.val = run.wr.val /\ w.exp = run.wr.exp
        /\ w.moved = run.wr.moved /\ w.new = run.wr.new
    BY <1>1 DEF Writer
  <2>. HIDE DEF w
  <2>. QED BY <1>2, <2>1, <2>2, <2>3
<1>11. CASE WriteGuard
  <2>1. ~run.wr.moved /\ run.wr.new \in Ino /\ run.wr.step = "guard"
    BY <1>11, <1>0 DEF WriteGuard, Step, WriteProgress
  <2>2. CASE NextStep("place")
    <3>. DEFINE w == [run.wr EXCEPT !.step = "place"]
    <3>1. w \in Writer /\ run' = [run EXCEPT !.wr = w, !.drop = NoFile]
      BY <2>2, <1>3, <1>4
    <3>2. /\ w.step = "place" /\ w.val = run.wr.val /\ w.exp = run.wr.exp
          /\ w.moved = run.wr.moved /\ w.new = run.wr.new
      BY <1>1 DEF Writer
    <3>. HIDE DEF w
    <3>. QED BY <1>2, <2>1, <3>1, <3>2
  <2>3. CASE NextStep("abort") /\ UNCHANGED files
    BY <1>6, <2>1, <2>3 DEF files
  <2>. DEFINE copy == Displaced(t)
  <2>4. CASE /\ target[t] # NoFile /\ target[t].data = run.wr.exp
             /\ debris' = [debris EXCEPT ![t]["replace"] = copy]
             /\ run' = [run EXCEPT !.wr.step = "place", !.wr.moved = TRUE]
    <3>. DEFINE w == [run.wr EXCEPT !.step = "place", !.moved = TRUE]
    <3>1. copy \in Artifact /\ copy.data = run.wr.exp /\ run.wr.exp \in Content
      BY <2>4, <1>0 DEF Displaced, TypeOK, Entry, Artifact, Place
    <3>. HIDE DEF copy
    <3>2. debris'[t]["replace"] = copy
      BY <1>0, <2>4 DEF TypeOK
    <3>3. /\ debris'[t]["replace"] # NoFile /\ debris'[t]["replace"].data = run.wr.exp
          /\ run.wr.exp # NoFile
      BY <3>1, <3>2, ConstantsAssumption, NoFileAssumption
    <3>4. w \in Writer
      BY <1>3
    <3>5. /\ w.step = "place" /\ w.val = run.wr.val /\ w.exp = run.wr.exp
          /\ w.new = run.wr.new
      BY <1>1 DEF Writer
    <3>6. run' = [run EXCEPT !.wr = w, !.drop = NoFile]
      BY <1>0, <1>1, <2>4 DEF Invocation, Writer
    <3>. HIDE DEF w
    <3>. QED BY <1>2, <2>1, <3>3, <3>4, <3>5, <3>6
  <2>. QED BY <1>11, <2>2, <2>3, <2>4 DEF WriteGuard, StillExpected
<1>12. CASE WritePlace
  <2>1. /\ run.wr.new \in Ino /\ run.wr.step = "place"
        /\ run.wr.moved => guard # NoFile /\ guard.data = run.wr.exp /\ run.wr.exp # NoFile
    BY <1>12, <1>0 DEF WritePlace, Step, WriteProgress
  <2>2. CASE NextStep("abort") /\ UNCHANGED files
    BY <1>6, <2>1, <2>2 DEF files
  <2>3. CASE debris' = [debris EXCEPT ![t]["tmp"] = NoFile] /\ NextStep("verify")
    <3>. DEFINE w == [run.wr EXCEPT !.step = "verify"]
    <3>1. debris'[t]["replace"] = guard
      BY <1>0, <2>3 DEF TypeOK
    <3>2. w \in Writer /\ run' = [run EXCEPT !.wr = w, !.drop = NoFile]
      BY <2>3, <1>3, <1>4
    <3>3. /\ w.step = "verify" /\ w.val = run.wr.val /\ w.exp = run.wr.exp
          /\ w.moved = run.wr.moved /\ w.new = run.wr.new
      BY <1>1 DEF Writer
    <3>. HIDE DEF w
    <3>. QED BY <1>2, <2>1, <3>1, <3>2, <3>3
  <2>. QED BY <1>12, <2>2, <2>3 DEF WritePlace
<1>13. CASE WriteVerify
  <2>1. run.wr.step = "verify" /\ UNCHANGED debris
    BY <1>13 DEF WriteVerify, Step, files
  <2>. DEFINE w == [run.wr EXCEPT !.step = "done"]
              d == IF run.wr.moved THEN <<t, "replace">> ELSE NoFile
  <2>2. NextStep("abort") \/ run' = [run EXCEPT !.wr.step = "done", !.drop = d]
    BY <1>13 DEF WriteVerify
  <2>. HIDE DEF d
  <2>3. w \in Writer /\ w.step = "done" /\ w.val = run.wr.val /\ w.exp = run.wr.exp
    <3>1. w \in Writer
      BY <1>3
    <3>. QED BY <1>1, <3>1 DEF Writer
  <2>4. NextStep("abort") \/ run' = [run EXCEPT !.wr = w, !.drop = d]
    BY <1>0, <1>1, <2>2 DEF Invocation, Writer
  <2>. HIDE DEF w
  <2>. QED BY <1>2, <1>6, <2>1, <2>3, <2>4
<1>14. CASE WriteAbort
  <2>1. /\ UNCHANGED debris
        /\ run.wr.moved => guard # NoFile /\ guard.data = run.wr.exp /\ run.wr.exp # NoFile
    BY <1>14, <1>0 DEF WriteAbort, Step, WriteProgress, files
  <2>. DEFINE w == [run.wr EXCEPT !.step = "unguard"]
              d == <<t, "tmp">>
  <2>2. /\ w \in Writer /\ w.step = "unguard" /\ w.val = run.wr.val /\ w.exp = run.wr.exp
        /\ w.moved = run.wr.moved
    <3>1. w \in Writer
      BY <1>3
    <3>. QED BY <1>1, <3>1 DEF Writer
  <2>3. run' = [run EXCEPT !.wr.step = "unguard", !.drop = d]
    BY <1>14 DEF WriteAbort
  <2>4. run' = [run EXCEPT !.wr = w, !.drop = d]
    <3>. HIDE DEF d
    <3>. QED BY <1>0, <1>1, <2>3 DEF Invocation, Writer
  <2>. HIDE DEF w
  <2>. QED BY <1>2, <2>1, <2>2, <2>4
<1>15. CASE WriteUnguard
  <2>. DEFINE w == [run.wr EXCEPT !.step = "failed"]
              d == <<t, "replace">>
  <2>1. NextStep("failed") \/ run' = [run EXCEPT !.wr.step = "failed", !.drop = d]
    BY <1>15 DEF WriteUnguard
  <2>. HIDE DEF d
  <2>2. w \in Writer /\ w.step = "failed" /\ w.val = run.wr.val /\ w.exp = run.wr.exp
    <3>1. w \in Writer
      BY <1>3
    <3>. QED BY <1>1, <3>1 DEF Writer
  <2>3. NextStep("failed") \/ run' = [run EXCEPT !.wr = w, !.drop = d]
    BY <1>0, <1>1, <2>1 DEF Invocation, Writer
  <2>. HIDE DEF w
  <2>. QED BY <1>2, <1>5, <2>2, <2>3
<1>16. CASE WriteReturn \/ WriteRaise
  <2>1. run.pc \in {"publish", "rollback"} /\ run.pc \in Opened /\ UNCHANGED target
    BY <1>16, <1>0 DEF WriteReturn, WriteRaise, WriteHome, Opened, Publishing, files
  <2>2. CASE run' = Thrown \/ run' = Idle
    BY <1>0, <2>1, <2>2, ThrowStep, IdleStep
  <2>3. ASSUME run'.pc \in {"persist", "rollback"}, run'.wr = NoFile, run'.tx = run.tx,
               run'.ask = run.ask, run'.op = run.op, run'.jc = run.jc, run'.ic = run.ic,
               run'.purge = run.purge
        PROVE  IInv'
    BY <1>0, <2>1, <2>3, OpenGoStep DEF Opened, Publishing, Sealing, Tombs
  <2>4. CASE WriteReturn /\ run' # Idle
    <3>1. \/ run' = [[run EXCEPT !.wr = NoFile] EXCEPT !.pub[run.i] = run.wr.new, !.pc = "persist"]
          \/ run.pc = "rollback" /\ run' = [[run EXCEPT !.wr = NoFile] EXCEPT !.i = @ - 1]
      BY <2>1, <2>4 DEF WriteReturn
    <3>. QED BY <1>0, <2>3, <3>1 DEF Invocation
  <2>5. CASE WriteRaise /\ run' # Idle /\ run' # Thrown
    <3>1. run.pc = "rollback" /\ run' = [run EXCEPT !.i = @ - 1, !.wr = NoFile]
      BY <2>1, <2>5 DEF WriteRaise
    <3>. QED BY <1>0, <2>3, <3>1 DEF Invocation
  <2>. QED BY <1>16, <2>2, <2>4, <2>5
<1>. QED BY <1>8, <1>9, <1>10, <1>11, <1>12, <1>13, <1>14, <1>15, <1>16 DEF WriteSteps

LEMMA InvRollback ==
  ASSUME IInv, TypeOK', RollbackSteps
  PROVE  IInv'
<1>. USE DEF IInv
<1>. DEFINE t == run.i
<1>0. /\ run \in Invocation /\ t \in Target /\ run.wr = NoFile
      /\ run.pc \in {"rollback", "remove", "removed"} /\ run.pc \in Opened
      /\ UNCHANGED <<journal, husks, begun, touched>>
  BY DEF TypeOK, Invocation, RollbackSteps, Rollback, RollbackRemove, RollbackRemoved, At,
         Opened, evidence, history
<1>1. CASE run' = RollbackNext(run) /\ UNCHANGED target
  <2>1. CASE run' = Idle
    BY <1>0, <1>1, <2>1, IdleStep
  <2>2. CASE run' # Idle
    <3>1. /\ run'.pc = "rollback" /\ run'.tx = run.tx /\ run'.ask = run.ask
          /\ run'.op = run.op /\ run'.wr = run.wr /\ run'.jc = run.jc /\ run'.ic = run.ic
          /\ run'.purge = run.purge
      BY <1>0, <1>1, <2>2, RollbackFields
    <3>. QED BY <1>0, <3>1, OpenGoStep DEF Opened, Sealing, Tombs
  <2>. QED BY <2>1, <2>2
<1>2. ASSUME run'.pc \in {"remove", "removed"}, run'.tx = run.tx, run'.ask = run.ask,
             run'.op = run.op, run'.wr = NoFile, run'.jc = run.jc, run'.ic = run.ic,
             run'.purge = run.purge
      PROVE  IInv'
  BY <1>0, <1>2, OpenGoStep DEF Opened, Sealing, Tombs
<1>3. CASE Rollback
  <2>. DEFINE w == Writing(run.tx.prior[t], run.tx.want[t])
  <2>1. run.pc = "rollback" /\ run.drop = NoFile /\ UNCHANGED target
    BY <1>3 DEF Rollback, At, files
  <2>2. CASE run' = [run EXCEPT !.pc = "remove"]
    BY <1>0, <1>2, <2>2 DEF Invocation
  <2>3. CASE run' = [run EXCEPT !.wr = w]
    <3>1. /\ w.val = run.tx.prior[t] /\ w.exp = run.tx.want[t] /\ w.step = "open"
          /\ w.moved = FALSE /\ w.new = NoIno
      BY DEF Writing
    <3>. HIDE DEF w
    <3>2. /\ run'.pc = "rollback" /\ run'.wr = w /\ run'.i = t /\ run'.tx = run.tx
          /\ run'.ask = run.ask /\ run'.op = run.op /\ run'.drop = NoFile
          /\ run'.jc = run.jc /\ run'.ic = run.ic /\ run'.purge = run.purge
      BY <2>1, <2>3, <1>0 DEF Invocation
    <3>3. NoNewTomb
      BY <1>0, <3>2, TombsStep DEF Tombs
    <3>4. WriteHome'
      BY <3>1, <3>2 DEF WriteHome
    <3>5. WriteProgress'
      BY <3>1, <3>2 DEF WriteProgress
    <3>. QED BY <1>0, <3>2, <3>3, <3>4, <3>5, OpenStep DEF Opened, Sealing
  <2>. QED BY <1>3, <1>1, <2>1, <2>2, <2>3 DEF Rollback
<1>4. CASE RollbackRemove
  <2>. DEFINE d == <<t, "rollback">>
  <2>1. CASE run' = [run EXCEPT !.pc = "removed", !.drop = d]
    <3>. HIDE DEF d
    <3>1. /\ run'.pc = "removed" /\ run'.tx = run.tx /\ run'.ask = run.ask
          /\ run'.op = run.op /\ run'.wr = run.wr /\ run'.jc = run.jc /\ run'.ic = run.ic
          /\ run'.purge = run.purge
      BY <1>0, <2>1 DEF Invocation
    <3>. QED BY <1>0, <1>2, <3>1
  <2>. QED BY <1>4, <1>1, <2>1 DEF RollbackRemove, files
<1>5. CASE RollbackRemoved
  BY <1>5, <1>1 DEF RollbackRemoved, files
<1>. QED BY <1>3, <1>4, <1>5 DEF RollbackSteps

LEMMA InvFinal ==
  ASSUME IInv, TypeOK', FinalSteps
  PROVE  IInv'
<1>. USE DEF IInv
<1>0. /\ run \in Invocation /\ run.wr = NoFile
      /\ UNCHANGED <<target, begun, touched>>
  BY DEF TypeOK, FinalSteps, PutMarker, Sealed, DiscardTombstones, RemoveIdentity, Removed,
         RemoveJournal, RemoveMarker, Finished, RestoreEvidence, Rethrow, At, files, history
<1>1. /\ {"sealed", "tombstones", "rmIdentity", "afterIdentity", "rmJournal"}
           \subseteq Opened \cap Sealing
      /\ {"afterJournal", "rmMarker"} \subseteq Closed \cap Sealing
      /\ {"afterMarker", "restore"} \subseteq Closed \ Sealing
      /\ "mark" \in Opened /\ "restore" \notin Opened /\ "rmMarker" \notin Opened
      /\ \A l \in Opened \cup Closed : l \in Statements
  BY Labels DEF Opened, Closed, Sealing, Publishing
<1>2. CASE run' = Thrown /\ UNCHANGED <<journal, husks>>
  BY <1>0, <1>2, ThrowStep
<1>3. ASSUME NEW l \in Opened \cup Closed, Go(l)
      PROVE  /\ run'.pc = l /\ run'.tx = run.tx /\ run'.ask = run.ask /\ run'.op = run.op
             /\ run'.wr = NoFile /\ run'.jc = run.jc /\ run'.ic = run.ic
             /\ run'.purge = run.purge
  BY <1>0, <1>1, <1>3, GoFields
<1>4. ASSUME NEW l \in Opened \cup Closed, Go(l), UNCHANGED <<journal, husks>>,
             run.pc \in Opened \cup Closed, l \in Opened => run.pc \in Opened,
             l \in Sealing => marker' # NoFile
      PROVE  IInv'
  <2>1. NoNewTomb
    BY <1>3, <1>4, TombsStep DEF Tombs
  <2>2. CASE l \in Opened
    BY <1>0, <1>3, <1>4, <2>2, OpenGoStep DEF Tombs
  <2>3. CASE l \in Closed
    BY <1>0, <1>3, <1>4, <2>1, <2>3, ClosedStep
  <2>. QED BY <1>4, <2>2, <2>3
<1>5. CASE PutMarker
  <2>1. run.pc = "mark" /\ UNCHANGED <<journal, husks>>
    BY <1>5 DEF PutMarker, At
  <2>2. marker' # NoFile
    BY <1>0, <1>5, NoFileAssumption DEF PutMarker, Invocation
  <2>. QED BY <1>5, <1>1, <1>2, <1>4, <2>1, <2>2 DEF PutMarker, Throw
<1>6. CASE Sealed
  BY <1>6, <1>1, <1>2, <1>4 DEF Sealed, At, Throw, evidence, Marked
<1>7. CASE DiscardTombstones
  <2>1. run.pc \in {"tombstones", "strays"} /\ UNCHANGED evidence
    BY <1>7 DEF DiscardTombstones, At
  <2>2. ASSUME run'.pc = run.pc, run'.tx = run.tx, run'.ask = run.ask, run'.op = run.op,
               run'.wr = NoFile, run'.jc \subseteq run.jc, run'.ic \subseteq run.ic,
               run'.purge \in run.jc \cup run.ic
        PROVE  IInv'
    <3>1. NoNewTomb
      BY <2>1, <2>2, TombsStep DEF Tombs, evidence
    <3>2. CASE run.pc = "tombstones"
      BY <1>0, <1>1, <2>1, <2>2, <3>2, OpenGoStep DEF Tombs, evidence, Marked
    <3>3. CASE run.pc = "strays"
      BY <1>0, <2>1, <2>2, <3>1, <3>3, ReadingStep DEF evidence, Asked
    <3>. QED BY <2>1, <3>2, <3>3
  <2>3. ASSUME NEW h \in run.jc, run' = [run EXCEPT !.jc = @ \ {h}, !.purge = h]
        PROVE  IInv'
    BY <1>0, <2>2, <2>3 DEF Invocation
  <2>4. ASSUME NEW h \in run.ic, run' = [run EXCEPT !.ic = @ \ {h}, !.purge = h]
        PROVE  IInv'
    BY <1>0, <2>2, <2>4 DEF Invocation
  <2>5. CASE Return
    BY <1>0, <2>1, <2>5, ReturnStep DEF evidence
  <2>6. CASE run.pc = "tombstones" /\ Go("rmIdentity")
    BY <1>1, <1>4, <2>1, <2>6 DEF evidence, Marked
  <2>. QED BY <1>7, <2>1, <2>3, <2>4, <2>5, <2>6 DEF DiscardTombstones
<1>8. CASE RemoveIdentity
  <2>1. run.pc = "rmIdentity"
    BY <1>8 DEF RemoveIdentity, At
  <2>2. CASE (Go("rmJournal") \/ Go("restore")) /\ UNCHANGED evidence
    BY <1>1, <1>4, <2>1, <2>2 DEF evidence, Marked
  <2>. DEFINE h == Tombstone("idTomb", identity)
  <2>3. CASE Bury(h, "afterIdentity") /\ UNCHANGED <<journal, marker>>
    <3>1. h.kind = "idTomb"
      BY DEF Tombstone
    <3>. HIDE DEF h
    <3>2. /\ run'.pc = "afterIdentity" /\ run'.tx = run.tx /\ run'.ask = run.ask
          /\ run'.op = run.op /\ run'.wr = NoFile /\ run'.jc = run.jc /\ run'.ic = run.ic
          /\ run'.purge = h /\ husks' = husks \cup {h}
      BY <1>0, <2>3 DEF Bury, Invocation
    <3>3. NoNewTomb
      BY <3>1, <3>2 DEF NoNewTomb, Tombs
    <3>4. WriteHome' /\ WriteProgress'
      BY <3>2 DEF WriteHome, WriteProgress
    <3>. QED BY <1>0, <1>1, <2>1, <2>3, <3>2, <3>3, <3>4, OpenStep DEF Marked
  <2>. QED BY <1>8, <2>2, <2>3 DEF RemoveIdentity
<1>9. CASE RemoveJournal
  <2>1. run.pc = "rmJournal"
    BY <1>9 DEF RemoveJournal, At
  <2>2. CASE run' = Thrown /\ UNCHANGED evidence
    BY <1>2, <2>2 DEF evidence
  <2>3. CASE Go("restore") /\ UNCHANGED evidence
    BY <1>1, <1>4, <2>1, <2>3 DEF evidence
  <2>. DEFINE h == JournalTombstone(journal)
  <2>4. CASE /\ AllPublished /\ journal' = NoFile
             /\ Bury(h, "afterJournal") /\ UNCHANGED <<identity, marker>>
    <3>1. h.kind = "journalTomb" /\ h.record = journal
      BY DEF JournalTombstone
    <3>. HIDE DEF h
    <3>2. /\ run'.pc = "afterJournal" /\ run'.tx = run.tx /\ run'.op = run.op
          /\ run'.ask = run.ask
          /\ run'.wr = NoFile /\ run'.jc = run.jc /\ run'.ic = run.ic
          /\ run'.purge = h /\ husks' = husks \cup {h}
      BY <1>0, <2>4 DEF Bury, Invocation
    <3>3. journal = begun /\ begun # NoFile /\ run.tx = begun
      BY <1>1, <2>1 DEF Loaded
    <3>4. Buried'
      BY <1>0, <3>1, <3>2, <3>3 DEF Buried, Tombs
    <3>5. Promise!Promised'
      BY <1>0, <2>4, <3>3 DEF AllPublished, Published, AtWant, Promise!Promised
    <3>6. Recorded' /\ Asked' /\ Prepared' /\ Loaded' /\ Marked'
      BY <1>0, <1>1, <2>1, <2>4, <3>2, <3>3
         DEF Recorded, Asked, Prepared, Loaded, Marked, Preparing, Opened, Publishing
    <3>7. WriteHome' /\ WriteProgress'
      BY <3>2 DEF WriteHome, WriteProgress
    <3>. QED BY <3>4, <3>5, <3>6, <3>7
  <2>. QED BY <1>9, <2>2, <2>3, <2>4 DEF RemoveJournal, Throw
<1>10. CASE RemoveMarker
  <2>1. run.pc = "rmMarker"
    BY <1>10 DEF RemoveMarker, At
  <2>2. CASE Go("restore") /\ UNCHANGED evidence
    BY <1>1, <1>4, <2>1, <2>2 DEF evidence
  <2>. DEFINE h == Tombstone("markerTomb", marker)
  <2>3. CASE Bury(h, "afterMarker") /\ UNCHANGED <<journal, identity>>
    <3>1. h.kind = "markerTomb"
      BY DEF Tombstone
    <3>. HIDE DEF h
    <3>2. /\ run'.pc = "afterMarker" /\ run'.tx = run.tx /\ run'.ask = run.ask
          /\ run'.op = run.op /\ run'.wr = NoFile /\ run'.jc = run.jc /\ run'.ic = run.ic
          /\ run'.purge = h /\ husks' = husks \cup {h}
      BY <1>0, <2>3 DEF Bury, Invocation
    <3>3. NoNewTomb
      BY <3>1, <3>2 DEF NoNewTomb, Tombs
    <3>. QED BY <1>0, <1>1, <2>1, <2>3, <3>2, <3>3, ClosedStep
  <2>. QED BY <1>10, <2>2, <2>3 DEF RemoveMarker
<1>11. CASE Removed("afterIdentity", "rmJournal") \/ Removed("afterJournal", "rmMarker")
  <2>1. CASE run.pc = "afterIdentity" /\ (Go("rmJournal") \/ Go("restore"))
             /\ UNCHANGED evidence
    BY <1>1, <1>4, <2>1 DEF evidence, Marked
  <2>2. CASE run.pc = "afterJournal" /\ (Go("rmMarker") \/ Go("restore"))
             /\ UNCHANGED evidence
    BY <1>1, <1>4, <2>2 DEF evidence, Marked
  <2>. QED BY <1>11, <2>1, <2>2 DEF Removed, At
<1>12. CASE Finished
  <2>1. run.pc = "afterMarker" /\ UNCHANGED evidence
    BY <1>12 DEF Finished, At
  <2>2. CASE Return
    BY <1>0, <2>1, <2>2, ReturnStep DEF evidence
  <2>3. CASE Go("restore")
    BY <1>1, <1>4, <2>1, <2>3 DEF evidence
  <2>. QED BY <1>12, <2>2, <2>3 DEF Finished
<1>13. CASE RestoreEvidence
  <2>1. run.pc = "restore" /\ UNCHANGED husks
    BY <1>13 DEF RestoreEvidence, At
  <2>2. CASE run' = Thrown /\ UNCHANGED <<journal, identity, marker>>
    BY <1>2, <2>1, <2>2
  <2>3. CASE UNCHANGED <<run, journal>>
    <3>1. NoNewTomb
      BY <2>1, <2>3, TombsStep DEF Tombs
    <3>. QED BY <1>0, <1>1, <2>1, <2>3, <3>1, ClosedStep
  <2>4. CASE journal' = run.tx /\ UNCHANGED run
    <3>1. run.tx = begun /\ begun # NoFile
      BY <1>1, <2>1 DEF Loaded
    <3>2. Recorded' /\ Promise!Promised'
      BY <1>0, <2>4, <3>1 DEF Recorded, Promise!Promised
    <3>3. NoNewTomb
      BY <2>1, <2>4, TombsStep DEF Tombs
    <3>4. Asked' /\ Prepared' /\ Loaded' /\ Marked' /\ WriteHome' /\ WriteProgress'
      BY <1>0, <2>1, <2>4, <3>1
         DEF Asked, Prepared, Loaded, Marked, WriteHome, WriteProgress, Preparing, Sealing
    <3>. QED BY <1>0, <3>2, <3>3, <3>4, BuriedStep
  <2>. QED BY <1>13, <2>2, <2>3, <2>4 DEF RestoreEvidence, Throw
<1>14. CASE Rethrow
  BY <1>0, <1>14, IdleStep DEF Rethrow, evidence
<1>. QED BY <1>5, <1>6, <1>7, <1>8, <1>9, <1>10, <1>11, <1>12, <1>13, <1>14 DEF FinalSteps

LEMMA InvDiscard ==
  ASSUME IInv, TypeOK', DiscardSteps
  PROVE  IInv'
<1>. USE DEF IInv
<1>0. run \in Invocation /\ UNCHANGED <<target, journal, marker, begun, touched>>
  BY DEF TypeOK, DiscardSteps, DiscardDebris, DiscardHusk, files, evidence, history
<1>1. CASE DiscardDebris
  <2>. DEFINE t == run.drop[1]
              k == run.drop[2]
              a == debris[t][k]
  <2>1. t \in Target /\ k \in TKind /\ run.drop = <<t, k>> /\ run.drop # NoFile
    BY <1>0, <1>1 DEF DiscardDebris, Invocation
  <2>2. Buried'
    <3>1. run'.jc = run.jc /\ run'.ic = run.ic /\ run'.purge = run.purge /\ husks' = husks
      BY <1>0, <1>1 DEF DiscardDebris, evidence, Invocation
    <3>. QED BY <1>0, <3>1 DEF Buried, Tombs
  <2>3. run.wr # NoFile => /\ run.wr.step \in {"unguard", "failed", "done"}
                           /\ run.wr.step = "unguard" => k = "tmp"
    <3>1. run.wr \in Writer \cup {NoFile}
      BY <1>0 DEF Invocation
    <3>. QED BY <2>1, <3>1 DEF WriteProgress, Writer
  <2>4. \A u \in Target, j \in TKind : <<u, j>> # <<t, k>> => debris'[u][j] = debris[u][j]
    BY <1>1, <2>1 DEF DiscardDebris, TypeOK
  <2>5. run'.wr = run.wr /\ run'.i = run.i /\ run'.drop \in {NoFile, run.drop}
    BY <1>0, <1>1 DEF DiscardDebris, Invocation
  <2>6. WriteProgress'
    <3>1. run.i \in Target /\ "replace" \in TKind
      BY <1>0 DEF Invocation, TKind
    <3>2. run.wr # NoFile /\ run.wr.step = "unguard" =>
            debris'[run.i]["replace"] = debris[run.i]["replace"]
      BY <2>3, <2>4, <3>1
    <3>. QED BY <2>3, <2>5, <3>2 DEF WriteProgress
  <2>. QED BY <1>0, <1>1, <2>2, <2>5, <2>6, DiscardStep DEF DiscardDebris, Invocation
<1>2. CASE DiscardHusk
  <2>. DEFINE h == run.purge
              next == [h EXCEPT !.at = AfterPlace[@]]
  <2>1. h \in Husk /\ h \in Tombs
    BY <1>0, <1>2 DEF DiscardHusk, Invocation, Tombs
  <2>2. next.kind = h.kind /\ (h.kind = "journalTomb" => next.record = h.record)
    BY <2>1 DEF Husk
  <2>. HIDE DEF next
  <2>3. \/ husks' = husks \ {h} /\ run' = [run EXCEPT !.purge = NoFile]
        \/ husks' = (husks \ {h}) \cup {next} /\ run' = [run EXCEPT !.purge = next]
    BY <1>2 DEF DiscardHusk, next
  <2>4. /\ run'.pc = run.pc /\ run'.tx = run.tx /\ run'.ask = run.ask /\ run'.op = run.op
        /\ run'.wr = run.wr /\ run'.i = run.i /\ run'.drop = run.drop
        /\ run'.jc = run.jc /\ run'.ic = run.ic /\ run'.purge \in {NoFile, next}
    BY <1>0, <2>3 DEF Invocation
  <2>5. \A g \in Tombs' : g \in Tombs \cup {next}
    BY <2>3, <2>4 DEF Tombs
  <2>6. Buried'
    BY <1>0, <2>1, <2>2, <2>5 DEF Buried
  <2>7. WriteProgress'
    BY <1>2, <2>4 DEF WriteProgress, DiscardHusk, files
  <2>. QED BY <1>0, <2>4, <2>6, <2>7, DiscardStep
<1>. QED BY <1>1, <1>2 DEF DiscardSteps

LEMMA InvEnvironment ==
  ASSUME IInv, TypeOK', Crash \/ \E t \in Target : External(t)
  PROVE  IInv'
<1>. USE DEF IInv
<1>1. CASE Crash
  BY <1>1, IdleStep DEF Crash, files, evidence
<1>2. ASSUME NEW t \in Target, External(t)
      PROVE  IInv'
  <2>1. /\ UNCHANGED <<debris, journal, identity, marker, husks, run, begun>>
        /\ touched' = touched \cup {t}
    BY <1>2 DEF External, evidence
  <2>2. \A u \in Target \ touched' : target'[u] = target[u]
    BY <1>2, <2>1 DEF External, TypeOK
  <2>3. Promise!Promised' /\ Prepared'
    BY <2>1, <2>2 DEF Promise!Promised, Prepared
  <2>4. Recorded' /\ Asked' /\ Loaded' /\ Marked' /\ WriteHome' /\ WriteProgress' /\ Buried'
    BY <2>1 DEF Recorded, Asked, Loaded, Marked, WriteHome, WriteProgress, Buried, Tombs
  <2>. QED BY <2>3, <2>4
<1>. QED BY <1>1, <1>2

LEMMA InvStep == ASSUME IInv, [Next]_vars PROVE IInv'
<1>1. CASE UNCHANGED vars
  BY <1>1 DEF IInv, TypeOK, Recorded, Promise!Promised, Asked, Prepared, Loaded, Marked,
              WriteHome, WriteProgress, Buried, Tombs, vars, files, evidence, history
<1>2. CASE Next
  <2>1. TypeOK'
    BY <1>2, TypeStep
  <2>2. CASE \E want \in [Target -> Wanted] : Commit(want)
    BY <2>1, <2>2, InvCommit
  <2>3. CASE Recover
    BY <2>1, <2>3, InvRead
  <2>4. CASE Working
    BY <2>1, <2>4, InvCommit, InvRead, InvReconcile, InvPublish, InvWrite, InvRollback,
       InvFinal, InvDiscard DEF Working
  <2>5. CASE Crash \/ \E t \in Target : External(t)
    BY <2>1, <2>5, InvEnvironment
  <2>. QED BY <1>2, <2>2, <2>3, <2>4, <2>5 DEF Next
<1>. QED BY <1>1, <1>2

-------------------------------------------------------------------------------
\* Theorems

\* The initial states satisfy the invariant.
LEMMA InvInit == ASSUME Init PROVE IInv
<1>1. /\ run = Idle /\ journal = NoFile /\ begun = NoFile /\ husks = {}
  BY DEF Init
<1>2. TypeOK
  <2>1. 0 \in Nat /\ faults \in [{"commit", "crash", "external", "invalid"} -> Nat]
    BY DEF Init
  <2>2. tampered \in BOOLEAN
    BY Zenon DEF Init
  <2>. QED BY <2>1, <2>2, IdleType DEF Init, TypeOK
<1>3. /\ run.pc = "idle" /\ run.op = "recover" /\ run.wr = NoFile
      /\ run.jc = {} /\ run.ic = {} /\ run.purge = NoFile
  BY <1>1 DEF Idle
<1>. QED BY <1>1, <1>2, <1>3
         DEF IInv, Recorded, Promise!Promised, Asked, Prepared, Loaded, Marked,
             WriteHome, WriteProgress, Buried, Tombs, Preparing, Opened, Closed, Sealing,
             Publishing

\* The inductive invariant holds in every reachable state of the transaction.
THEOREM Invariance == Spec => []IInv
<1>1. Init => IInv
  BY InvInit
<1>2. IInv /\ [Next]_vars => IInv'
  BY InvStep
<1>. QED BY <1>1, <1>2, PTL DEF Spec

\* Every variable keeps its type, whatever crashes and foreign writes intervene.
THEOREM TypeCorrect == Spec => []TypeOK
<1>1. IInv => TypeOK
  BY DEF IInv
<1>. QED BY <1>1, Invariance, PTL

\* All or nothing: once a transaction has left no evidence, every target nobody
\* else wrote holds the desired bytes.
THEOREM AllDurable == Spec => []Durability
<1>1. IInv => Durability
  BY DEF IInv, Durability, Settled, Promise!Promised
<1>. QED BY <1>1, Invariance, PTL

\* A half-published transaction always has its journal at its name.
THEOREM PartialJournalled == Spec => []PartialHasJournal
<1>1. IInv => PartialHasJournal
  BY DEF IInv, PartialHasJournal, Recorded, Promise!Promised
<1>. QED BY <1>1, Invariance, PTL

-------------------------------------------------------------------------------
\* What a step does to the targets and to the journal

\* The steps at which the journal is not at its name write no target; those at
\* which it is move one target between the contents of the transaction.
MovesOne ==
  LET t == run.i
      named == {begun.prior[t], begun.want[t], NoFile}
  IN /\ t \in Target /\ journal = begun /\ begun # NoFile /\ run.tx = begun
     /\ Data(target[t]) \in named
     /\ \E e \in Entry \cup {NoFile} :
          target' = [target EXCEPT ![t] = e] /\ Data(e) \in named

LEMMA TargetStep ==
  ASSUME IInv, TypeOK', Next, target' # target
  PROVE  \/ \E t \in Target : External(t)
         \/ MovesOne /\ UNCHANGED <<journal, begun, touched, faults>>
<1>. USE DEF IInv
<1>. DEFINE t == run.i
            guard == debris[t]["replace"]
            prior == begun.prior[t]
            want  == begun.want[t]
            data(e) == [data |-> e.data, ino |-> e.ino]
<1>0. run \in Invocation /\ t \in Target
  BY DEF TypeOK, Invocation
<1>1. \/ \E u \in Target : External(u)
      \/ ReconcileGuard \/ WriteGuard \/ WritePlace \/ WriteUnguard \/ RollbackRemove
  BY DEF Next, Working, Commit, Recover, Crash, CommitSteps, Capture, PutIdentity, PutJournal,
         ReadSteps, Scan, Quarantine, AdmitNoJournal, RestoreJournal, Admit, CheckTargets,
         ReconcileSteps, ReconcileRename, ReconcileTemporary, ReconcileNext,
         PublishSteps, Validate, Publish, Persist, PersistPlace, ValidateTargets,
         WriteSteps, WriteOpen, WriteCreate, WriteFill, WriteVerify, WriteAbort, WriteReturn,
         WriteRaise, RollbackSteps, Rollback, RollbackRemoved,
         FinalSteps, PutMarker, Sealed, DiscardTombstones, RemoveIdentity, Removed,
         RemoveJournal, RemoveMarker, Finished, RestoreEvidence, Rethrow,
         DiscardSteps, DiscardDebris, DiscardHusk, files
<1>2. ASSUME ReconcileGuard \/ WriteGuard \/ WritePlace \/ WriteUnguard \/ RollbackRemove
      PROVE  /\ UNCHANGED <<journal, begun, touched, faults>>
             /\ journal = begun /\ begun # NoFile /\ run.tx = begun
             /\ begun.prior[t] \in Content \cup {NoFile} /\ begun.want[t] \in Content
  <2>1. run.pc \in Opened
    BY <1>2 DEF ReconcileGuard, Reconciling, WriteGuard, WritePlace, WriteUnguard, Step,
                WriteHome, RollbackRemove, At, Opened, Publishing
  <2>2. begun \in Record
    BY <2>1 DEF Loaded, TypeOK
  <2>. QED BY <1>0, <1>2, <2>1, <2>2
           DEF Loaded, Record, ReconcileGuard, WriteGuard, WritePlace, WriteUnguard,
               RollbackRemove, evidence, history
<1>3. target \in [Target -> Entry \cup {NoFile}] /\ target' \in [Target -> Entry \cup {NoFile}]
  BY DEF TypeOK
<1>4. ASSUME NEW e, target' = [target EXCEPT ![t] = e],
             Data(target[t]) \in {prior, want, NoFile}, Data(e) \in {prior, want, NoFile},
             ReconcileGuard \/ WriteGuard \/ WritePlace \/ WriteUnguard \/ RollbackRemove
      PROVE  MovesOne /\ UNCHANGED <<journal, begun, touched, faults>>
  <2>1. target'[t] = e
    BY <1>0, <1>3, <1>4
  <2>2. e \in Entry \cup {NoFile}
    BY <1>0, <1>3, <2>1
  <2>. QED BY <1>0, <1>2, <1>4, <2>2 DEF MovesOne
<1>5. Data(NoFile) = NoFile
  BY DEF Data
<1>6. \A d \in Content : \A n : Data([data |-> d, ino |-> n]) \in {d, NoFile}
  BY DEF Data
<1>7. CASE ReconcileGuard
  <2>1. PICK e : /\ e = [data |-> guard.data, ino |-> guard.ino] /\ guard.data = run.tx.prior[t]
                 /\ target[t] = NoFile /\ target' = [target EXCEPT ![t] = e]
                 /\ run.tx.prior[t] # NoFile
    BY <1>7 DEF ReconcileGuard, Here
  <2>2. Data(e) \in {prior, want, NoFile}
    BY <2>1, <1>2, <1>6, <1>7
  <2>. QED BY <2>1, <2>2, <1>4, <1>5, <1>7
<1>8. CASE WriteGuard
  <2>1. /\ target' = [target EXCEPT ![t] = NoFile]
        /\ target[t] # NoFile /\ target[t].data = run.wr.exp
    BY <1>8 DEF WriteGuard, StillExpected, files
  <2>2. run.wr.exp \in {prior, want}
    BY <1>2, <1>8 DEF WriteGuard, Step, WriteHome
  <2>. QED BY <2>1, <2>2, <1>4, <1>5, <1>8 DEF Data
<1>9. CASE WritePlace
  <2>1. PICK e : /\ e = [data |-> run.wr.val, ino |-> run.wr.new]
                 /\ target[t] = NoFile /\ target' = [target EXCEPT ![t] = e]
    BY <1>9 DEF WritePlace, files
  <2>2. run.wr.val \in {prior, want} /\ run.wr.val \in Content
    BY <1>0, <1>2, <1>9 DEF WritePlace, Step, WriteHome, Invocation, Writer
  <2>3. Data(e) \in {prior, want, NoFile}
    BY <2>1, <2>2, <1>6
  <2>. QED BY <2>1, <2>3, <1>4, <1>5, <1>9
<1>10. CASE WriteUnguard
  <2>1. PICK e : /\ e = [data |-> guard.data, ino |-> guard.ino] /\ run.wr.moved
                 /\ target[t] = NoFile /\ target' = [target EXCEPT ![t] = e]
    BY <1>10 DEF WriteUnguard, Here
  <2>2. guard.data = run.wr.exp /\ run.wr.exp # NoFile
    BY <1>10, <2>1 DEF WriteUnguard, Step, WriteProgress
  <2>3. run.wr.exp \in {prior, want} /\ run.wr.exp \in Content
    BY <1>0, <1>2, <1>10, <2>2 DEF WriteUnguard, Step, WriteHome
  <2>4. Data(e) \in {prior, want, NoFile}
    BY <2>1, <2>2, <2>3, <1>6
  <2>. QED BY <2>1, <2>4, <1>4, <1>5, <1>10
<1>11. CASE RollbackRemove
  <2>1. target' = [target EXCEPT ![t] = NoFile] /\ Data(target[t]) = want
    BY <1>2, <1>11 DEF RollbackRemove, AtWant, files
  <2>. QED BY <2>1, <1>4, <1>5, <1>11
<1>. QED BY <1>1, <1>7, <1>8, <1>9, <1>10, <1>11

\* No invocation displaces bytes that are neither the prior nor the desired
\* ones of its transaction.
THEOREM NothingClobbered == Spec => NoClobber
<1>. DEFINE Kept == \A t \in Target :
              target[t] # NoFile /\ target'[t] # target[t] /\ faults'.external = faults.external =>
                target[t].data \in {run.tx.prior[t], run.tx.want[t]}
<1>1. ASSUME IInv, Next, IInv' PROVE Kept
  <2>1. CASE target' = target
    BY <2>1
  <2>2. CASE \E t \in Target : External(t)
    <3>1. faults.external \in Nat /\ faults' = [faults EXCEPT !.external = @ + 1]
      BY <1>1, <2>2 DEF IInv, TypeOK, External
    <3>2. faults'.external = faults.external + 1
      BY <1>1, <3>1 DEF IInv, TypeOK
    <3>. QED BY <3>1, <3>2
  <2>3. CASE MovesOne
    <3>1. \A t \in Target : target'[t] # target[t] => t = run.i
      BY <1>1, <2>3 DEF MovesOne, IInv, TypeOK
    <3>2. target[run.i] # NoFile => Data(target[run.i]) = target[run.i].data
      BY DEF Data
    <3>3. target[run.i] # NoFile => target[run.i].data # NoFile
      BY <1>1, <2>3, ConstantsAssumption DEF MovesOne, IInv, TypeOK, Entry
    <3>. QED BY <2>3, <3>1, <3>2, <3>3 DEF MovesOne
  <2>. QED BY <1>1, <2>1, <2>2, <2>3, TargetStep DEF IInv
<1>2. IInv /\ IInv' /\ [Next]_vars => [Kept]_vars
  BY <1>1
<1>. QED BY <1>2, Invariance, PTL DEF Spec, NoClobber

-------------------------------------------------------------------------------
\* The transaction implements AllOrNothing

\* A step either leaves the journal and its record alone, or prepares, opens,
\* closes or reopens a transaction.
LEMMA JournalStep ==
  ASSUME IInv, TypeOK', Next, UNCHANGED target
  PROVE  \/ UNCHANGED <<journal, begun, touched>>
         \/ journal = NoFile /\ journal' = NoFile /\ begun' = NoFile /\ touched' = {}
         \/ /\ journal = NoFile /\ begun = NoFile /\ journal' # NoFile /\ begun' = journal'
            /\ \A t \in Target \ touched : begun'.prior[t] = Data(target[t])
            /\ UNCHANGED touched
         \/ /\ journal # NoFile /\ begun # NoFile /\ journal' = NoFile
            /\ \A t \in Target : Data(target[t]) = begun.want[t]
            /\ UNCHANGED <<begun, touched>>
         \/ begun # NoFile /\ journal' # NoFile /\ UNCHANGED <<begun, touched>>
         \/ \E t \in Target : External(t)
<1>. USE DEF IInv
<1>1. \/ UNCHANGED <<journal, begun, touched>>
      \/ Capture \/ PutJournal \/ RestoreJournal \/ RemoveJournal \/ RestoreEvidence
      \/ \E t \in Target : External(t)
  BY DEF Next, Working, Commit, Recover, Crash, CommitSteps, PutIdentity,
         ReadSteps, Scan, Quarantine, AdmitNoJournal, Admit, CheckTargets,
         ReconcileSteps, ReconcileRename, ReconcileGuard, ReconcileTemporary, ReconcileNext,
         PublishSteps, Validate, Publish, Persist, PersistPlace, ValidateTargets,
         WriteSteps, WriteOpen, WriteCreate, WriteFill, WriteGuard, WritePlace, WriteVerify,
         WriteAbort, WriteUnguard, WriteReturn, WriteRaise,
         RollbackSteps, Rollback, RollbackRemove, RollbackRemoved,
         FinalSteps, PutMarker, Sealed, DiscardTombstones, RemoveIdentity, Removed,
         RemoveMarker, Finished, Rethrow, DiscardSteps, DiscardDebris, DiscardHusk,
         files, evidence, history
<1>2. CASE Capture
  BY <1>2 DEF Capture, evidence
<1>3. CASE PutJournal
  BY <1>3 DEF PutJournal, At, Prepared, Preparing
<1>4. CASE RestoreJournal
  <2>1. ASSUME NEW h \in JournalCandidates, journal' = h.record
        PROVE  begun # NoFile /\ journal' # NoFile
    BY <2>1, Candidates DEF Buried, Tombs
  <2>. QED BY <1>4, <2>1 DEF RestoreJournal, history
<1>5. CASE RemoveJournal
  BY <1>5 DEF RemoveJournal, At, Loaded, Opened, AllPublished, Published, AtWant, history,
              evidence
<1>6. CASE RestoreEvidence
  BY <1>6 DEF RestoreEvidence, At, Loaded, Closed, history
<1>. QED BY <1>1, <1>2, <1>3, <1>4, <1>5, <1>6

\* A foreign write is a foreign write of the abstract specification.
LEMMA ForeignStep ==
  ASSUME IInv, TypeOK', NEW t \in Target, External(t)
  PROVE  Promise!Foreign(t)
<1>1. PICK e \in Entry \cup {NoFile} : target' = [target EXCEPT ![t] = e]
  <2>1. PICK e : target' = [target EXCEPT ![t] = e]
    BY DEF External
  <2>. QED BY <2>1 DEF IInv, TypeOK
<1>2. Data(e) \in Content \cup {NoFile}
  BY DEF Data, Entry
<1>3. [u \in Target |-> Data(target'[u])]
        = [[u \in Target |-> Data(target[u])] EXCEPT ![t] = Data(e)]
  BY <1>1 DEF IInv, TypeOK
<1>4. touched' = touched \cup {t} /\ UNCHANGED <<journal, begun>>
  BY DEF External, evidence
<1>. QED BY <1>2, <1>3, <1>4 DEF Promise!Foreign, Promise!State

\* Every write of a target is one of the contents of an open transaction.
LEMMA ApplyStep ==
  ASSUME IInv, MovesOne, UNCHANGED <<journal, begun, touched>>
  PROVE  Promise!Apply(run.i)
<1>. DEFINE t == run.i
            named == {begun.prior[t], begun.want[t], NoFile}
            store == [u \in Target |-> Data(target[u])]
<1>1. PICK e \in Entry \cup {NoFile} :
        target' = [target EXCEPT ![t] = e] /\ Data(e) \in named
  BY DEF MovesOne
<1>2. [u \in Target |-> Data(target'[u])] = [store EXCEPT ![t] = Data(e)]
  BY <1>1 DEF IInv, TypeOK, MovesOne
<1>3. t \in Target /\ store[t] \in named /\ journal # NoFile
  BY DEF MovesOne
<1>. QED BY <1>1, <1>2, <1>3 DEF Promise!Apply

\* The steps of the transaction are steps of the abstract one.
LEMMA PromiseStep == ASSUME IInv, IInv', [Next]_vars PROVE [Promise!Next]_(Promise!vars)
<1>1. CASE UNCHANGED vars
  BY <1>1 DEF vars, files, evidence, history, Promise!vars
<1>2. CASE Next /\ target' # target
  BY <1>2, TargetStep, ForeignStep, ApplyStep DEF IInv, MovesOne, Promise!Next
<1>3. CASE Next /\ UNCHANGED target
  <2>1. CASE UNCHANGED <<journal, begun, touched>>
    BY <1>3, <2>1 DEF Promise!vars
  <2>2. CASE journal = NoFile /\ journal' = NoFile /\ begun' = NoFile /\ touched' = {}
    BY <1>3, <2>2 DEF Promise!Next, Promise!Prepare
  <2>3. CASE /\ journal = NoFile /\ begun = NoFile /\ journal' # NoFile /\ begun' = journal'
             /\ \A t \in Target \ touched : begun'.prior[t] = Data(target[t])
             /\ UNCHANGED touched
    <3>1. begun' \in Promise!Record
      BY <2>3 DEF IInv, TypeOK, Record, Promise!Record, Promise!State
    <3>2. \A t \in Target \ touched :
            begun'.prior[t] = [u \in Target |-> Data(target[u])][t]
      BY <2>3
    <3>. QED BY <1>3, <2>3, <3>1, <3>2 DEF Promise!Next, Promise!Open
  <2>4. CASE /\ journal # NoFile /\ begun # NoFile /\ journal' = NoFile
             /\ \A t \in Target : Data(target[t]) = begun.want[t]
             /\ UNCHANGED <<begun, touched>>
    BY <1>3, <2>4 DEF Promise!Next, Promise!Close
  <2>5. CASE begun # NoFile /\ journal' # NoFile /\ UNCHANGED <<begun, touched>>
    BY <1>3, <2>5 DEF Promise!Next, Promise!Reopen, Promise!vars
  <2>6. CASE \E t \in Target : External(t)
    BY <2>6, ForeignStep DEF IInv, Promise!Next
  <2>. QED BY <1>3, <2>1, <2>2, <2>3, <2>4, <2>5, <2>6, JournalStep DEF IInv
<1>. QED BY <1>1, <1>2, <1>3

\* The transaction, with its guards, sidecar, marker and deletions hidden,
\* is a transaction of AllOrNothing.
THEOREM Implements == Spec => ImplementsAllOrNothing
<1>1. Init => Promise!Init
  <2>1. ASSUME Init PROVE [t \in Target |-> Data(target[t])] \in [Target -> Promise!State]
    BY <2>1 DEF Init, Data, Entry, Promise!State
  <2>. QED BY <2>1 DEF Init, Promise!Init
<1>2. IInv /\ IInv' /\ [Next]_vars => [Promise!Next]_(Promise!vars)
  BY PromiseStep
<1>. QED BY <1>1, <1>2, Invariance, PTL DEF Spec, ImplementsAllOrNothing, Promise!Spec
===============================================================================
