-------------------------- MODULE RolloutTransaction --------------------------
(***************************************************************************)
(* The journalled multi-file transaction of                                *)
(* scripts/catalog_rollout_evidence.py: commit_catalog_rollout_transaction *)
(* and recover_catalog_rollout_transaction, with the crashes, external     *)
(* writers and validation failures they are written against.               *)
(*                                                                         *)
(* Durable state is what a directory listing shows after a crash: the      *)
(* targets, the three evidence files (journal, identity sidecar,           *)
(* finalization marker) and the artifacts that an interrupted rename or    *)
(* deletion leaves next to them.  Volatile state (run) is what one         *)
(* invocation keeps in memory.  One invocation runs at a time: the         *)
(* repository root is flock'ed, so run.pc = "idle" is the free lock and a  *)
(* crash releases it.                                                      *)
(*                                                                         *)
(* One action is one durable system call together with the checks that     *)
(* guard it; a crash or an external write may come between any two.        *)
(***************************************************************************)
EXTENDS Naturals, FiniteSets

CONSTANTS
  N,            \* targets are 1..N, in the order of the journal's "writes"
  Content,      \* byte contents (with their mode) a target may hold
  Wanted,       \* contents a caller commits, a subset of Content
  Ino,          \* (device, inode) pairs of target files
  NoFile,       \* the name does not exist; also "no value"
  Torn,         \* content of a temporary file before its bytes are complete
  NoIno,        \* no inode recorded for a target
  MaxCommit,    \* bound: transactions begun
  MaxCrash,     \* bound: process crashes
  MaxExternal,  \* bound: writes by processes outside the lock
  MaxInvalid    \* bound: rejections by the cross-file validation

Target == 1..N

ASSUME ConstantsAssumption ==
  /\ N \in Nat \ {0}
  /\ Wanted \subseteq Content
  /\ NoFile \notin Content /\ Torn \notin Content /\ NoFile # Torn
  /\ NoIno \notin Ino
  /\ {MaxCommit, MaxCrash, MaxExternal, MaxInvalid} \subseteq Nat

Entry  == [data : Content, ino : Ino]
Record == [prior : [Target -> Content \cup {NoFile}], want : [Target -> Content]]
Inodes == [Target -> Ino \cup {NoIno}]

(***************************************************************************)
(* Where an entry under deletion is found, in the order the deletion       *)
(* protocol moves it: under its own artifact name; under the public        *)
(* cleanup name; inside the quarantine directory under a restorable name;  *)
(* inside it under a name recovery rejects, or unlinked already with       *)
(* private directories left; an empty quarantine directory.                *)
(***************************************************************************)
Place == {"base", "cleanup", "held", "stranded", "hollow"}
Quarantined == {"held", "stranded", "hollow"}
AfterPlace == [base |-> "cleanup", cleanup |-> "held", held |-> "stranded",
               stranded |-> "hollow"]

TKind == {"tmp", "replace", "rollback"}
Artifact == [at : Place, data : Content \cup {Torn}, ino : Ino]

\* NoFile is told apart from the values it stands in for.
ASSUME NoFileAssumption ==
  NoFile \notin Entry \cup Artifact \cup Record \cup Inodes \cup [Target -> Content]

\* Artifacts of the evidence files: the guard an identity update moves the old
\* sidecar to, and the tombstone each file is removed through.
Husk == [kind : {"idGuard", "idTomb", "markerTomb"}, at : Place, val : Inodes]
          \cup [kind : {"journalTomb"}, at : Place, record : Record]

VARIABLES
  target,    \* [Target -> Entry or NoFile]
  journal,   \* Record or NoFile
  identity,  \* published-identities of the sidecar, or NoFile
  marker,    \* published-identities of the finalization marker, or NoFile
  debris,    \* [Target -> [TKind -> Artifact or NoFile]]
  husks,     \* set of Husk
  run,       \* the running invocation's memory
  begun,     \* history: the Record of the last journal written, or NoFile
  touched,   \* history: targets written from outside since that journal
  tampered,  \* history: a target or the validation changed under a marker
  faults     \* history: how much of each bound is used up

files    == <<target, debris>>
evidence == <<journal, identity, marker, husks>>
history  == <<begun, touched, tampered, faults>>
vars     == <<files, evidence, run, history>>

-------------------------------------------------------------------------------
\* In-memory state

NoPub == [t \in Target |-> NoIno]

\* No invocation: the lock is free.
Idle == [pc   |-> "idle",     \* the statement the invocation is at
         op   |-> "recover",  \* "precommit": recovery called by commit
         ask  |-> NoFile,     \* contents passed to commit
         tx   |-> NoFile,     \* the parsed journal
         pub  |-> NoPub,      \* published_identities
         jc   |-> {},         \* journal tombstones
         ic   |-> {},         \* identity tombstones
         i    |-> 1,          \* loop index over the targets
         wr   |-> NoFile,     \* the running _atomic_write_bytes_at on target i
         drop |-> NoFile,     \* the target artifact being discarded
         purge |-> NoFile]    \* the evidence artifact being discarded

Publishing == {"publish", "persist", "persistPlace", "reconcile2", "validate2",
               "targets"}

Statements == {"idle", "capture", "putIdentity", "putJournal", "scan", "quarantine",
               "admit", "strays", "reconcile1", "check", "validate1", "thrown",
               "rollback", "remove", "removed", "mark", "sealed", "tombstones",
               "rmIdentity", "afterIdentity", "rmJournal", "afterJournal",
               "rmMarker", "afterMarker", "restore"} \cup Publishing

\* One call of _atomic_write_bytes_at: the bytes to write and to replace, the
\* inode locked and the one created, and whether the guard was moved.
Writer == [step : {"open", "create", "fill", "guard", "place", "verify", "done",
                   "abort", "unguard", "failed"},
           val : Content, exp : Content \cup {NoFile},
           lock : Ino \cup {NoIno}, new : Ino \cup {NoIno}, moved : BOOLEAN]

Invocation ==
  [pc : Statements, op : {"recover", "precommit"},
   ask : [Target -> Content] \cup {NoFile}, tx : Record \cup {NoFile},
   pub : Inodes, jc : SUBSET Husk, ic : SUBSET Husk, i : Target,
   wr : Writer \cup {NoFile}, drop : (Target \X TKind) \cup {NoFile},
   purge : Husk \cup {NoFile}]

\* Nor is NoFile a running write, a discard or the evidence one removes.
ASSUME NoTaskAssumption == NoFile \notin Writer \cup (Target \X TKind) \cup Husk

\* The invocation is at statement l; no write or discard it called is running.
At(l) == run.pc = l /\ run.wr = NoFile /\ run.drop = NoFile /\ run.purge = NoFile
Go(l) == run' = [run EXCEPT !.pc = l]

\* An exception: inside the publication's try block it starts the rollback,
\* anywhere else it leaves the invocation.
\* Mutant: the failure leaves the invocation without a rollback.
ThrownAway == Idle

Thrown == IF run.pc \in Publishing
            THEN [run EXCEPT !.pc = "rollback", !.i = N, !.wr = NoFile]
            ELSE Idle
Throw == run' = Thrown

\* A normal return; commit's preliminary recovery continues inside commit.
\* Mutant: what commit was asked is lost with the recovery's memory.
ReturnForgetting == run' = IF run.op = "precommit" THEN [Idle EXCEPT !.pc = "capture"] ELSE Idle

Return == run' = IF run.op = "precommit"
                   THEN [Idle EXCEPT !.pc = "capture", !.ask = run.ask]
                   ELSE Idle

\* The target loops: the next target, or statement l after the last one.
Advance(r, l) == IF r.i < N THEN [r EXCEPT !.i = r.i + 1]
                            ELSE [r EXCEPT !.i = 1, !.pc = l]

-------------------------------------------------------------------------------
\* What the invocation observes

Data(e) == IF e = NoFile THEN NoFile ELSE e.data

Artifacts == {debris[p[1]][p[2]] : p \in Target \X TKind} \ {NoFile}

InUse == {target[t].ino : t \in {u \in Target : target[u] # NoFile}}
           \cup {a.ino : a \in Artifacts}
           \cup (IF run.wr = NoFile THEN {} ELSE {run.wr.lock})

\* Journal tombstones, and what looks like an identity tombstone: a
\* replacement guard does once its deletion gave it a ".rollback" name.
JournalCandidates == {h \in husks : h.kind = "journalTomb" /\ h.at \in {"base", "cleanup"}}
IdentityCandidates == {h \in husks : \/ h.kind = "idTomb" /\ h.at \in {"base", "cleanup"}
                                     \/ h.kind = "idGuard" /\ h.at = "cleanup"}

Quarantines == {x \in Artifacts \cup husks : x.at \in Quarantined}

PendingEvidence == \/ identity # NoFile \/ marker # NoFile
                   \/ IdentityCandidates # {} \/ JournalCandidates # {}
                   \/ Quarantines # {}

\* Target t is at its prior state; at the desired bytes; at the desired bytes
\* in the very inode this transaction recorded.
AtPrior(t)   == Data(target[t]) = run.tx.prior[t]
AtWant(t)    == Data(target[t]) = run.tx.want[t]

\* Mutants: the bytes alone decide; a target nobody recorded has nothing to check.
PublishedBytes(t) == AtWant(t)
PublishedUnlessRecorded(t) ==
  run.pub[t] = NoIno \/ (AtWant(t) /\ target[t].ino = run.pub[t])

Published(t) == AtWant(t) /\ run.pub[t] # NoIno /\ target[t].ino = run.pub[t]

\* Mutant: one published target passes for all.
AnyPublished == \E t \in Target : Published(t)

AllPublished == \A t \in Target : Published(t)

-------------------------------------------------------------------------------
Init ==
  /\ target \in [Target -> Entry \cup {NoFile}]
  /\ \A t, u \in Target :
       t # u /\ target[t] # NoFile /\ target[u] # NoFile => target[t].ino # target[u].ino
  /\ journal = NoFile /\ identity = NoFile /\ marker = NoFile
  /\ debris = [t \in Target |-> [k \in TKind |-> NoFile]]
  /\ husks = {}
  /\ run = Idle
  /\ begun = NoFile /\ touched = {} /\ tampered = FALSE
  /\ faults = [commit |-> 0, crash |-> 0, external |-> 0, invalid |-> 0]

-------------------------------------------------------------------------------
\* commit_catalog_rollout_transaction

\* A pending journal is refused; other evidence is recovered first.
Commit(want) ==
  /\ run.pc = "idle" /\ journal = NoFile /\ faults.commit < MaxCommit
  /\ run' = [Idle EXCEPT !.pc  = IF PendingEvidence THEN "scan" ELSE "capture",
                         !.op  = "precommit",
                         !.ask = want]
  /\ faults' = [faults EXCEPT !.commit = @ + 1]
  /\ UNCHANGED <<files, evidence, begun, touched, tampered>>

\* Evidence that survived its recovery refuses the commit; otherwise the prior
\* state of every target is read.
Capture ==
  /\ At("capture")
  /\ IF journal # NoFile \/ PendingEvidence
       THEN run' = Idle /\ UNCHANGED <<begun, touched, tampered>>
       ELSE /\ run' = [Idle EXCEPT
                         !.pc = "putIdentity",
                         !.tx = [prior |-> [t \in Target |-> Data(target[t])],
                                 want  |-> run.ask]]
            /\ begun' = NoFile /\ touched' = {} /\ tampered' = FALSE
  /\ UNCHANGED <<files, evidence, faults>>

PutIdentity ==
  /\ At("putIdentity")
  /\ identity' = NoPub
  /\ Go("putJournal")
  /\ UNCHANGED <<files, journal, marker, husks, history>>

\* Mutant: the publication starts from memory, before its journal exists.
PutJournalLate ==
  /\ At("putJournal")
  /\ begun' = run.tx
  /\ run' = [run EXCEPT !.pc = "reconcile1"]
  /\ UNCHANGED <<files, evidence, touched, tampered, faults>>

PutJournal ==
  /\ At("putJournal")
  /\ journal' = run.tx
  /\ begun' = run.tx
  /\ run' = [Idle EXCEPT !.pc = "scan"]
  /\ UNCHANGED <<files, identity, marker, husks, touched, tampered, faults>>

-------------------------------------------------------------------------------
\* _recover_catalog_rollout_transaction: reading the evidence

Recover ==
  /\ run.pc = "idle"
  /\ run' = [Idle EXCEPT !.pc = "scan"]
  /\ UNCHANGED <<files, evidence, history>>

\* The candidates are listed before quarantined entries come back.  A missing
\* sidecar is linked back from its only tombstone.
Scan ==
  /\ At("scan")
  /\ LET lost == /\ identity = NoFile /\ IdentityCandidates # {}
                 /\ journal # NoFile \/ JournalCandidates # {} \/ marker # NoFile
     IN IF lost /\ Cardinality(IdentityCandidates) > 1
          THEN Throw /\ UNCHANGED identity
          ELSE /\ \/ ~lost /\ UNCHANGED identity
                  \/ lost /\ \E h \in IdentityCandidates : identity' = h.val
               /\ run' = [run EXCEPT !.pc = "quarantine", !.jc = JournalCandidates,
                                     !.ic = IdentityCandidates]
  /\ UNCHANGED <<files, journal, marker, husks, history>>

\* Mutant: the directories are only listed.
SurfaceNothing(x) == x

\* _recover_quarantine_directories_at: re-expose what each directory holds.
Surface(x) == IF x.at = "held" THEN [x EXCEPT !.at = "cleanup"] ELSE x

Quarantine ==
  /\ At("quarantine")
  /\ IF \/ \E x \in Quarantines : x.at = "stranded"
        \/ Quarantines # {} /\ identity = NoFile /\ journal = NoFile /\ marker = NoFile
       THEN Throw /\ UNCHANGED <<debris, husks>>
       ELSE /\ debris' = [t \in Target |-> [k \in TKind |->
                            LET a == debris[t][k] IN
                            IF a = NoFile \/ a.at = "hollow" THEN NoFile ELSE Surface(a)]]
            /\ husks' = {Surface(h) : h \in {g \in husks : g.at # "hollow"}}
            /\ Go("admit")
  /\ UNCHANGED <<target, journal, identity, marker, history>>

\* Without a journal and without its tombstone, identity or finalization
\* evidence is refused; with neither, stray identity tombstones are discarded
\* and there is nothing to recover.
AdmitNoJournal ==
  /\ At("admit") /\ journal = NoFile /\ run.jc = {}
  /\ IF identity # NoFile \/ marker # NoFile
       THEN Throw
       ELSE run' = [run EXCEPT !.pc = "strays",
                               !.ic = IF @ = {} THEN {} ELSE IdentityCandidates]
  /\ UNCHANGED <<files, evidence, history>>

\* _restore_transaction_journal_tombstone_at
RestoreJournal ==
  /\ At("admit") /\ journal = NoFile /\ run.jc # {}
  /\ IF identity = NoFile /\ marker = NoFile
       THEN Throw /\ UNCHANGED journal
       ELSE /\ \E h \in JournalCandidates : journal' = h.record
            /\ run' = [run EXCEPT !.jc = JournalCandidates]
  /\ UNCHANGED <<files, identity, marker, husks, history>>

\* The journal is bound to the sidecar (or the marker); identity tombstones
\* must equal the sidecar; under a marker every target must already be the
\* recorded inode with the desired bytes.
Admit ==
  /\ At("admit") /\ journal # NoFile
  /\ LET ids == IF run.ic = {} THEN {} ELSE IdentityCandidates
         js  == IF run.jc = {} THEN {} ELSE JournalCandidates
         sealed(t) == /\ Data(target[t]) = journal.want[t]
                      /\ marker[t] # NoIno /\ target[t].ino = marker[t]
     IN IF \/ identity = NoFile /\ marker = NoFile
           \/ identity # NoFile /\ \E h \in ids : h.val # identity
           \/ marker # NoFile /\ \E t \in Target : ~sealed(t)
          THEN Throw
          ELSE run' = [run EXCEPT !.pc  = "reconcile1", !.i = 1,
                                  !.tx  = journal,
                                  !.pub = IF marker # NoFile THEN marker ELSE identity,
                                  !.ic  = ids, !.jc = js]
  /\ UNCHANGED <<files, evidence, history>>

-------------------------------------------------------------------------------
\* _reconcile_target_artifacts_at, run before and after the publication

Here == debris[run.i]
Reconciling == At("reconcile1") \/ At("reconcile2")

\* Mutant: a file without the desired bytes is not taken for an artifact.
HasOwnPlace(k, places) ==
  Here[k] # NoFile /\ Here[k].at \in places /\ Here[k].data = run.tx.want[run.i]

HasPlace(k, places) == Here[k] # NoFile /\ Here[k].at \in places

\* A rollback tombstone carries no transaction id, so it is taken for another
\* transaction's.  Once a discarded guard or temporary file came back from
\* quarantine its name ends in ".rollback" as well: it is discarded if it has
\* the desired bytes, and then missed under its first name.
ReconcileRename ==
  /\ Reconciling
  /\ LET back == {k \in {"tmp", "replace"} : HasPlace(k, {"cleanup"})}
     IN /\ back # {} \/ HasPlace("rollback", {"base", "cleanup"})
        /\ IF /\ ~HasPlace("rollback", {"base", "cleanup"})
              /\ Cardinality(back) = 1
              /\ \A k \in back : Here[k].data = run.tx.want[run.i]
             THEN \E k \in back :
                    run' = [Thrown EXCEPT !.drop = <<run.i, k>>,
                                          !.pc = IF @ = "idle" THEN "thrown" ELSE @]
             ELSE Throw
  /\ UNCHANGED <<files, evidence, history>>

Tidy(t) == /\ \A k \in {"tmp", "replace"} : ~HasPlace(k, {"cleanup"})
           /\ ~HasPlace("rollback", {"base", "cleanup"})

\* An intact guard gives back a missing target, then it is discarded.
ReconcileGuard ==
  /\ Reconciling /\ Tidy(run.i) /\ HasPlace("replace", {"base"})
  /\ LET t == run.i
         guard == Here["replace"]
         owned == run.tx.prior[t] # NoFile /\ guard.data = run.tx.prior[t]
     IN IF owned /\ (target[t] = NoFile \/ AtPrior(t) \/ AtWant(t))
          THEN /\ target' = IF target[t] # NoFile THEN target
                              ELSE [target EXCEPT ![t] = [data |-> guard.data, ino |-> guard.ino]]
               /\ run' = [run EXCEPT !.drop = <<t, "replace">>]
          ELSE Throw /\ UNCHANGED target
  /\ UNCHANGED <<debris, evidence, history>>

ReconcileTemporary ==
  /\ Reconciling /\ Tidy(run.i) /\ ~HasPlace("replace", {"base"}) /\ HasPlace("tmp", {"base"})
  /\ IF Here["tmp"].data = run.tx.want[run.i]
       THEN run' = [run EXCEPT !.drop = <<run.i, "tmp">>]
       ELSE Throw
  /\ UNCHANGED <<files, evidence, history>>

ReconcileNext ==
  /\ Reconciling /\ Tidy(run.i) /\ \A k \in {"tmp", "replace"} : ~HasPlace(k, {"base"})
  /\ run' = Advance(run, IF run.pc = "reconcile1" THEN "check" ELSE "validate2")
  /\ UNCHANGED <<files, evidence, history>>

-------------------------------------------------------------------------------
\* The publication loop

CheckTargets ==
  /\ At("check")
  /\ IF \A t \in Target : AtPrior(t) \/ Published(t) THEN Go("validate1") ELSE Throw
  /\ UNCHANGED <<files, evidence, history>>

\* _validate_cross_file_rollout_evidence reads files outside the transaction.
Validate(l, next) ==
  /\ At(l)
  /\ \/ Go(next) /\ UNCHANGED <<tampered, faults>>
     \/ /\ faults.invalid < MaxInvalid
        /\ faults' = [faults EXCEPT !.invalid = @ + 1]
        /\ tampered' = (tampered \/ marker # NoFile)
        /\ Throw
  /\ UNCHANGED <<files, evidence, begun, touched>>

Writing(val, exp) == [step |-> "open", val |-> val, exp |-> exp,
                      lock |-> NoIno, new |-> NoIno, moved |-> FALSE]

\* Skip a recorded target, refuse an unrecorded or foreign one, publish a
\* target at its prior state.
Publish ==
  /\ At("publish")
  /\ LET t == run.i IN
     IF Published(t) THEN run' = Advance(run, "reconcile2")
     ELSE IF AtWant(t) \/ ~AtPrior(t) THEN Throw
     ELSE run' = [run EXCEPT !.wr = Writing(run.tx.want[t], run.tx.prior[t])]
  /\ UNCHANGED <<files, evidence, history>>

\* persist_published_identities: an unchanged sidecar is left alone, an
\* existing one is moved to a guard before its successor takes the name.  An
\* earlier guard still under its own name is read by nothing and is forgotten.
Persist ==
  /\ At("persist")
  /\ IF identity = run.pub
       THEN run' = Advance([run EXCEPT !.pc = "publish"], "reconcile2") /\ UNCHANGED evidence
       ELSE /\ identity' = NoFile
            /\ husks' = {h \in husks : h.kind # "idGuard" \/ h.at # "base"}
                  \cup (IF identity = NoFile THEN {}
                        ELSE {[kind |-> "idGuard", at |-> "base", val |-> identity]})
            /\ Go("persistPlace")
            /\ UNCHANGED <<journal, marker>>
  /\ UNCHANGED <<files, history>>

PersistPlace ==
  /\ At("persistPlace")
  /\ identity' = run.pub
  /\ LET guards == {h \in husks : h.kind = "idGuard" /\ h.at = "base"}
         r == Advance([run EXCEPT !.pc = "publish"], "reconcile2")
     IN IF guards = {} THEN run' = r
        ELSE \E h \in guards : run' = [r EXCEPT !.purge = h]
  /\ UNCHANGED <<files, journal, marker, husks, history>>

\* Mutant: the evidence is removed without a marker.
ValidateUnmarked ==
  /\ At("targets")
  /\ IF AllPublished THEN Go("rmIdentity") ELSE Throw
  /\ UNCHANGED <<files, evidence, history>>

ValidateTargets ==
  /\ At("targets")
  /\ IF AllPublished THEN Go("mark") ELSE Throw
  /\ UNCHANGED <<files, evidence, history>>

-------------------------------------------------------------------------------
\* _atomic_write_bytes_at on target run.i

\* Mutant: the file is removed instead of being kept aside.
LostGuard(t) == NoFile

\* What a target that is moved aside becomes.
Displaced(t) == [at |-> "base", data |-> target[t].data, ino |-> target[t].ino]

\* Mutant: whatever is at the name is moved aside.
StillThere(t) == target[t] # NoFile

\* The name still holds the expected bytes in the locked inode.
StillExpected(t) ==
  target[t] # NoFile /\ target[t].data = run.wr.exp /\ target[t].ino = run.wr.lock

Step(s) == run.wr # NoFile /\ run.wr.step = s /\ run.drop = NoFile
NextStep(s) == run' = [run EXCEPT !.wr.step = s]

\* The write's own check of the expected bytes, and the lock on the inode.
WriteOpen ==
  /\ Step("open")
  /\ LET t == run.i IN
     IF Data(target[t]) # run.wr.exp THEN NextStep("failed")
     ELSE run' = [run EXCEPT !.wr.step = "create",
                             !.wr.lock = IF target[t] = NoFile THEN NoIno ELSE target[t].ino]
  /\ UNCHANGED <<files, evidence, history>>

WriteCreate ==
  /\ Step("create")
  /\ \E n \in Ino \ InUse :
       /\ debris' = [debris EXCEPT ![run.i]["tmp"] = [at |-> "base", data |-> Torn, ino |-> n]]
       /\ run' = [run EXCEPT !.wr.step = "fill", !.wr.new = n]
  /\ UNCHANGED <<target, evidence, history>>

WriteFill ==
  /\ Step("fill")
  /\ debris' = [debris EXCEPT ![run.i]["tmp"].data = run.wr.val]
  /\ NextStep("guard")
  /\ UNCHANGED <<target, evidence, history>>

\* The locked inode with the expected bytes moves to the guard; a target that
\* was missing needs none.
WriteGuard ==
  /\ Step("guard")
  /\ LET t == run.i IN
     IF run.wr.lock = NoIno
       THEN NextStep(IF target[t] = NoFile THEN "place" ELSE "abort") /\ UNCHANGED files
     ELSE IF StillExpected(t)
       THEN /\ target' = [target EXCEPT ![t] = NoFile]
            /\ debris' = [debris EXCEPT ![t]["replace"] = Displaced(t)]
            /\ run' = [run EXCEPT !.wr.step = "place", !.wr.moved = TRUE]
       ELSE NextStep("abort") /\ UNCHANGED files
  /\ UNCHANGED <<evidence, history>>

WritePlace ==
  /\ Step("place")
  /\ LET t == run.i IN
     IF target[t] = NoFile
       THEN /\ target' = [target EXCEPT ![t] = [data |-> run.wr.val, ino |-> run.wr.new]]
            /\ debris' = [debris EXCEPT ![t]["tmp"] = NoFile]
            /\ NextStep("verify")
       ELSE NextStep("abort") /\ UNCHANGED files
  /\ UNCHANGED <<evidence, history>>

WriteVerify ==
  /\ Step("verify")
  /\ LET t == run.i IN
     IF target[t] = [data |-> run.wr.val, ino |-> run.wr.new]
       THEN run' = [run EXCEPT !.wr.step = "done",
                      !.drop = IF run.wr.moved THEN <<t, "replace">> ELSE NoFile]
       ELSE NextStep("abort")
  /\ UNCHANGED <<files, evidence, history>>

\* The finally clause of a failed write: discard the temporary file, give a
\* missing target its guard back, discard the guard.
WriteAbort ==
  /\ Step("abort")
  /\ run' = [run EXCEPT !.wr.step = "unguard", !.drop = <<run.i, "tmp">>]
  /\ UNCHANGED <<files, evidence, history>>

WriteUnguard ==
  /\ Step("unguard")
  /\ LET t == run.i
         guard == Here["replace"]
     IN IF ~run.wr.moved THEN NextStep("failed") /\ UNCHANGED target
        ELSE /\ target' = IF target[t] # NoFile THEN target
                            ELSE [target EXCEPT ![t] = [data |-> guard.data, ino |-> guard.ino]]
             /\ run' = [run EXCEPT !.wr.step = "failed", !.drop = <<t, "replace">>]
  /\ UNCHANGED <<debris, evidence, history>>

\* The write returns the inode it placed, which publication records in memory.
WriteReturn ==
  /\ Step("done")
  /\ LET r == [run EXCEPT !.wr = NoFile] IN
     run' = IF run.pc = "publish"
              THEN [r EXCEPT !.pub[run.i] = run.wr.new, !.pc = "persist"]
              ELSE IF run.i > 1 THEN [r EXCEPT !.i = @ - 1] ELSE Idle
  /\ UNCHANGED <<files, evidence, history>>

WriteRaise ==
  /\ Step("failed")
  /\ run' = IF run.pc = "publish" THEN Thrown
            ELSE IF run.i > 1 THEN [run EXCEPT !.i = @ - 1, !.wr = NoFile] ELSE Idle
  /\ UNCHANGED <<files, evidence, history>>

-------------------------------------------------------------------------------
\* The rollback after a failed publication, last target first

RollbackNext(r) == IF r.i > 1 THEN [r EXCEPT !.i = @ - 1, !.pc = "rollback"] ELSE Idle

\* _restore_transaction_target: only the bytes and the inode this invocation
\* recorded are undone; a conflict is reported and the next target is tried.
Rollback ==
  /\ At("rollback")
  /\ LET t == run.i IN
     run' = IF AtPrior(t) \/ ~Published(t) THEN RollbackNext(run)
            ELSE IF run.tx.prior[t] = NoFile THEN [run EXCEPT !.pc = "remove"]
            ELSE [run EXCEPT !.wr = Writing(run.tx.prior[t], run.tx.want[t])]
  /\ UNCHANGED <<files, evidence, history>>

\* _remove_expected_target_at compares bytes, not the recorded inode.
RollbackRemove ==
  /\ At("remove")
  /\ LET t == run.i IN
     IF target[t] # NoFile /\ AtWant(t)
       THEN /\ target' = [target EXCEPT ![t] = NoFile]
            /\ debris' = [debris EXCEPT ![t]["rollback"] = Displaced(t)]
            /\ run' = [run EXCEPT !.pc = "removed", !.drop = <<t, "rollback">>]
       ELSE run' = RollbackNext(run) /\ UNCHANGED files
  /\ UNCHANGED <<evidence, history>>

RollbackRemoved ==
  /\ At("removed")
  /\ run' = RollbackNext(run)
  /\ UNCHANGED <<files, evidence, history>>

-------------------------------------------------------------------------------
\* Finalization: marker, tombstones, identity, journal, marker

PutMarker ==
  /\ At("mark")
  /\ IF marker = NoFile THEN marker' = run.pub /\ Go("sealed")
     ELSE UNCHANGED marker /\ IF marker = run.pub THEN Go("sealed") ELSE Throw
  /\ UNCHANGED <<files, journal, identity, husks, history>>

Sealed ==
  /\ At("sealed")
  /\ IF AllPublished THEN Go("tombstones") ELSE Throw
  /\ UNCHANGED <<files, evidence, history>>

\* Journal tombstones first; "strays" is the same loop when nothing is pending.
DiscardTombstones ==
  /\ At("tombstones") \/ At("strays")
  /\ IF run.jc # {} THEN \E h \in run.jc : run' = [run EXCEPT !.jc = @ \ {h}, !.purge = h]
     ELSE IF run.ic # {} THEN \E h \in run.ic : run' = [run EXCEPT !.ic = @ \ {h}, !.purge = h]
     ELSE IF run.pc = "strays" THEN Return
     ELSE Go("rmIdentity")
  /\ UNCHANGED <<files, evidence, history>>

\* _remove_expected_target_at on an evidence file: it becomes a tombstone.
Tombstone(kind, val) == [kind |-> kind, at |-> "base", val |-> val]
JournalTombstone(rec) == [kind |-> "journalTomb", at |-> "base", record |-> rec]
Bury(h, next) == /\ husks' = husks \cup {h}
                 /\ run' = [run EXCEPT !.pc = next, !.purge = h]

RemoveIdentity ==
  /\ At("rmIdentity")
  /\ IF identity = NoFile THEN Go("rmJournal") /\ UNCHANGED evidence
     ELSE IF ~AllPublished THEN Go("restore") /\ UNCHANGED evidence
     ELSE /\ identity' = NoFile
          /\ Bury(Tombstone("idTomb", identity), "afterIdentity")
          /\ UNCHANGED <<journal, marker>>
  /\ UNCHANGED <<files, history>>

RemoveJournal ==
  /\ At("rmJournal")
  /\ IF IdentityCandidates \cup JournalCandidates # {} THEN Throw /\ UNCHANGED evidence
     ELSE IF ~AllPublished THEN Go("restore") /\ UNCHANGED evidence
     ELSE /\ journal' = NoFile
          /\ Bury(JournalTombstone(journal), "afterJournal")
          /\ UNCHANGED <<identity, marker>>
  /\ UNCHANGED <<files, history>>

RemoveMarker ==
  /\ At("rmMarker")
  /\ IF ~AllPublished THEN Go("restore") /\ UNCHANGED evidence
     ELSE /\ marker' = NoFile
          /\ Bury(Tombstone("markerTomb", marker), "afterMarker")
          /\ UNCHANGED <<journal, identity>>
  /\ UNCHANGED <<files, history>>

\* Every removal is followed by another validation of the targets.
Removed(l, next) ==
  /\ At(l)
  /\ Go(IF AllPublished THEN next ELSE "restore")
  /\ UNCHANGED <<files, evidence, history>>

Finished ==
  /\ At("afterMarker")
  /\ IF AllPublished THEN Return ELSE Go("restore")
  /\ UNCHANGED <<files, evidence, history>>

\* restore_cleanup_evidence, one record at a time, then the error is raised.
RestoreEvidence ==
  /\ At("restore")
  /\ IF journal = NoFile THEN journal' = run.tx /\ UNCHANGED <<identity, marker, run>>
     ELSE IF identity = NoFile THEN identity' = run.pub /\ UNCHANGED <<journal, marker, run>>
     ELSE IF marker = NoFile THEN marker' = run.pub /\ UNCHANGED <<journal, identity, run>>
     ELSE Throw /\ UNCHANGED <<journal, identity, marker>>
  /\ UNCHANGED <<files, husks, history>>

Rethrow == At("thrown") /\ run' = Idle /\ UNCHANGED <<files, evidence, history>>

-------------------------------------------------------------------------------
\* _discard_expected_tombstone_at, one move at a time

DiscardDebris ==
  /\ run.drop # NoFile
  /\ LET t == run.drop[1]
         k == run.drop[2]
         a == debris[t][k]
     IN IF a = NoFile \/ a.at = "hollow"
          THEN /\ debris' = [debris EXCEPT ![t][k] = NoFile]
               /\ run' = [run EXCEPT !.drop = NoFile]
          ELSE /\ debris' = [debris EXCEPT ![t][k].at = AfterPlace[@]]
               /\ UNCHANGED run
  /\ UNCHANGED <<target, evidence, history>>

DiscardHusk ==
  /\ run.purge # NoFile
  /\ LET h == run.purge
         next == [h EXCEPT !.at = AfterPlace[@]]
     IN IF h.at = "hollow"
          THEN husks' = husks \ {h} /\ run' = [run EXCEPT !.purge = NoFile]
          ELSE husks' = (husks \ {h}) \cup {next} /\ run' = [run EXCEPT !.purge = next]
  /\ UNCHANGED <<files, journal, identity, marker, history>>

-------------------------------------------------------------------------------
\* The environment

Crash ==
  /\ run.pc # "idle" /\ faults.crash < MaxCrash
  /\ run' = Idle
  /\ faults' = [faults EXCEPT !.crash = @ + 1]
  /\ UNCHANGED <<files, evidence, begun, touched, tampered>>

\* A process that does not take the lock removes a target or puts a file of
\* its own at the name.
External(t) ==
  /\ faults.external < MaxExternal
  /\ \/ target[t] # NoFile /\ target' = [target EXCEPT ![t] = NoFile]
     \/ \E c \in Content, n \in Ino \ InUse :
          target' = [target EXCEPT ![t] = [data |-> c, ino |-> n]]
  /\ touched' = touched \cup {t}
  /\ tampered' = (tampered \/ marker # NoFile)
  /\ faults' = [faults EXCEPT !.external = @ + 1]
  /\ UNCHANGED <<debris, evidence, run, begun>>

-------------------------------------------------------------------------------
CommitSteps == Capture \/ PutIdentity \/ PutJournal
ReadSteps == Scan \/ Quarantine \/ AdmitNoJournal \/ RestoreJournal \/ Admit \/ CheckTargets
ReconcileSteps == ReconcileRename \/ ReconcileGuard \/ ReconcileTemporary \/ ReconcileNext
PublishSteps == \/ Validate("validate1", "publish") \/ Validate("validate2", "targets")
                \/ Publish \/ Persist \/ PersistPlace \/ ValidateTargets
WriteSteps == \/ WriteOpen \/ WriteCreate \/ WriteFill \/ WriteGuard \/ WritePlace
              \/ WriteVerify \/ WriteAbort \/ WriteUnguard \/ WriteReturn \/ WriteRaise
RollbackSteps == Rollback \/ RollbackRemove \/ RollbackRemoved
FinalSteps == \/ PutMarker \/ Sealed \/ DiscardTombstones
              \/ RemoveIdentity \/ Removed("afterIdentity", "rmJournal")
              \/ RemoveJournal \/ Removed("afterJournal", "rmMarker")
              \/ RemoveMarker \/ Finished \/ RestoreEvidence \/ Rethrow
DiscardSteps == DiscardDebris \/ DiscardHusk

\* A step of the invocation that holds the lock.
Working == \/ CommitSteps \/ ReadSteps \/ ReconcileSteps \/ PublishSteps \/ WriteSteps
           \/ RollbackSteps \/ FinalSteps \/ DiscardSteps

Next == \/ \E want \in [Target -> Wanted] : Commit(want)
        \/ Recover
        \/ Working
        \/ Crash
        \/ \E t \in Target : External(t)

Spec == Init /\ [][Next]_vars

-------------------------------------------------------------------------------
\* Properties

\* Type invariant.
TypeOK ==
  /\ target \in [Target -> Entry \cup {NoFile}]
  /\ journal \in Record \cup {NoFile}
  /\ identity \in Inodes \cup {NoFile}
  /\ marker \in Inodes \cup {NoFile}
  /\ debris \in [Target -> [TKind -> Artifact \cup {NoFile}]]
  /\ husks \subseteq Husk
  /\ run \in Invocation
  /\ begun \in Record \cup {NoFile}
  /\ touched \subseteq Target
  /\ tampered \in BOOLEAN
  /\ faults \in [{"commit", "crash", "external", "invalid"} -> Nat]

Settled == run.pc = "idle" /\ journal = NoFile /\ ~PendingEvidence

\* All or nothing: once a transaction whose journal was written has left no
\* evidence, every target holds the desired bytes, except where an external
\* writer put others.
Durability ==
  Settled /\ begun # NoFile =>
    \A t \in Target \ touched : Data(target[t]) = begun.want[t]

\* While some targets are published and others are not, the journal that can
\* complete or undo them is at its name.
PartialHasJournal ==
  /\ begun # NoFile
  /\ \E t \in Target \ touched : Data(target[t]) # begun.prior[t]
  /\ \E t \in Target \ touched : Data(target[t]) # begun.want[t]
  => journal = begun

\* An existing target's name is vacant only while its bytes are in the guard.
VacantHasGuard ==
  begun # NoFile =>
    \A t \in Target \ touched :
      begun.prior[t] # NoFile /\ target[t] = NoFile =>
        /\ debris[t]["replace"] # NoFile
        /\ debris[t]["replace"].at = "base"
        /\ debris[t]["replace"].data \in {begun.prior[t], begun.want[t]}

\* The marker is written after every target was published and recorded, and no
\* step changes them while it exists, unless somebody else interferes.
MarkerSealed ==
  marker # NoFile /\ ~tampered =>
    \A t \in Target \ touched : target[t] = [data |-> begun.want[t], ino |-> marker[t]]

\* No guard, temporary file or rollback tombstone of a target outlives the
\* journal of the transaction that made it, whose id its name carries.
NoOrphanArtifact == journal = NoFile => Artifacts = {}

\* A live journal keeps its sidecar until the marker replaces it as the record
\* of ownership; only the guard of an interrupted sidecar update interrupts it.
\* (restore_cleanup_evidence, which runs when a target was changed from outside
\* during the finalization, puts the journal back first.)
JournalOwned ==
  journal # NoFile /\ identity = NoFile /\ faults.external = 0 =>
    marker # NoFile \/ \E h \in husks : h.kind = "idGuard" /\ h.at = "base"

\* A failure that is neither a crash nor an external write undoes everything.
CleanFailure ==
  run.pc = "idle" /\ journal # NoFile /\ faults.crash = 0 /\ faults.external = 0 =>
    \A t \in Target : Data(target[t]) = journal.prior[t]

\* No step of an invocation displaces bytes that are neither the prior nor the
\* desired ones of its transaction.
NoClobber ==
  [][\A t \in Target :
       target[t] # NoFile /\ target'[t] # target[t] /\ faults'.external = faults.external =>
         target[t].data \in {run.tx.prior[t], run.tx.want[t]}]_vars

\* The transaction promises what AllOrNothing says, in which the guards, the
\* sidecar, the marker and the deletions are not visible.
Promise == INSTANCE AllOrNothing WITH
             store   <- [t \in Target |-> Data(target[t])],
             open    <- journal # NoFile,
             record  <- begun,
             foreign <- touched
ImplementsAllOrNothing == Promise!Spec

(***************************************************************************)
(* The states recovery refuses for good, by the evidence it reports.  Each *)
(* keeps its bytes for an operator.                                        *)
(***************************************************************************)
WedgedEvidence ==
  \* "journal is missing while identity evidence remains": a crash between the
  \* first two evidence writes, or between the last two evidence removals
  \/ journal = NoFile /\ (identity # NoFile \/ marker # NoFile)
       /\ ~\E h \in husks : h.kind = "journalTomb" /\ h.at \in {"base", "cleanup", "held"}
  \* "journal tombstone identity is missing"
  \/ journal # NoFile /\ identity = NoFile /\ marker = NoFile /\ IdentityCandidates = {}
  \* "identity tombstone differs from canonical identity"
  \/ identity # NoFile /\ \E h \in IdentityCandidates : h.val # identity
  \/ identity = NoFile /\ Cardinality(IdentityCandidates) > 1

WedgedQuarantine ==
  \/ \E x \in Quarantines : x.at = "stranded"
  \/ Quarantines # {} /\ journal = NoFile /\ identity = NoFile /\ marker = NoFile

WedgedTarget(t) ==
  LET j == journal
      at(k, places) == debris[t][k] # NoFile /\ debris[t][k].at \in places
      recorded == IF marker # NoFile THEN marker[t] ELSE IF identity # NoFile THEN identity[t] ELSE NoIno
  IN \/ at("rollback", {"base", "cleanup", "held"})
     \/ \E k \in {"tmp", "replace"} : at(k, {"cleanup", "held"}) /\ debris[t][k].data # j.want[t]
     \/ at("tmp", {"base"}) /\ debris[t]["tmp"].data # j.want[t]
     \/ at("replace", {"base"}) /\ debris[t]["replace"].data # j.prior[t]
     \/ /\ Data(target[t]) = j.want[t] /\ target[t].ino # recorded
     \/ Data(target[t]) \notin {j.prior[t], j.want[t]} /\ debris[t]["replace"] = NoFile
     \/ marker # NoFile /\ Data(target[t]) # j.want[t]

Wedged == \/ WedgedEvidence \/ WedgedQuarantine
          \/ journal # NoFile /\ \E t \in Target : WedgedTarget(t)

\* The lock holder keeps running, and an invocation of one of the scripts, all
\* of which recover first, eventually follows.
Fairness == WF_vars(Working) /\ WF_vars(Recover)
FairSpec == Spec /\ Fairness

Quiet == faults.crash = MaxCrash /\ faults.external = MaxExternal
           /\ faults.invalid = MaxInvalid

\* Once faults stop, recovery completes every transaction outside the listed
\* refusals.
Resumes == Quiet /\ run.pc = "idle" /\ ~Wedged ~> Settled
===============================================================================
