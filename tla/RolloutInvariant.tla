--------------------------- MODULE RolloutInvariant ---------------------------
(***************************************************************************)
(* The inductive invariants behind the theorems about RolloutTransaction:  *)
(* what the memory of an invocation and the files it leaves have to do     *)
(* with each other at every statement.  IInv carries RolloutTransaction-   *)
(* Proofs, the longer LInv RolloutLifecycleProofs.                         *)
(***************************************************************************)
EXTENDS RolloutTransaction

\* The statements of commit before the journal exists, those at which the
\* journal is at its name, and those after it was removed.
Preparing == {"putIdentity", "putJournal"}
Opened    == {"reconcile1", "check", "validate1", "rollback", "remove", "removed", "mark",
              "sealed", "tombstones", "rmIdentity", "afterIdentity", "rmJournal"}
               \cup Publishing
Closed    == {"afterJournal", "rmMarker", "afterMarker", "restore"}

\* The journal is the one of the current transaction.
Recorded == journal # NoFile => journal = begun

\* commit keeps what it was asked to write across its own recovery.
Asked == run.op = "precommit" \/ run.pc = "capture" => run.ask # NoFile

\* Until the journal is written, what was captured is what the targets hold.
Prepared ==
  run.pc \in Preparing =>
    /\ begun = NoFile /\ journal = NoFile /\ run.tx # NoFile
    /\ \A t \in Target \ touched : run.tx.prior[t] = Data(target[t])

\* From then on the transaction in memory is the journal's.
Loaded ==
  /\ run.pc \in Opened \cup Closed => run.tx = begun /\ begun # NoFile
  /\ run.pc \in Opened => journal = begun

\* The evidence is removed under the marker.
Sealing == {"sealed", "tombstones", "rmIdentity", "afterIdentity", "rmJournal",
            "afterJournal", "rmMarker"}
Marked == run.pc \in Sealing => marker # NoFile

\* A write runs inside the publication or the rollback and moves its target
\* between the two contents of the transaction.
WriteHome ==
  run.wr # NoFile =>
    /\ run.pc \in {"publish", "rollback"}
    /\ {run.wr.val, run.wr.exp} \subseteq {run.tx.prior[run.i], run.tx.want[run.i]}

\* What each step of a write may rely on: its own discards are over, the
\* temporary file exists, the guard holds the expected bytes.
WriteProgress ==
  run.wr # NoFile =>
    LET w == run.wr
        guard == debris[run.i]["replace"]
    IN /\ w.step \notin {"unguard", "failed", "done"} => run.drop = NoFile
       /\ w.step = "unguard" => run.drop \in {NoFile, <<run.i, "tmp">>}
       /\ w.step \in {"open", "create", "fill", "guard"} => ~w.moved
       /\ w.step = "fill" => debris[run.i]["tmp"] # NoFile
       /\ w.step \in {"fill", "guard", "place", "verify"} => w.new \in Ino
       /\ w.moved /\ w.step \in {"place", "verify", "abort", "unguard"} =>
            guard # NoFile /\ guard.data = w.exp /\ w.exp # NoFile

\* Every journal tombstone, on disk or in memory, is the transaction's journal.
Tombs == husks \cup run.jc \cup run.ic \cup ({run.purge} \ {NoFile})
Buried == \A h \in Tombs : h.kind = "journalTomb" => begun # NoFile /\ h.record = begun

\* The inductive invariant.
IInv == /\ TypeOK /\ Recorded /\ Promise!Promised
        /\ Asked /\ Prepared /\ Loaded /\ Marked
        /\ WriteHome /\ WriteProgress /\ Buried
-------------------------------------------------------------------------------
(***************************************************************************)
(* The longer invariant: which artifacts there are at each statement, what *)
(* the marker and the sidecar stand for, and what is left of all that when *)
(* nothing fails but the validation.                                       *)
(***************************************************************************)

\* One thing at a time: no evidence is discarded during a write or the discard of a
\* target's artifact, and nothing at all without an invocation.
OneTask == run.purge # NoFile => run.wr = NoFile /\ run.drop = NoFile /\ run.pc # "idle"

Counted == faults.external = 0 => touched = {}

\* A guard is discarded when the target is back, and only a new target is removed.
SafeDrop ==
  begun # NoFile =>
    \A t \in Target \ touched :
      begun.prior[t] # NoFile /\ run.drop = <<t, "replace">> => target[t] # NoFile
FreshRemove == run.pc = "remove" => run.tx.prior[run.i] = NoFile

\* Reading the evidence leaves artifacts under two kinds of names only, and the first
\* loop over the targets removes them.
Bare(t) == \A k \in TKind : debris[t][k] = NoFile
Exposed ==
  run.pc \in {"admit", "reconcile1"} =>
    \A t \in Target, k \in TKind :
      debris[t][k] # NoFile => debris[t][k].at \in {"base", "cleanup"} \/ run.drop = <<t, k>>
Swept == run.pc = "reconcile1" => \A t \in Target : t < run.i => Bare(t)

\* From then on an artifact belongs to the running write or is being discarded.
InUseBy(w, k) ==
  \/ k = "tmp" /\ w.step \in {"fill", "guard", "place", "abort"}
  \/ k = "replace" /\ w.moved /\ w.step \in {"place", "verify", "abort", "unguard"}
Clear ==
  run.pc \in (Opened \ {"reconcile1"}) \cup Closed =>
    \A t \in Target, k \in TKind : debris[t][k] # NoFile =>
      t = run.i /\ (run.drop = <<t, k>> \/ (run.wr # NoFile /\ InUseBy(run.wr, k)))

\* The targets do not change from the last check before the marker on, and not at all
\* under a marker, but for foreign writers; so nothing is rolled back there.
Final    == Sealing \cup {"mark", "afterMarker", "restore"}
Checking == {"reconcile1", "check", "validate1"} \cup Publishing
Undoing  == {"rollback", "remove", "removed"}
FinalPublished == run.pc \in Final => \A t \in Target \ touched : Published(t)
Unmarked == run.pc \in Preparing => marker = NoFile
Intact ==
  marker # NoFile /\ ~tampered =>
    /\ run.pc \in Checking => AllPublished /\ run.wr = NoFile
    /\ run.pc \notin Undoing

\* The sidecar: it precedes the journal, one of it and the marker is there when targets
\* are published, and its guard goes when its successor is in place.
BaseGuard(h) == h.kind = "idGuard" /\ h.at = "base"
Bound ==
  /\ run.pc = "putJournal" => identity # NoFile
  /\ run.pc \in Checking \ {"persistPlace"} => identity # NoFile \/ marker # NoFile
GuardLast ==
  /\ run.purge # NoFile /\ BaseGuard(run.purge) => identity # NoFile
  /\ \A h \in run.jc \cup run.ic : ~BaseGuard(h)
Gone ==
  /\ run.pc \in {"afterJournal", "rmMarker", "afterMarker", "strays", "capture"} => journal = NoFile
  /\ run.pc = "restore" => touched # {}

\* Nothing but the validation has failed: no evidence is left over, a marker is there
\* only during the finalization.
Calm == faults.crash = 0 /\ faults.external = 0
CalmEvidence ==
  Calm =>
    /\ run.jc = {} /\ run.ic = {}
    /\ run.pc # "persistPlace" => \A h \in husks : run.purge # NoFile /\ h = run.purge
    /\ run.pc = "persistPlace" => /\ run.purge = NoFile
                                  /\ \A h \in husks : BaseGuard(h)
                                  /\ \A h, g \in husks : h = g
    /\ marker # NoFile => run.pc \in Sealing

\* The targets then: all at their prior state outside the publication, each there or
\* published within it, and back from the last one on during the rollback.
Outside == {"idle", "scan", "quarantine", "admit", "thrown", "reconcile1", "check", "validate1"}
CalmTargets ==
  Calm =>
    /\ run.pc \in Outside /\ journal # NoFile =>
         \A t \in Target : Data(target[t]) = journal.prior[t]
    /\ run.pc \in Publishing \cup Undoing =>
         \A t \in Target : (run.wr = NoFile \/ t # run.i) => AtPrior(t) \/ Published(t)
    /\ run.pc \in Undoing => \A t \in Target : t > run.i => AtPrior(t)
    /\ run.pc = "remove" => Published(run.i)
    /\ run.pc = "removed" => AtPrior(run.i)

CalmWrite ==
  Calm /\ run.wr # NoFile =>
    LET w == run.wr
        t == run.i
    IN /\ run.pc = "publish" => w.val = run.tx.want[t] /\ w.exp = run.tx.prior[t]
       /\ run.pc = "rollback" => w.val = run.tx.prior[t] /\ w.exp = run.tx.want[t]
       /\ w.step \in {"open", "create", "fill", "guard", "place", "verify", "done"}
       /\ w.step \in {"open", "create", "fill", "guard"} => Data(target[t]) = w.exp
       /\ w.step \in {"create", "fill", "guard"} =>
            w.lock = IF target[t] = NoFile THEN NoIno ELSE target[t].ino
       /\ w.step = "place" => target[t] = NoFile
       /\ w.step \in {"verify", "done"} =>
            w.new \in Ino /\ target[t] = [data |-> w.val, ino |-> w.new]

Vacancy   == VacantHasGuard /\ SafeDrop /\ FreshRemove
Cleared   == NoOrphanArtifact /\ Exposed /\ Swept /\ Clear
SealedInv == MarkerSealed /\ FinalPublished /\ Unmarked /\ Intact
Sidecar   == JournalOwned /\ Bound /\ GuardLast /\ Gone
CalmInv   == CalmEvidence /\ CalmTargets /\ CalmWrite

\* IInv and all of it.
LInv == IInv /\ OneTask /\ Counted /\ Vacancy /\ Cleared /\ SealedInv /\ Sidecar /\ CalmInv
===============================================================================
