--------------------------- MODULE RolloutDocuments ---------------------------
(***************************************************************************)
(* The calls that move a catalog rollout along: audit-latest-stable.py     *)
(* starts or refreshes it, verify-latest-stable-resolved-graphs.py         *)
(* promotes it.  Both read the mutable documents without a lock, publish   *)
(* an immutable snapshot and then commit the documents in one transaction  *)
(* (RolloutTransaction), whose validation compares them with each other    *)
(* and with the snapshots.                                                 *)
(*                                                                         *)
(* The transaction appears here as what AllOrNothing promises, a snapshot  *)
(* as what WriteOnce promises.                                             *)
(***************************************************************************)
EXTENDS Naturals

CONSTANTS
  Process,
  Rollout,
  Initial,    \* the rollout the repository starts with, pending
  Nothing,    \* no row, no snapshot, no journal
  Legacy,     \* a row from before there were snapshots, preserved as it is
  MaxAudit, MaxReceipt, MaxCall  \* bounds: audits and receipts made, calls

\* The bytes of an audit are new every time, for they hold the time of retrieval;
\* those of a receipt hold the digest of a log.
Audit   == 1..MaxAudit
Graph   == 1..MaxReceipt

\* A delta ledger.  Its resolution contract is everything but status and receipt;
\* "audit" stands for it, with the catalog the audit was validated against.
Ledger   == [rollout : Rollout, audit : Audit, status : {"pending", "verified"},
             receipt : Graph \cup {Nothing}]
Revision == {<<"base", 0>>} \cup ({"candidate"} \X Audit) \cup ({"resolved-graph"} \X Graph)

\* A row of the central ledger: the path of a snapshot and the digest of its ledger,
\* which all its other fields repeat.
Row      == [revision : Revision, ledger : Ledger]
Document == [Rollout -> Row \cup {Nothing, Legacy}]

\* The files of a transaction, and those written before each.
File     == {"audit", "ledger", "central"}
Before   == [audit |-> {}, ledger |-> {"audit"}, central |-> {"audit", "ledger"}]

\* A journal: what each file is to become, Nothing if it stays, and what it was.
Writes   == [audit : Audit \cup {Nothing}, ledger : Ledger \cup {Nothing},
             central : Document \cup {Nothing},
             prior : [audit : Audit, ledger : Ledger, central : Document],
             rollout : Rollout, missed : SUBSET Rollout, whole : BOOLEAN, same : SUBSET File]

\* The arguments of a call: --refresh-audit, --refresh-delta-ledger,
\* --refresh-central-rollout and --central-ledger-base-ref.
Call == [tool : {"audit", "promote", "refresh-evidence"}, rollout : Rollout,
         fresh : BOOLEAN, delta : BOOLEAN, rows : BOOLEAN, git : BOOLEAN]

ASSUME DocumentsAssumption ==
  /\ Initial \in Rollout /\ MaxAudit \in Nat \ {0} /\ MaxReceipt \in Nat
  /\ MaxCall \in Nat
  /\ Legacy \notin Row \cup {Nothing}
  /\ Nothing \notin Process \cup Rollout \cup Audit \cup Graph \cup Ledger \cup Row
                    \cup Document \cup Writes \cup Call

VARIABLES
  audit,    \* the bytes of latest-stable-version-audit.json
  ledger,   \* latest-stable-version-deltas.json
  central,  \* central-catalog-version-deltas.json: [Rollout -> its row]
  base,     \* the central ledger in the commit --central-ledger-base-ref names
  snapshot, \* [rollout, revision -> the ledger in it, with audit and receipt]
  journal,  \* the pending transaction, or Nothing
  holder,   \* who has the transaction lock
  pc,       \* [Process -> the statement its call is at]
  call,     \* [Process -> its arguments]
  doc,      \* [Process -> the central ledger it has read, or Nothing]
  fetched,  \* [Process -> the audit it has made or read, or Nothing]
  own,      \* [Process -> the ledger it is making, or Nothing]
  missed,   \* history: [Process -> rows written since it read the central ledger]
  used      \* history: the bounds used

files  == <<audit, ledger, central, base, snapshot, journal, holder>>
locals == <<call, doc, fetched, own>>
vars   == <<files, pc, locals, missed, used>>

Files  == [audit |-> audit, ledger |-> ledger, central |-> central]

Promotion(tool) == [tool |-> tool, rollout |-> Initial, fresh |-> FALSE, delta |-> TRUE,
                    rows |-> TRUE, git |-> FALSE]

\* What the two argument parsers let pass.  --rollout is read for a delta ledger only.
Accepted ==
  {c \in Call :
     \/ /\ c.tool = "audit" /\ (c.fresh \/ c.delta) /\ (c.rows \/ c.git => c.delta)
        /\ c.delta \/ c.rollout = Initial
     \/ c.tool # "audit" /\ c = Promotion(c.tool)}

Pending(r, a) == [rollout |-> r, audit |-> a, status |-> "pending", receipt |-> Nothing]
Start         == Pending(Initial, 1)

\* The commit that --central-ledger-base-ref names; other rows may be legacy ones.
Committed(old) ==
  [r \in Rollout |-> IF r = Initial THEN [revision |-> <<"base", 0>>, ledger |-> Start]
                     ELSE old[r]]

Init ==
  /\ audit = 1 /\ ledger = Start
  /\ \E old \in [Rollout -> {Nothing, Legacy}] : central = Committed(old)
  /\ base = central
  /\ snapshot = [k \in Rollout \X Revision |-> IF k = <<Initial, <<"base", 0>>>> THEN Start
                                               ELSE Nothing]
  /\ journal = Nothing /\ holder = Nothing
  /\ pc = [p \in Process |-> "idle"] /\ call = [p \in Process |-> Nothing]
  /\ doc = [p \in Process |-> Nothing] /\ fetched = [p \in Process |-> Nothing]
  /\ own = [p \in Process |-> Nothing]
  /\ missed = [p \in Process |-> {}]
  /\ used = [audits |-> 1, receipts |-> 0, calls |-> 0]

Goto(p, statement) == pc' = [pc EXCEPT ![p] = statement]

\* The call returns or raises.
Leave(p) ==
  /\ Goto(p, "idle")
  /\ call' = [call EXCEPT ![p] = Nothing] /\ doc' = [doc EXCEPT ![p] = Nothing]
  /\ fetched' = [fetched EXCEPT ![p] = Nothing] /\ own' = [own EXCEPT ![p] = Nothing]
  /\ missed' = [missed EXCEPT ![p] = {}]

Begin(p) ==
  /\ pc[p] = "idle" /\ used.calls < MaxCall
  /\ \E c \in Accepted : call' = [call EXCEPT ![p] = c]
  /\ Goto(p, "recover")
  /\ used' = [audits |-> used.audits, receipts |-> used.receipts,
              calls |-> used.calls + 1]
  /\ UNCHANGED <<files, doc, fetched, own, missed>>
-------------------------------------------------------------------------------
\* The transaction

Or(new, old) == IF new = Nothing THEN old ELSE new

Current(d, r) == d[r] \notin {Nothing, Legacy}

\* The files a row names are there with its digests (load_catalog_rollout_evidence).
Backed(d, r) == Current(d, r) /\ snapshot[<<r, d[r].revision>>] = d[r].ledger

Match(one, other) == one.status = other.status /\ one.audit = other.audit

\* _validate_cross_file_rollout_evidence
Consistent(l, d) ==
  /\ \A r \in Rollout : Current(d, r) => Backed(d, r)
  /\ Current(d, l.rollout) /\ Match(d[l.rollout].ledger, l)

\* Mutant: the pending writes are not validated.
AcceptableAlways(w) == TRUE

\* The validation reads pending writes in place of the files.
Acceptable(w) == Consistent(Or(w.ledger, ledger), Or(w.central, central))

First(p) == IF call[p].tool = "audit" THEN "central" ELSE "ledger"

Recover(p) ==
  /\ pc[p] = "recover" /\ holder = Nothing
  /\ IF journal = Nothing THEN Goto(p, First(p)) /\ UNCHANGED holder
     ELSE holder' = p /\ Goto(p, "replay")
  /\ UNCHANGED <<audit, ledger, central, base, snapshot, journal, locals, missed, used>>

\* The snapshot directory of a ledger: a promotion makes one of its own, a refresh
\* of a rollout that has a row too (candidate_rollout_snapshot_revision).
Place(d, l) ==
  IF l.receipt # Nothing THEN <<"resolved-graph", l.receipt>>
  ELSE IF d[l.rollout] = Nothing THEN <<"base", 0>>
  ELSE <<"candidate", l.audit>>

\* Mutant: only the row of the rollout is kept.
UpsertAlone(d, l) ==
  [r \in Rollout |-> IF r = l.rollout THEN [revision |-> Place(d, l), ledger |-> l]
                     ELSE Nothing]

\* upsert_catalog_rollout replaces the row of the rollout, or adds it.
Upsert(d, l) ==
  [r \in Rollout |-> IF r = l.rollout THEN [revision |-> Place(d, l), ledger |-> l] ELSE d[r]]

\* Mutant: a promotion leaves the central ledger as it is.
WritesOwn(p, moved) ==
  [audit   |-> IF call[p].fresh THEN fetched[p] ELSE Nothing,
   ledger  |-> own[p],
   central |-> IF call[p].tool = "audit" /\ call[p].rows THEN Upsert(doc[p], own[p])
               ELSE Nothing,
   prior   |-> Files,
   rollout |-> IF own[p] = Nothing THEN Initial ELSE own[p].rollout,
   missed  |-> IF call[p].git THEN Rollout ELSE missed[p],
   whole   |-> call[p].delta => call[p].rows, same |-> {}]

\* What the call commits, and which files have those bytes already, which no
\* transaction survives; an equal row may have to move to the end.
\* "missed" and "whole" are only history.
WritesOf(p, moved) ==
  [audit   |-> IF call[p].fresh THEN fetched[p] ELSE Nothing,
   ledger  |-> own[p],
   central |-> IF call[p].rows THEN Upsert(doc[p], own[p]) ELSE Nothing,
   prior   |-> Files,
   rollout |-> IF own[p] = Nothing THEN Initial ELSE own[p].rollout,
   missed  |-> IF call[p].git THEN Rollout ELSE missed[p],
   whole   |-> call[p].delta => call[p].rows,
   same    |-> {f \in File :
                  \/ f = "ledger" /\ own[p] = ledger
                  \/ f = "central" /\ call[p].rows /\ Upsert(doc[p], own[p]) = central /\ ~moved}]

\* commit_catalog_rollout_transaction: the prior contents are those of now, not
\* those the call has read.
Commit(p) ==
  /\ pc[p] = "commit" /\ holder = Nothing
  /\ IF journal # Nothing THEN Leave(p) /\ UNCHANGED <<journal, holder>>
     ELSE /\ \E moved \in BOOLEAN : journal' = WritesOf(p, moved)
          /\ holder' = p
          /\ Goto(p, "close") /\ UNCHANGED <<locals, missed>>
  /\ UNCHANGED <<audit, ledger, central, base, snapshot, used>>

\* The files a rollback still has to put back, at each of its statements.
Left == [undo |-> File, skipped_central |-> Before["central"], skipped_ledger |-> Before["ledger"]]

Within(p) == pc[p] \in {"replay", "close"} \cup DOMAIN Left

\* Who works from the central ledger does not see it change.
Replace(f, bytes) ==
  /\ audit' = IF f = "audit" THEN bytes ELSE audit
  /\ ledger' = IF f = "ledger" THEN bytes ELSE ledger
  /\ central' = IF f = "central" THEN bytes ELSE central
  /\ missed' = [q \in Process |-> IF doc[q] = Nothing THEN {}
                   ELSE missed[q] \cup {r \in Rollout : central'[r] # central[r]}]
  /\ UNCHANGED <<base, snapshot, journal, holder, locals, used>>

\* The pending writes are validated before the first file is replaced.
Publishing(p) == pc[p] \in {"replay", "close"} /\ Acceptable(journal)
Written(f)    == Files[f] = Or(journal[f], Files[f])
Restored(f)   == Files[f] = journal.prior[f]

\* Files are replaced one by one, up to one that has its bytes already.
Apply(p) ==
  /\ Publishing(p)
  /\ \E f \in File : /\ ~Written(f)
                     /\ \A g \in Before[f] : Written(g) /\ g \notin journal.same
                     /\ Replace(f, journal[f])
  /\ UNCHANGED pc

\* The call that committed is done; the one that recovered goes on.
Close(p) ==
  /\ Publishing(p) /\ journal.same = {} /\ \A f \in File : Written(f)
  /\ journal' = Nothing /\ holder' = Nothing
  /\ IF pc[p] = "close" THEN Leave(p)
     ELSE Goto(p, First(p)) /\ UNCHANGED <<locals, missed>>
  /\ UNCHANGED <<audit, ledger, central, base, snapshot, used>>

\* A replacement fails, or the validation of the files after them: roll back, unless
\* there is nothing to put back.
Fail(p) ==
  /\ Publishing(p) /\ (\E f \in File : ~Restored(f)) /\ Goto(p, "undo")
  /\ UNCHANGED <<files, locals, missed, used>>

\* _restore_transaction_target: the files are put back one by one, last one first,
\* and one that cannot be is skipped.
Undo(p) ==
  /\ pc[p] \in DOMAIN Left
  /\ \E f \in Left[pc[p]] :
       /\ ~Restored(f) /\ \A g \in Left[pc[p]] : f \in Before[g] => Restored(g)
       /\ \/ Replace(f, journal.prior[f]) /\ UNCHANGED pc
          \/ /\ \E g \in Before[f] : ~Restored(g)
             /\ Goto(p, IF f = "central" THEN "skipped_central" ELSE "skipped_ledger")
             /\ UNCHANGED <<files, locals, missed, used>>

\* The call raises or dies, rolled back or not, and the journal stays for the next one.
Reject(p) ==
  /\ Within(p)
  /\ holder' = Nothing /\ Leave(p)
  /\ UNCHANGED <<audit, ledger, central, base, snapshot, journal, used>>
-------------------------------------------------------------------------------
\* audit-latest-stable.py

\* The central ledger is read only for a delta ledger, from the worktree or from a
\* commit.
ReadCentral(p) ==
  /\ pc[p] = "central"
  /\ IF ~call[p].delta THEN Goto(p, "fetch") /\ UNCHANGED <<doc, missed>>
     ELSE /\ doc' = [doc EXCEPT ![p] = IF call[p].git THEN base ELSE central]
          /\ missed' = [missed EXCEPT ![p] = {}] /\ Goto(p, "previous")
  /\ UNCHANGED <<files, call, fetched, own, used>>

\* The rollout before this one has to have its evidence.
ReadPrevious(p) ==
  /\ pc[p] = "previous"
  /\ IF ledger.rollout = call[p].rollout \/ Backed(doc[p], ledger.rollout)
       THEN Goto(p, "fetch") /\ UNCHANGED <<locals, missed>>
     ELSE Leave(p)
  /\ UNCHANGED <<files, used>>

\* The audit is made, which may fail, or read; the delta ledger is built from it.
Fetch(p) ==
  /\ pc[p] = "fetch"
  /\ \/ Leave(p) /\ UNCHANGED used
     \/ /\ call[p].fresh => used.audits < MaxAudit
        /\ LET a == IF call[p].fresh THEN used.audits + 1 ELSE audit
           IN /\ fetched' = [fetched EXCEPT ![p] = a]
              /\ own' = [own EXCEPT ![p] = IF call[p].delta THEN Pending(call[p].rollout, a)
                                           ELSE Nothing]
              /\ used' = [audits |-> IF call[p].fresh THEN a ELSE used.audits,
                          receipts |-> used.receipts, calls |-> used.calls]
        /\ Goto(p, IF call[p].delta THEN "snapshot" ELSE "commit")
        /\ UNCHANGED <<call, doc, missed>>
  /\ UNCHANGED files

\* What is at the name may stay if it is the same.
Published(k, l) == snapshot[k] \in {Nothing, l}

\* record_promoted_catalog_rollout wants the row it is to replace.
Promotable(d, l) == Current(d, l.rollout) /\ d[l.rollout].ledger.audit = l.audit

\* Mutant: a snapshot that is there is replaced.
SnapshotOver(p) ==
  LET k == <<own[p].rollout, Place(doc[p], own[p])>>
  IN /\ pc[p] = "snapshot"
     /\ snapshot' = [snapshot EXCEPT ![k] = own[p]]
     /\ Goto(p, "commit")
     /\ UNCHANGED <<audit, ledger, central, base, journal, holder, locals, missed, used>>

\* snapshot_rollout_evidence.  An audit that was not refreshed is read once more.
Snapshot(p) ==
  LET k == <<own[p].rollout, Place(doc[p], own[p])>>
  IN /\ pc[p] = "snapshot"
     /\ IF /\ Published(k, own[p])
           /\ IF call[p].tool = "audit" THEN call[p].fresh \/ audit = own[p].audit
              ELSE Promotable(doc[p], own[p])
          THEN /\ snapshot' = [snapshot EXCEPT ![k] = Or(snapshot[k], own[p])]
               /\ Goto(p, "commit") /\ UNCHANGED <<locals, missed>>
        ELSE Leave(p) /\ UNCHANGED snapshot
     /\ UNCHANGED <<audit, ledger, central, base, journal, holder, used>>
-------------------------------------------------------------------------------
\* verify-latest-stable-resolved-graphs.py with --promote or --refresh-evidence;
\* with neither it publishes a receipt and changes no document.

Required(tool) == IF tool = "promote" THEN "pending" ELSE "verified"

ReadLedger(p) ==
  /\ pc[p] = "ledger"
  /\ IF ledger.status = Required(call[p].tool)
       THEN /\ own' = [own EXCEPT ![p] = ledger]
            /\ Goto(p, "row") /\ UNCHANGED <<call, doc, fetched, missed>>
     ELSE Leave(p)
  /\ UNCHANGED <<files, used>>

\* The row of its rollout must agree with the ledger.
ReadRow(p) ==
  /\ pc[p] = "row"
  /\ IF Backed(central, own[p].rollout) /\ Match(central[own[p].rollout].ledger, own[p])
       THEN /\ doc' = [doc EXCEPT ![p] = central] /\ missed' = [missed EXCEPT ![p] = {}]
            /\ Goto(p, "graph") /\ UNCHANGED <<call, fetched, own>>
     ELSE Leave(p)
  /\ UNCHANGED <<files, used>>

\* run_gradle and validate_observations succeed or raise.
Built    == BOOLEAN
Observed == BOOLEAN

\* promote_ledger; a refresh replaces the receipt alone.
Promoted(l, n) == [rollout |-> l.rollout, audit |-> l.audit, status |-> "verified",
                   receipt |-> n]

\* Gradle resolves the graphs and a receipt is published, or one of them fails.
Resolve(p) ==
  /\ pc[p] = "graph"
  /\ \E built \in Built, observed \in Observed :
       IF built /\ observed /\ used.receipts < MaxReceipt
         THEN /\ used' = [audits |-> used.audits, receipts |-> used.receipts + 1,
                         calls |-> used.calls]
              /\ own' = [own EXCEPT ![p] = Promoted(own[p], used.receipts + 1)]
              /\ Goto(p, "snapshot") /\ UNCHANGED <<call, doc, fetched, missed>>
       ELSE Leave(p) /\ UNCHANGED used
  /\ UNCHANGED files
-------------------------------------------------------------------------------
\* The process dies, or is interrupted, outside the transaction.
Crash(p) ==
  /\ pc[p] # "idle" /\ ~Within(p) /\ Leave(p)
  /\ UNCHANGED <<files, used>>

Step(p) ==
  \/ Begin(p) \/ Recover(p) \/ Commit(p) \/ Apply(p) \/ Close(p)
  \/ Fail(p) \/ Undo(p) \/ Reject(p)
  \/ ReadCentral(p) \/ ReadPrevious(p) \/ Fetch(p) \/ Snapshot(p)
  \/ ReadLedger(p) \/ ReadRow(p) \/ Resolve(p) \/ Crash(p)

Next == \E p \in Process : Step(p)

Spec == Init /\ [][Next]_vars
-------------------------------------------------------------------------------
\* Every row of the central ledger, in whatever state the transaction is, names a
\* snapshot that is published and holds the evidence the row has digests of.
RowsBacked == \A r \in Rollout : Current(central, r) => Backed(central, r)

\* When no transaction is pending, the delta ledger is the one the central ledger
\* knows for its rollout: no interleaving of refreshes and promotions, each from
\* documents read before the other wrote, leaves a pair that disagrees.
LedgerAgrees == journal = Nothing => Consistent(ledger, central)

\* Each file is as the pending transaction found it or as it is to be.
Placed == journal # Nothing =>
            \A f \in File : Files[f] \in {journal.prior[f], Or(journal[f], journal.prior[f])}

\* The documents give the next call no reason to refuse the pending transaction,
\* wherever the last one died, and however far it rolled back: every file is in a
\* state that recovery takes, and the pending writes pass the validation.  There are
\* two exceptions: a refresh of the delta ledger that was not asked to refresh the
\* central one, and a file that had its bytes already (RerunCompletes of
\* RolloutClaims).  What the transaction refuses for its own evidence, such as a file
\* replaced and not recorded, is in RolloutTransaction (Wedged).
Finishable == (journal # Nothing /\ journal.whole /\ journal.same = {}) =>
                Placed /\ Acceptable(journal)

\* A call changes the row of another rollout only when it works from a commit, or
\* when that row was written after the call had read the central ledger: the lock
\* is taken too late to prevent that.
HistoryKept ==
  [][\A r \in Rollout : central[r] # Nothing /\ central'[r] # central[r] =>
       r = journal.rollout \/ r \in journal.missed]_vars
===============================================================================
