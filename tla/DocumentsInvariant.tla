-------------------------- MODULE DocumentsInvariant --------------------------
(***************************************************************************)
(* The inductive invariant of RolloutDocuments.                            *)
(***************************************************************************)
EXTENDS RolloutDocuments

Statement == {"idle", "recover", "replay", "central", "previous", "fetch", "ledger", "row",
              "graph", "snapshot", "commit", "close"} \cup DOMAIN Left

TypeOK ==
  /\ audit \in Audit /\ ledger \in Ledger /\ central \in Document /\ base \in Document
  /\ snapshot \in [Rollout \X Revision -> Ledger \cup {Nothing}]
  /\ journal \in Writes \cup {Nothing} /\ holder \in Process \cup {Nothing}
  /\ pc \in [Process -> Statement]
  /\ call \in [Process -> Call \cup {Nothing}]
  /\ doc \in [Process -> Document \cup {Nothing}]
  /\ fetched \in [Process -> Audit \cup {Nothing}]
  /\ own \in [Process -> Ledger \cup {Nothing}]
  /\ missed \in [Process -> SUBSET Rollout]
  /\ used \in [audits : Audit, receipts : 0..MaxReceipt, calls : 0..MaxCall]

\* Who has the lock works on a journal.
Locked ==
  /\ \A p \in Process : Within(p) => holder = p /\ journal # Nothing
  /\ holder # Nothing => Within(holder)

\* What a call has read or made at each statement.
Prepared ==
  \A p \in Process :
    /\ pc[p] # "idle" => call[p] # Nothing
    /\ pc[p] \in {"idle", "recover", "replay"} => doc[p] = Nothing
    /\ pc[p] \in {"previous", "snapshot", "graph"} => doc[p] # Nothing
    /\ pc[p] \in {"snapshot", "row", "graph"} => own[p] # Nothing
    /\ (pc[p] \in {"fetch", "commit"} /\ call[p].delta) => doc[p] # Nothing
    /\ pc[p] \in {"previous", "snapshot", "row", "graph", "ledger"} => call[p].delta
    /\ pc[p] = "commit" => (own[p] # Nothing <=> call[p].delta)
    /\ (call[p] # Nothing /\ (call[p].rows \/ call[p].tool # "audit")) => call[p].delta

\* Every row of a central ledger that is there, was read, or is to be written names
\* published evidence, and a call commits what it has published.
SnapshotMade(p) == snapshot[<<own[p].rollout, Place(doc[p], own[p])>>] = own[p]

AllBacked(d) == \A r \in Rollout : Current(d, r) => Backed(d, r)

Evidence ==
  /\ AllBacked(central) /\ AllBacked(base)
  /\ \A p \in Process : doc[p] # Nothing => AllBacked(doc[p])
  /\ journal # Nothing => AllBacked(journal.prior.central)
  /\ (journal # Nothing /\ journal.central # Nothing) => AllBacked(journal.central)
  /\ \A p \in Process : (pc[p] = "commit" /\ call[p].delta) => SnapshotMade(p)

\* What a call, or a transaction, holds of the central ledger is what is there, but
\* for the rows that are known to have been written behind its back.
Remembered ==
  /\ \A p \in Process : (doc[p] # Nothing /\ ~call[p].git) =>
       \A r \in Rollout : central[r] # doc[p][r] => r \in missed[p]
  /\ (journal # Nothing /\ journal.central # Nothing) =>
       \A r \in Rollout : journal.prior.central[r] # journal.central[r] =>
         r = journal.rollout \/ r \in journal.missed

DocumentsInv == TypeOK /\ Locked /\ Prepared /\ Placed /\ Evidence /\ Remembered /\ LedgerAgrees
                /\ Finishable
===============================================================================
