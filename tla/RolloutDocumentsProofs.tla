------------------------ MODULE RolloutDocumentsProofs ------------------------
(***************************************************************************)
(* Theorems about RolloutDocuments for any number of processes and         *)
(* rollouts, and any number of audits, receipts and calls.                 *)
(***************************************************************************)
EXTENDS DocumentsInvariant, TLAPS

-------------------------------------------------------------------------------
\* The operators

LEMMA NoValue ==
  /\ \A x \in Process \cup Rollout \cup Audit \cup Graph \cup Ledger \cup Row \cup Document \cup Writes
              \cup Call : x # Nothing
  /\ \A x \in Row \cup {Nothing} : x # Legacy
BY DocumentsAssumption

LEMMA LeftStatements == DOMAIN Left = {"undo", "skipped_central", "skipped_ledger"}
BY DEF Left

\* The place of a ledger's snapshot is a revision.
LEMMA PlaceType ==
  ASSUME NEW d, NEW l \in Ledger
  PROVE  Place(d, l) \in Revision
<1>1. l.receipt \in Graph \cup {Nothing} /\ l.audit \in Audit
  BY DEF Ledger
<1>. QED BY <1>1 DEF Place, Revision

\* What replaces a row is a central ledger with that row and the others.
LEMMA UpsertFacts ==
  ASSUME NEW d \in Document, NEW l \in Ledger
  PROVE  /\ Upsert(d, l) \in Document
         /\ Upsert(d, l)[l.rollout] = [revision |-> Place(d, l), ledger |-> l]
         /\ Current(Upsert(d, l), l.rollout)
         /\ \A r \in Rollout : r # l.rollout => Upsert(d, l)[r] = d[r]
<1>1. l.rollout \in Rollout
  BY DEF Ledger
<1>2. [revision |-> Place(d, l), ledger |-> l] \in Row
  BY PlaceType DEF Row
<1>. QED BY <1>1, <1>2, NoValue DEF Upsert, Document, Current

\* Publishing a snapshot at a free name, or one that holds the same, takes no
\* evidence away.
LEMMA BackedGrows ==
  ASSUME NEW d \in Document, AllBacked(d),
         snapshot \in [Rollout \X Revision -> Ledger \cup {Nothing}],
         NEW k \in Rollout \X Revision, NEW l \in Ledger, snapshot[k] \in {Nothing, l},
         snapshot' = [snapshot EXCEPT ![k] = l]
  PROVE  \A r \in Rollout : Current(d, r) =>
           /\ snapshot[<<r, d[r].revision>>] = d[r].ledger
           /\ snapshot'[<<r, d[r].revision>>] = d[r].ledger
<1>. SUFFICES ASSUME NEW r \in Rollout, Current(d, r)
              PROVE  /\ snapshot[<<r, d[r].revision>>] = d[r].ledger
                     /\ snapshot'[<<r, d[r].revision>>] = d[r].ledger
  OBVIOUS
<1>1. d[r] \in Row
  BY DEF Current, Document
<1>2. snapshot[<<r, d[r].revision>>] = d[r].ledger
  BY DEF AllBacked, Backed
<1>3. d[r].ledger # Nothing /\ d[r].revision \in Revision
  BY <1>1, NoValue DEF Row
<1>. QED BY <1>2, <1>3

LEMMA WritesType ==
  ASSUME TypeOK, Prepared, NEW p \in Process, pc[p] = "commit", NEW moved \in BOOLEAN
  PROVE  WritesOf(p, moved) \in Writes
<1>1. call[p] \in Call
  BY DEF TypeOK, Prepared
<1>2. call[p].rows => doc[p] \in Document /\ own[p] \in Ledger
  BY <1>1 DEF TypeOK, Prepared
<1>3. call[p].rows => Upsert(doc[p], own[p]) \in Document
  BY <1>2, UpsertFacts
<1>4. own[p] # Nothing => own[p].rollout \in Rollout
  BY DEF TypeOK, Ledger
<1>5. Initial \in Rollout
  BY DocumentsAssumption
<1>6. call[p].fresh \in BOOLEAN /\ call[p].rows \in BOOLEAN /\ call[p].delta \in BOOLEAN
  BY <1>1 DEF Call
<1>7. (IF call[p].fresh THEN fetched[p] ELSE Nothing) \in Audit \cup {Nothing}
  BY DEF TypeOK
<1>8. own[p] \in Ledger \cup {Nothing}
  BY DEF TypeOK
<1>9. (IF call[p].rows THEN Upsert(doc[p], own[p]) ELSE Nothing) \in Document \cup {Nothing}
  BY <1>3
<1>10. (IF own[p] = Nothing THEN Initial ELSE own[p].rollout) \in Rollout
  BY <1>4, <1>5
<1>11. (IF call[p].git THEN Rollout ELSE missed[p]) \in SUBSET Rollout
  BY DEF TypeOK
<1>12. (call[p].delta => call[p].rows) \in BOOLEAN
  OBVIOUS
<1>13. {f \in File : \/ f = "ledger" /\ own[p] = ledger
                     \/ f = "central" /\ call[p].rows /\ Upsert(doc[p], own[p]) = central /\ ~moved}
       \in SUBSET File
  OBVIOUS
<1>14. Files \in [audit : Audit, ledger : Ledger, central : Document]
  BY DEF Files, TypeOK
<1>. QED BY <1>7, <1>8, <1>9, <1>10, <1>11, <1>12, <1>13, <1>14, Zenon DEF WritesOf, Writes

\* What a call has after it has made or read the audit.
Fetched(p, a) ==
  LET made == Pending(call[p].rollout, a) IN
    /\ pc[p] = "fetch" /\ made \in Ledger
    /\ fetched' = [fetched EXCEPT ![p] = a]
    /\ own' = [own EXCEPT ![p] = IF call[p].delta THEN made ELSE Nothing]
    /\ pc' = [pc EXCEPT ![p] = IF call[p].delta THEN "snapshot" ELSE "commit"]
    /\ used' \in [audits : Audit, receipts : 0..MaxReceipt, calls : 0..MaxCall]
    /\ UNCHANGED <<call, doc, missed, files>>

LEMMA FetchFacts ==
  ASSUME TypeOK, Prepared, NEW p \in Process, Fetch(p), ~(Leave(p) /\ UNCHANGED used)
  PROVE  \E a \in Audit : Fetched(p, a)
<1>. DEFINE a == IF call[p].fresh THEN used.audits + 1 ELSE audit
<1>1. a \in Audit
  BY DocumentsAssumption DEF Fetch, TypeOK, Audit
<1>2. call[p] \in Call
  BY DEF Fetch, TypeOK, Prepared
<1>3. Pending(call[p].rollout, a) \in Ledger
  BY <1>1, <1>2 DEF Pending, Ledger, Call
<1>4. /\ fetched' = [fetched EXCEPT ![p] = a]
      /\ own' = [own EXCEPT ![p] = IF call[p].delta THEN Pending(call[p].rollout, a) ELSE Nothing]
      /\ used' = [audits |-> IF call[p].fresh THEN a ELSE used.audits, receipts |-> used.receipts,
                  calls |-> used.calls]
      /\ pc' = [pc EXCEPT ![p] = IF call[p].delta THEN "snapshot" ELSE "commit"]
      /\ UNCHANGED <<call, doc, missed, files>> /\ pc[p] = "fetch"
  BY DEF Fetch, Goto
<1>. HIDE DEF a
<1>5. used' \in [audits : Audit, receipts : 0..MaxReceipt, calls : 0..MaxCall]
  BY <1>1, <1>4 DEF TypeOK
<1>. QED BY <1>1, <1>3, <1>4, <1>5 DEF Fetched

\* The ledger that a call has promoted.
LEMMA ResolveFacts ==
  ASSUME TypeOK, Prepared, NEW p \in Process, Resolve(p), ~(Leave(p) /\ UNCHANGED used)
  PROVE  \E n \in Graph :
           /\ Promoted(own[p], n) \in Ledger
           /\ pc[p] = "graph" /\ pc' = [pc EXCEPT ![p] = "snapshot"]
           /\ own' = [own EXCEPT ![p] = Promoted(own[p], n)]
           /\ used' \in [audits : Audit, receipts : 0..MaxReceipt, calls : 0..MaxCall]
           /\ UNCHANGED <<call, doc, fetched, missed, files>>
<1>1. own[p] \in Ledger
  BY DEF Resolve, TypeOK, Prepared
<1>2. used.receipts + 1 \in Graph /\ used.receipts + 1 \in 0..MaxReceipt
  BY DocumentsAssumption DEF Resolve, TypeOK, Graph
<1>3. Promoted(own[p], used.receipts + 1) \in Ledger
  BY <1>1, <1>2 DEF Promoted, Ledger
<1>4. /\ pc[p] = "graph" /\ pc' = [pc EXCEPT ![p] = "snapshot"]
      /\ own' = [own EXCEPT ![p] = Promoted(own[p], used.receipts + 1)]
      /\ used' = [audits |-> used.audits, receipts |-> used.receipts + 1,
                  calls |-> used.calls]
      /\ UNCHANGED <<call, doc, fetched, missed, files>>
  BY DEF Resolve, Goto
<1>5. used' \in [audits : Audit, receipts : 0..MaxReceipt, calls : 0..MaxCall]
  BY <1>2, <1>4 DEF TypeOK
<1>. QED BY <1>2, <1>3, <1>4, <1>5
-------------------------------------------------------------------------------
\* Replacing a file

\* What an application of the journal changes: one file, to what the journal holds.
LEMMA ApplyFacts ==
  ASSUME TypeOK, Locked, NEW p \in Process, Apply(p)
  PROVE  /\ journal \in Writes /\ Acceptable(journal) /\ pc' = pc
         /\ audit' # audit => journal.audit # Nothing /\ audit' = journal.audit
         /\ ledger' # ledger => journal.ledger # Nothing /\ ledger' = journal.ledger
         /\ central' # central => journal.central # Nothing /\ central' = journal.central
<1>1. journal \in Writes /\ Acceptable(journal) /\ pc' = pc
  BY DEF Apply, Publishing, Within, Locked, TypeOK
<1>. PICK f \in File : ~Written(f) /\ Replace(f, journal[f])
  BY DEF Apply
<1>2. journal[f] # Nothing
  BY DEF Written, Or
<1>3. CASE f = "audit"
  BY <1>1, <1>2, <1>3 DEF Replace, Writes
<1>4. CASE f = "ledger"
  BY <1>1, <1>2, <1>4 DEF Replace, Writes
<1>5. CASE f = "central"
  BY <1>1, <1>2, <1>5 DEF Replace, Writes
<1>. QED BY <1>3, <1>4, <1>5 DEF File

\* A rollback puts one file back, or skips it.
LEMMA UndoFacts ==
  ASSUME TypeOK, Locked, NEW p \in Process, Undo(p)
  PROVE  /\ journal \in Writes
         /\ audit' # audit => audit' = journal.prior.audit
         /\ ledger' # ledger => ledger' = journal.prior.ledger
         /\ central' # central => central' = journal.prior.central
         /\ pc' = pc \/ \E s \in DOMAIN Left : pc' = [pc EXCEPT ![p] = s]
<1>1. journal \in Writes
  BY DEF Undo, Within, Locked, TypeOK
<1>2. CASE UNCHANGED files
  BY <1>1, <1>2 DEF files, Undo, Left, Goto
<1>3. CASE ~UNCHANGED files
  <2>. PICK f \in Left[pc[p]] : Replace(f, journal.prior[f]) /\ UNCHANGED pc
    BY <1>3 DEF Undo
  <2>1. f \in File
    BY DEF Undo, Left, Before, File
  <2>2. CASE f = "audit"
    BY <1>1, <2>2 DEF Replace, Writes
  <2>3. CASE f = "ledger"
    BY <1>1, <2>3 DEF Replace, Writes
  <2>4. CASE f = "central"
    BY <1>1, <2>4 DEF Replace, Writes
  <2>. QED BY <2>1, <2>2, <2>3, <2>4 DEF File
<1>. QED BY <1>2, <1>3

\* Either keeps everything else, and who works from the central ledger misses what
\* changes in it.
LEMMA RewriteFacts ==
  ASSUME TypeOK, Locked, NEW p \in Process, Apply(p) \/ Undo(p)
  PROVE  /\ journal \in Writes /\ Within(p)
         /\ audit' \in Audit /\ ledger' \in Ledger /\ central' \in Document
         /\ UNCHANGED <<base, snapshot, journal, holder, locals, used>>
         /\ pc' = pc \/ \E s \in DOMAIN Left : pc' = [pc EXCEPT ![p] = s]
         /\ missed' \in [Process -> SUBSET Rollout]
         /\ \A q \in Process : doc[q] # Nothing =>
              missed'[q] = missed[q] \cup {r \in Rollout : central'[r] # central[r]}
<1>1. journal \in Writes /\ Within(p)
  BY DEF Apply, Undo, Publishing, Within, Locked, TypeOK
<1>2. audit' \in Audit /\ ledger' \in Ledger /\ central' \in Document
  BY <1>1, ApplyFacts, UndoFacts DEF TypeOK, Writes
<1>3. pc' = pc \/ \E s \in DOMAIN Left : pc' = [pc EXCEPT ![p] = s]
  BY ApplyFacts, UndoFacts
<1>4. CASE \E f \in File : \E bytes : Replace(f, bytes)
  BY <1>1, <1>2, <1>3, <1>4 DEF Replace, TypeOK
<1>5. CASE UNCHANGED <<files, locals, missed, used>>
  BY <1>1, <1>2, <1>3, <1>5 DEF files, TypeOK
<1>6. \/ \E f \in File : \E bytes : Replace(f, bytes)
      \/ UNCHANGED <<files, locals, missed, used>>
  <2>1. CASE Apply(p)
    BY <2>1 DEF Apply
  <2>2. CASE Undo(p)
    <3>1. \A s \in DOMAIN Left : Left[s] \subseteq File
      BY DEF Left, Before, File
    <3>. QED BY <2>2, <3>1 DEF Undo
  <2>. QED BY <2>1, <2>2
<1>. QED BY <1>4, <1>5, <1>6
-------------------------------------------------------------------------------
\* Types

LEMMA LeaveType ==
  ASSUME TypeOK, NEW p \in Process, Leave(p)
  PROVE  /\ pc' \in [Process -> Statement]
         /\ call' \in [Process -> Call \cup {Nothing}]
         /\ doc' \in [Process -> Document \cup {Nothing}]
         /\ fetched' \in [Process -> Audit \cup {Nothing}]
         /\ own' \in [Process -> Ledger \cup {Nothing}]
         /\ missed' \in [Process -> SUBSET Rollout]
BY DEF TypeOK, Leave, Goto, Statement

LEMMA TypeStep ==
  ASSUME TypeOK, Locked, Prepared, NEW p \in Process, Step(p)
  PROVE  TypeOK'
<1>1. CASE Begin(p)
  <2>1. call' \in [Process -> Call \cup {Nothing}]
    <3>1. \A c \in Accepted : c \in Call
      BY DEF Accepted
    <3>. QED BY <1>1, <3>1 DEF Begin, TypeOK
  <2>2. used' \in [audits : Audit, receipts : 0..MaxReceipt, calls : 0..MaxCall]
    BY <1>1, DocumentsAssumption DEF Begin, TypeOK
  <2>. QED BY <1>1, <2>1, <2>2 DEF Begin, TypeOK, files, Goto, Statement
<1>2. CASE Recover(p)
  BY <1>2 DEF Recover, TypeOK, locals, Goto, Statement, First
<1>3. CASE Commit(p)
  <2>1. CASE journal # Nothing
    BY <1>3, <2>1, LeaveType DEF Commit, TypeOK
  <2>2. CASE journal = Nothing
    <3>1. journal' \in Writes
      BY <1>3, <2>2, WritesType DEF Commit
    <3>. QED BY <1>3, <2>2, <3>1 DEF Commit, TypeOK, locals, Goto, Statement
  <2>. QED BY <2>1, <2>2
<1>4. CASE Apply(p) \/ Undo(p)
  <2>1. pc' \in [Process -> Statement]
    BY <1>4, RewriteFacts DEF TypeOK, Statement
  <2>. QED BY <1>4, <2>1, RewriteFacts DEF TypeOK, locals
<1>5. CASE Close(p)
  <2>1. CASE pc[p] = "close"
    BY <1>5, <2>1, LeaveType DEF Close, TypeOK
  <2>2. CASE pc[p] # "close"
    BY <1>5, <2>2 DEF Close, TypeOK, locals, Goto, Statement, First
  <2>. QED BY <2>1, <2>2
<1>6. CASE Reject(p)
  BY <1>6, LeaveType DEF Reject, TypeOK
<1>15. CASE Fail(p)
  BY <1>15 DEF Fail, TypeOK, files, locals, Goto, Statement, Left
<1>7. CASE ReadCentral(p)
  BY <1>7 DEF ReadCentral, TypeOK, files, Goto, Statement
<1>8. CASE ReadPrevious(p)
  <2>1. CASE Leave(p)
    BY <1>8, <2>1, LeaveType DEF ReadPrevious, TypeOK, files
  <2>2. CASE Goto(p, "fetch") /\ UNCHANGED <<locals, missed>>
    BY <1>8, <2>2 DEF ReadPrevious, TypeOK, files, locals, Goto, Statement
  <2>. QED BY <1>8, <2>1, <2>2 DEF ReadPrevious
<1>9. CASE Fetch(p)
  <2>1. CASE Leave(p) /\ UNCHANGED used
    BY <1>9, <2>1, LeaveType DEF Fetch, TypeOK, files
  <2>2. CASE ~(Leave(p) /\ UNCHANGED used)
    <3>. PICK a \in Audit : Fetched(p, a)
      BY <1>9, <2>2, FetchFacts
    <3>. QED BY <1>9 DEF TypeOK, files, Statement, Fetched
  <2>. QED BY <2>1, <2>2
<1>10. CASE Snapshot(p)
  <2>1. CASE Leave(p) /\ UNCHANGED snapshot
    BY <1>10, <2>1, LeaveType DEF Snapshot, TypeOK
  <2>2. CASE ~(Leave(p) /\ UNCHANGED snapshot)
    <3>1. own[p] \in Ledger
      BY <1>10 DEF Snapshot, TypeOK, Prepared
    <3>2. <<own[p].rollout, Place(doc[p], own[p])>> \in Rollout \X Revision
      BY <3>1, PlaceType DEF Ledger
    <3>3. snapshot' \in [Rollout \X Revision -> Ledger \cup {Nothing}]
      BY <1>10, <2>2, <3>1, <3>2 DEF Snapshot, TypeOK, Or
    <3>. QED BY <1>10, <2>2, <3>3 DEF Snapshot, TypeOK, locals, Goto, Statement
  <2>. QED BY <2>1, <2>2
<1>11. CASE ReadLedger(p)
  <2>1. CASE Leave(p)
    BY <1>11, <2>1, LeaveType DEF ReadLedger, TypeOK, files
  <2>2. CASE ~Leave(p)
    BY <1>11, <2>2 DEF ReadLedger, TypeOK, files, Goto, Statement
  <2>. QED BY <2>1, <2>2
<1>12. CASE ReadRow(p)
  <2>1. CASE Leave(p)
    BY <1>12, <2>1, LeaveType DEF ReadRow, TypeOK, files
  <2>2. CASE ~Leave(p)
    BY <1>12, <2>2 DEF ReadRow, TypeOK, files, Goto, Statement
  <2>. QED BY <2>1, <2>2
<1>13. CASE Resolve(p)
  <2>1. CASE Leave(p) /\ UNCHANGED used
    BY <1>13, <2>1, LeaveType DEF Resolve, TypeOK, files
  <2>2. CASE ~(Leave(p) /\ UNCHANGED used)
    <3>. PICK n \in Graph : /\ Promoted(own[p], n) \in Ledger
                            /\ pc' = [pc EXCEPT ![p] = "snapshot"]
                            /\ own' = [own EXCEPT ![p] = Promoted(own[p], n)]
      BY <1>13, <2>2, ResolveFacts
    <3>1. /\ used' \in [audits : Audit, receipts : 0..MaxReceipt, calls : 0..MaxCall]
          /\ UNCHANGED <<call, doc, fetched, missed, files>>
      BY <1>13, <2>2, ResolveFacts
    <3>. QED BY <3>1 DEF TypeOK, files, Statement
  <2>. QED BY <2>1, <2>2
<1>14. CASE Crash(p)
  BY <1>14, LeaveType DEF Crash, TypeOK, files
<1>. QED BY <1>1, <1>2, <1>3, <1>4, <1>5, <1>6, <1>7, <1>8, <1>9, <1>10, <1>11, <1>12, <1>13, <1>14,
        <1>15 DEF Step
-------------------------------------------------------------------------------
\* The shape of the steps

\* A step of p moves nobody else.
LEMMA OthersStay ==
  ASSUME TypeOK, Locked, NEW p \in Process, Step(p), NEW q \in Process \ {p}
  PROVE  pc'[q] = pc[q] /\ call'[q] = call[q] /\ doc'[q] = doc[q] /\ own'[q] = own[q]
<1>1. CASE Begin(p) \/ Recover(p) \/ Commit(p) \/ Close(p) \/ Fail(p) \/ Reject(p) \/ Crash(p)
  BY <1>1 DEF TypeOK, Begin, Recover, Commit, Close, Fail, Reject, Crash, Leave, Goto, locals
<1>4. CASE Apply(p) \/ Undo(p)
  BY <1>4, RewriteFacts DEF TypeOK, locals
<1>2. CASE ReadCentral(p) \/ ReadPrevious(p) \/ Fetch(p) \/ Snapshot(p)
  BY <1>2 DEF TypeOK, ReadCentral, ReadPrevious, Fetch, Snapshot, Leave, Goto, locals
<1>3. CASE ReadLedger(p) \/ ReadRow(p) \/ Resolve(p)
  BY <1>3 DEF TypeOK, ReadLedger, ReadRow, Resolve, Leave, Goto, locals
<1>. QED BY <1>1, <1>2, <1>3, <1>4 DEF Step

\* Nor does it change what they have missed, unless it replaces a file.
LEMMA MissedStay ==
  ASSUME TypeOK, NEW p \in Process, Step(p), ~(Apply(p) \/ Undo(p)), NEW q \in Process \ {p}
  PROVE  missed'[q] = missed[q]
<1>1. CASE Begin(p) \/ Recover(p) \/ Commit(p) \/ Close(p) \/ Fail(p) \/ Reject(p) \/ Crash(p)
  BY <1>1 DEF TypeOK, Begin, Recover, Commit, Close, Fail, Reject, Crash, Leave, locals
<1>2. CASE ReadCentral(p) \/ ReadPrevious(p) \/ Fetch(p) \/ Snapshot(p)
  BY <1>2 DEF TypeOK, ReadCentral, ReadPrevious, Fetch, Snapshot, Leave, locals
<1>3. CASE ReadLedger(p) \/ ReadRow(p) \/ Resolve(p)
  BY <1>3 DEF TypeOK, ReadLedger, ReadRow, Resolve, Leave, locals
<1>. QED BY <1>1, <1>2, <1>3 DEF Step

\* The call of p is over.
LEMMA LeaveFacts ==
  ASSUME TypeOK, NEW p \in Process, Leave(p)
  PROVE  pc'[p] = "idle" /\ call'[p] = Nothing /\ doc'[p] = Nothing /\ own'[p] = Nothing
BY DEF TypeOK, Leave, Goto

\* The documents change in Apply and Undo alone, the snapshots in Snapshot alone, the journal
\* in Commit and Close; nothing changes the commit.
LEMMA FilesMove ==
  ASSUME TypeOK, Locked, NEW p \in Process, Step(p)
  PROVE  /\ Apply(p) \/ Undo(p) \/ UNCHANGED <<audit, ledger, central>>
         /\ Snapshot(p) \/ UNCHANGED snapshot
         /\ Commit(p) \/ Close(p) \/ UNCHANGED journal
         /\ UNCHANGED base
<1>1. CASE Begin(p) \/ Recover(p) \/ Commit(p) \/ Close(p) \/ Fail(p) \/ Reject(p) \/ Crash(p)
  BY <1>1 DEF Begin, Recover, Commit, Close, Fail, Reject, Crash, files
<1>4. CASE Apply(p) \/ Undo(p)
  BY <1>4, RewriteFacts
<1>2. CASE ReadCentral(p) \/ ReadPrevious(p) \/ Fetch(p) \/ Snapshot(p)
  BY <1>2 DEF ReadCentral, ReadPrevious, Fetch, Snapshot, files
<1>3. CASE ReadLedger(p) \/ ReadRow(p) \/ Resolve(p)
  BY <1>3 DEF ReadLedger, ReadRow, Resolve, files
<1>. QED BY <1>1, <1>2, <1>3, <1>4 DEF Step

\* The journal that a commit writes.
LEMMA CommitFacts ==
  ASSUME NEW p \in Process, Commit(p)
  PROVE  \/ UNCHANGED <<journal, holder>> /\ Leave(p)
         \/ /\ journal = Nothing /\ holder = Nothing /\ pc[p] = "commit"
            /\ \E moved \in BOOLEAN : journal' = WritesOf(p, moved)
            /\ holder' = p /\ pc' = [pc EXCEPT ![p] = "close"]
            /\ UNCHANGED <<locals, missed>>
BY DEF Commit, Goto

-------------------------------------------------------------------------------
\* The lock and what a call has prepared

LEMMA LockedStep ==
  ASSUME TypeOK, Prepared, Locked, NEW p \in Process, Step(p)
  PROVE  Locked'
<1>1. Process \cap {Nothing} = {}
  BY NoValue
<1>2. CASE Commit(p)
  <2>1. CASE UNCHANGED <<journal, holder>> /\ Leave(p)
    BY <1>2, <2>1, <1>1, LeftStatements DEF Commit, Locked, Within, TypeOK, Leave, Goto
  <2>2. ASSUME NEW moved \in BOOLEAN, journal' = WritesOf(p, moved), holder = Nothing,
               holder' = p, pc' = [pc EXCEPT ![p] = "close"]
        PROVE  Locked'
    <3>1. journal' # Nothing
      <4>1. pc[p] = "commit"
        BY <1>2 DEF Commit
      <4>. QED BY <2>2, <4>1, WritesType, NoValue
    <3>. QED BY <2>2, <3>1, <1>1 DEF Locked, Within, TypeOK
  <2>. QED BY <1>2, <2>1, <2>2, CommitFacts
<1>3. CASE Recover(p) \/ Close(p) \/ Fail(p) \/ Reject(p) \/ Crash(p)
  BY <1>3, <1>1 DEF Recover, Close, Fail, Reject, Crash, Locked, Within, TypeOK, Leave, Goto,
     Publishing, locals, files, First, Left
<1>6. CASE Apply(p) \/ Undo(p)
  BY <1>6, RewriteFacts, LeftStatements, <1>1 DEF Locked, Within, TypeOK
<1>4. CASE Begin(p) \/ ReadCentral(p) \/ ReadPrevious(p) \/ Fetch(p) \/ Snapshot(p)
  BY <1>4, LeftStatements DEF Begin, ReadCentral, ReadPrevious, Fetch, Snapshot, Locked, Within, TypeOK, Leave,
     Goto, files, locals
<1>5. CASE ReadLedger(p) \/ ReadRow(p) \/ Resolve(p)
  BY <1>5, LeftStatements DEF ReadLedger, ReadRow, Resolve, Locked, Within, TypeOK, Leave, Goto, files
<1>. QED BY <1>2, <1>3, <1>4, <1>5, <1>6 DEF Step

\* What Prepared says of one call.
PreparedAt(p) ==
  /\ pc[p] # "idle" => call[p] # Nothing
  /\ pc[p] \in {"idle", "recover", "replay"} => doc[p] = Nothing
  /\ pc[p] \in {"previous", "snapshot", "graph"} => doc[p] # Nothing
  /\ pc[p] \in {"snapshot", "row", "graph"} => own[p] # Nothing
  /\ (pc[p] \in {"fetch", "commit"} /\ call[p].delta) => doc[p] # Nothing
  /\ pc[p] \in {"previous", "snapshot", "row", "graph", "ledger"} => call[p].delta
  /\ pc[p] = "commit" => (own[p] # Nothing <=> call[p].delta)
  /\ (call[p] # Nothing /\ (call[p].rows \/ call[p].tool # "audit")) => call[p].delta

LEMMA PreparedStep ==
  ASSUME TypeOK, TypeOK', Locked, Prepared, NEW p \in Process, Step(p)
  PROVE  Prepared'
<1>1. SUFFICES PreparedAt(p)'
  BY OthersStay DEF Prepared, PreparedAt
<1>2. PreparedAt(p)
  BY DEF Prepared, PreparedAt
<1>3. ASSUME Leave(p) PROVE PreparedAt(p)'
  BY <1>3, LeaveFacts DEF PreparedAt
<1>4. CASE Begin(p)
  <2>. PICK c \in Call : /\ call' = [call EXCEPT ![p] = c]
                         /\ c.rows \/ c.tool # "audit" => c.delta
    <3>1. \A tool \in {"promote", "refresh-evidence"} : Promotion(tool).delta
      BY DEF Promotion
    <3>2. \A c \in Accepted : c \in Call /\ (c.rows \/ c.tool # "audit" => c.delta)
      BY <3>1 DEF Accepted, Call
    <3>. QED BY <1>4, <3>2 DEF Begin
  <2>1. c # Nothing
    BY NoValue
  <2>2. pc'[p] = "recover" /\ call'[p] = c /\ doc' = doc /\ pc[p] = "idle"
    BY <1>4 DEF Begin, Goto, TypeOK
  <2>. QED BY <1>2, <2>1, <2>2 DEF PreparedAt
<1>5. CASE Recover(p) \/ Close(p)
  <2>. SUFFICES ASSUME ~Leave(p) PROVE PreparedAt(p)'
    BY <1>3
  <2>1. /\ pc'[p] \in {"replay", First(p)} /\ pc[p] \in {"recover", "replay"}
        /\ UNCHANGED <<call, doc, own>>
    BY <1>5 DEF Recover, Close, Goto, TypeOK, locals, Publishing
  <2>. QED BY <1>2, <2>1 DEF PreparedAt, First
<1>14. CASE Apply(p) \/ Undo(p) \/ Fail(p)
  <2>1. /\ pc'[p] = pc[p] \/ pc'[p] \in DOMAIN Left
        /\ pc[p] # "idle" /\ UNCHANGED <<call, doc, own>>
    BY <1>14, RewriteFacts DEF Fail, Goto, TypeOK, locals, files, Publishing, Within, Left
  <2>. QED BY <1>2, <2>1 DEF PreparedAt, Left
<1>6. CASE Commit(p) \/ Reject(p) \/ Crash(p)
  <2>. SUFFICES ASSUME ~Leave(p) PROVE PreparedAt(p)'
    BY <1>3
  <2>1. /\ pc'[p] = pc[p] \/ pc'[p] = "close"
        /\ pc'[p] \in {"close", "replay"} /\ pc[p] # "idle"
        /\ UNCHANGED <<call, doc, own>>
    BY <1>6 DEF Commit, Reject, Crash, Goto, TypeOK, locals
  <2>. QED BY <1>2, <2>1 DEF PreparedAt
<1>7. CASE ReadCentral(p)
  <2>1. central # Nothing /\ base # Nothing
    BY NoValue DEF TypeOK
  <2>. QED BY <1>2, <1>7, <2>1 DEF ReadCentral, PreparedAt, Goto, TypeOK
<1>8. CASE ReadPrevious(p)
  <2>. SUFFICES ASSUME ~Leave(p) PROVE PreparedAt(p)'
    BY <1>3
  <2>. QED BY <1>2, <1>8 DEF ReadPrevious, PreparedAt, Goto, TypeOK, locals
<1>9. CASE Fetch(p)
  <2>. SUFFICES ASSUME ~Leave(p) PROVE PreparedAt(p)'
    BY <1>3
  <2>. PICK a \in Audit : Fetched(p, a)
    BY <1>9, FetchFacts
  <2>1. /\ own'[p] = IF call[p].delta THEN Pending(call[p].rollout, a) ELSE Nothing
        /\ pc'[p] = IF call[p].delta THEN "snapshot" ELSE "commit"
        /\ pc[p] = "fetch" /\ UNCHANGED <<call, doc>>
    BY DEF Fetched, TypeOK
  <2>2. call[p].delta => own'[p] # Nothing
    BY <2>1, NoValue DEF Fetched
  <2>. QED BY <1>2, <2>1, <2>2 DEF PreparedAt
<1>10. CASE Snapshot(p)
  <2>. SUFFICES ASSUME ~Leave(p) PROVE PreparedAt(p)'
    BY <1>3
  <2>. QED BY <1>2, <1>10 DEF Snapshot, PreparedAt, Goto, TypeOK, locals
<1>11. CASE ReadLedger(p)
  <2>. SUFFICES ASSUME ~Leave(p) PROVE PreparedAt(p)'
    BY <1>3
  <2>1. ledger # Nothing
    BY NoValue DEF TypeOK
  <2>. QED BY <1>2, <1>11, <2>1 DEF ReadLedger, PreparedAt, Goto, TypeOK
<1>12. CASE ReadRow(p)
  <2>. SUFFICES ASSUME ~Leave(p) PROVE PreparedAt(p)'
    BY <1>3
  <2>1. central # Nothing
    BY NoValue DEF TypeOK
  <2>. QED BY <1>2, <1>12, <2>1 DEF ReadRow, PreparedAt, Goto, TypeOK
<1>13. CASE Resolve(p)
  <2>. SUFFICES ASSUME ~Leave(p) PROVE PreparedAt(p)'
    BY <1>3
  <2>. PICK n \in Graph : /\ Promoted(own[p], n) \in Ledger
                          /\ pc[p] = "graph" /\ pc' = [pc EXCEPT ![p] = "snapshot"]
                          /\ own' = [own EXCEPT ![p] = Promoted(own[p], n)]
                          /\ UNCHANGED <<call, doc>>
    BY <1>13, ResolveFacts
  <2>1. pc'[p] = "snapshot" /\ own'[p] # Nothing
    BY NoValue DEF TypeOK
  <2>. QED BY <1>2, <2>1 DEF PreparedAt
<1>. QED BY <1>4, <1>5, <1>6, <1>7, <1>8, <1>9, <1>10, <1>11, <1>12, <1>13, <1>14 DEF Step
-------------------------------------------------------------------------------
\* The evidence behind the rows

\* What a call publishes: its ledger, at a name that is free or holds it.
LEMMA SnapshotFacts ==
  ASSUME TypeOK, Prepared, NEW p \in Process, Snapshot(p), ~(Leave(p) /\ UNCHANGED snapshot)
  PROVE  LET k == <<own[p].rollout, Place(doc[p], own[p])>> IN
           /\ pc[p] = "snapshot" /\ own[p] \in Ledger /\ k \in Rollout \X Revision
           /\ snapshot[k] \in {Nothing, own[p]}
           /\ snapshot' = [snapshot EXCEPT ![k] = own[p]]
           /\ pc' = [pc EXCEPT ![p] = "commit"] /\ UNCHANGED <<locals, missed>>
<1>1. own[p] \in Ledger
  BY DEF Snapshot, TypeOK, Prepared
<1>2. <<own[p].rollout, Place(doc[p], own[p])>> \in Rollout \X Revision
  BY <1>1, PlaceType DEF Ledger
<1>3. own[p] # Nothing
  BY <1>1, NoValue
<1>. QED BY <1>1, <1>2, <1>3 DEF Snapshot, Published, Or, Goto

\* A step takes the evidence of no row away.
LEMMA BackedKept ==
  ASSUME TypeOK, Locked, Prepared, NEW p \in Process, Step(p), NEW d \in Document, AllBacked(d),
         NEW r \in Rollout, Current(d, r)
  PROVE  snapshot'[<<r, d[r].revision>>] = d[r].ledger
<1>1. CASE UNCHANGED snapshot
  BY <1>1 DEF AllBacked, Backed
<1>2. CASE Snapshot(p) /\ ~(Leave(p) /\ UNCHANGED snapshot)
  <2>. DEFINE k == <<own[p].rollout, Place(doc[p], own[p])>>
  <2>1. /\ own[p] \in Ledger /\ k \in Rollout \X Revision /\ snapshot[k] \in {Nothing, own[p]}
        /\ snapshot' = [snapshot EXCEPT ![k] = own[p]]
    BY <1>2, SnapshotFacts
  <2>. HIDE DEF k
  <2>2. snapshot \in [Rollout \X Revision -> Ledger \cup {Nothing}]
    BY DEF TypeOK
  <2>. QED BY <2>1, <2>2, BackedGrows
<1>. QED BY <1>1, <1>2, FilesMove

\* The central ledger a call works from is what is there, or that of a commit.
LEMMA DocMoves ==
  ASSUME TypeOK, Prepared, NEW p \in Process, Step(p), ~(Apply(p) \/ Undo(p))
  PROVE  \/ doc'[p] = Nothing
         \/ doc'[p] = doc[p] /\ missed'[p] = missed[p] /\ call'[p] = call[p]
         \/ doc'[p] = central /\ missed'[p] = {}
         \/ doc'[p] = base /\ call'[p].git
<1>1. CASE Leave(p)
  BY <1>1, LeaveFacts
<1>2. CASE Begin(p) \/ Recover(p) \/ Commit(p) \/ Close(p) \/ Fail(p) \/ Reject(p) \/ Crash(p)
  BY <1>1, <1>2 DEF TypeOK, Prepared, Begin, Recover, Commit, Close, Fail, Reject, Crash, locals
<1>3. CASE ReadCentral(p)
  BY <1>3 DEF TypeOK, ReadCentral
<1>4. CASE ReadPrevious(p) \/ Fetch(p) \/ Snapshot(p) \/ ReadLedger(p) \/ Resolve(p)
  BY <1>1, <1>4 DEF TypeOK, ReadPrevious, Fetch, Snapshot, ReadLedger, Resolve, locals
<1>5. CASE ReadRow(p)
  BY <1>1, <1>5 DEF TypeOK, ReadRow
<1>. QED BY <1>2, <1>3, <1>4, <1>5 DEF Step

\* A call is about to commit when it has published its evidence, or has none.
LEMMA CommitReached ==
  ASSUME TypeOK, TypeOK', Locked, Prepared, NEW p \in Process, Step(p), pc'[p] = "commit", call'[p].delta
  PROVE  /\ Snapshot(p) /\ ~(Leave(p) /\ UNCHANGED snapshot)
<1>1. ~Leave(p)
  BY LeaveFacts
<1>2. CASE Begin(p) \/ Recover(p) \/ Commit(p) \/ Close(p) \/ Fail(p) \/ Reject(p) \/ Crash(p)
  BY <1>1, <1>2 DEF TypeOK, Begin, Recover, Commit, Close, Fail, Reject, Crash, Goto, First,
     Publishing, locals
<1>6. CASE Apply(p) \/ Undo(p)
  BY <1>6, RewriteFacts DEF TypeOK, Within, Left
<1>3. CASE ReadCentral(p) \/ ReadPrevious(p) \/ ReadLedger(p) \/ ReadRow(p) \/ Resolve(p)
  BY <1>1, <1>3 DEF TypeOK, ReadCentral, ReadPrevious, ReadLedger, ReadRow, Resolve, Goto
<1>4. CASE Fetch(p)
  BY <1>1, <1>4, FetchFacts DEF TypeOK, Fetched
<1>5. CASE Snapshot(p)
  BY <1>1, <1>5
<1>. QED BY <1>2, <1>3, <1>4, <1>5, <1>6 DEF Step

\* What a commit writes to the central ledger has evidence in every row.
LEMMA WrittenBacked ==
  ASSUME TypeOK, Prepared, Evidence, NEW p \in Process, pc[p] = "commit", call[p].rows
  PROVE  /\ doc[p] \in Document /\ own[p] \in Ledger
         /\ Upsert(doc[p], own[p]) \in Document /\ AllBacked(Upsert(doc[p], own[p]))
<1>1. doc[p] \in Document /\ own[p] \in Ledger /\ call[p].delta
  BY DEF TypeOK, Prepared
<1>2. AllBacked(doc[p]) /\ SnapshotMade(p)
  BY <1>1, NoValue DEF Evidence
<1>. DEFINE d == Upsert(doc[p], own[p])
<1>3. /\ d \in Document /\ d[own[p].rollout] = [revision |-> Place(doc[p], own[p]), ledger |-> own[p]]
      /\ \A r \in Rollout : r # own[p].rollout => d[r] = doc[p][r]
  BY <1>1, UpsertFacts
<1>. HIDE DEF d
<1>4. AllBacked(d)
  <2>. SUFFICES ASSUME NEW r \in Rollout, Current(d, r)
                PROVE  snapshot[<<r, d[r].revision>>] = d[r].ledger
    BY DEF AllBacked, Backed
  <2>1. CASE r = own[p].rollout
    BY <1>2, <1>3, <2>1 DEF SnapshotMade
  <2>2. CASE r # own[p].rollout
    BY <1>2, <1>3, <2>2 DEF AllBacked, Backed, Current
  <2>. QED BY <2>1, <2>2
<1>. QED BY <1>1, <1>3, <1>4 DEF d

LEMMA EvidenceStep ==
  ASSUME TypeOK, TypeOK', Locked, Prepared, Prepared', Evidence, NEW p \in Process, Step(p)
  PROVE  Evidence'
<1>1. AllBacked(central)'
  <2>1. \/ central' = central
        \/ journal # Nothing /\ journal.central # Nothing /\ central' = journal.central
        \/ journal # Nothing /\ central' = journal.prior.central
    BY FilesMove, ApplyFacts, UndoFacts, NoValue
  <2>2. AllBacked(central')
    BY <2>1 DEF Evidence, AllBacked, Backed
  <2>3. central' \in Document
    BY DEF TypeOK
  <2>. QED BY <2>2, <2>3, BackedKept DEF AllBacked, Backed
<1>2. AllBacked(base)'
  <2>1. base \in Document /\ base' = base /\ AllBacked(base)
    BY FilesMove DEF TypeOK, Evidence
  <2>. QED BY <2>1, BackedKept DEF AllBacked, Backed
<1>3. ASSUME NEW q \in Process, doc'[q] # Nothing PROVE AllBacked(doc[q])'
  <2>1. doc'[q] \in Document
    BY <1>3 DEF TypeOK
  <2>2. AllBacked(doc'[q])
    <3>1. CASE q = p /\ ~(Apply(p) \/ Undo(p))
      BY <1>3, <3>1, DocMoves DEF Evidence
    <3>2. CASE q # p
      BY <1>3, <3>2, OthersStay DEF Evidence
    <3>3. CASE Apply(p) \/ Undo(p)
      BY <1>3, <3>3, RewriteFacts DEF Evidence, locals
    <3>. QED BY <3>1, <3>2, <3>3
  <2>. QED BY <2>1, <2>2, BackedKept DEF AllBacked, Backed
<1>4. ASSUME journal' # Nothing, journal'.central # Nothing PROVE AllBacked(journal.central)'
  <2>1. journal'.central \in Document
    BY <1>4 DEF TypeOK, Writes
  <2>2. AllBacked(journal'.central)
    <3>1. CASE journal' = journal
      BY <1>4, <3>1 DEF Evidence
    <3>2. CASE Commit(p) /\ journal' # journal
      <4>. PICK moved \in BOOLEAN : journal' = WritesOf(p, moved) /\ pc[p] = "commit"
        BY <3>2, CommitFacts
      <4>1. journal'.central = IF call[p].rows THEN Upsert(doc[p], own[p]) ELSE Nothing
        BY DEF WritesOf
      <4>. QED BY <1>4, <4>1, WrittenBacked
    <3>3. CASE Close(p)
      BY <1>4, <3>3 DEF Close
    <3>. QED BY <3>1, <3>2, <3>3, FilesMove
  <2>. QED BY <2>1, <2>2, BackedKept DEF AllBacked, Backed
<1>6. ASSUME journal' # Nothing PROVE AllBacked(journal.prior.central)'
  <2>1. journal'.prior.central \in Document
    BY <1>6 DEF TypeOK, Writes
  <2>2. AllBacked(journal'.prior.central)
    <3>1. CASE journal' = journal
      BY <1>6, <3>1 DEF Evidence
    <3>2. CASE Commit(p) /\ journal' # journal
      <4>. PICK moved \in BOOLEAN : journal' = WritesOf(p, moved)
        BY <3>2, CommitFacts
      <4>. QED BY DEF WritesOf, Files, Evidence
    <3>3. CASE Close(p)
      BY <1>6, <3>3 DEF Close
    <3>. QED BY <3>1, <3>2, <3>3, FilesMove
  <2>. QED BY <2>1, <2>2, BackedKept DEF AllBacked, Backed
<1>5. ASSUME NEW q \in Process, pc'[q] = "commit", call'[q].delta PROVE SnapshotMade(q)'
  <2>1. CASE q = p
    <3>. DEFINE k == <<own[p].rollout, Place(doc[p], own[p])>>
    <3>1. Snapshot(p) /\ ~(Leave(p) /\ UNCHANGED snapshot)
      BY <1>5, <2>1, CommitReached
    <3>2. /\ k \in Rollout \X Revision /\ snapshot' = [snapshot EXCEPT ![k] = own[p]]
          /\ own' = own /\ doc' = doc
      BY <3>1, SnapshotFacts DEF locals
    <3>3. snapshot'[k] = own[p]
      BY <3>2 DEF TypeOK
    <3>. QED BY <2>1, <3>2, <3>3 DEF SnapshotMade, Place
  <2>2. CASE q # p
    <3>1. pc[q] = "commit" /\ call[q].delta /\ own'[q] = own[q] /\ doc'[q] = doc[q]
      BY <1>5, <2>2, OthersStay
    <3>2. own[q] \in Ledger /\ SnapshotMade(q)
      BY <3>1 DEF TypeOK, Prepared, Evidence
    <3>. DEFINE k == <<own[q].rollout, Place(doc[q], own[q])>>
    <3>3. k \in Rollout \X Revision
      BY <3>2, PlaceType DEF Ledger
    <3>4. snapshot'[k] = own[q]
      <4>1. CASE UNCHANGED snapshot
        BY <3>2, <4>1 DEF SnapshotMade
      <4>2. CASE Snapshot(p) /\ ~(Leave(p) /\ UNCHANGED snapshot)
        <5>. DEFINE n == <<own[p].rollout, Place(doc[p], own[p])>>
        <5>1. /\ own[p] \in Ledger /\ n \in Rollout \X Revision /\ snapshot[n] \in {Nothing, own[p]}
              /\ snapshot' = [snapshot EXCEPT ![n] = own[p]]
          BY <4>2, SnapshotFacts
        <5>2. snapshot[k] = own[q] /\ own[q] # Nothing
          BY <3>2, NoValue DEF SnapshotMade
        <5>. HIDE DEF k, n
        <5>. QED BY <3>3, <5>1, <5>2 DEF TypeOK
      <4>. QED BY <4>1, <4>2, FilesMove
    <3>. QED BY <3>1, <3>4 DEF SnapshotMade, Place
  <2>. QED BY <2>1, <2>2
<1>. QED BY <1>1, <1>2, <1>3, <1>4, <1>5, <1>6 DEF Evidence
-------------------------------------------------------------------------------
\* What is remembered of the central ledger

LEMMA RememberedStep ==
  ASSUME TypeOK, TypeOK', Locked, Prepared, Evidence, Remembered, NEW p \in Process, Step(p)
  PROVE  Remembered'
<1>1. ASSUME NEW q \in Process, doc'[q] # Nothing, ~call'[q].git,
             NEW r \in Rollout, central'[r] # doc'[q][r]
      PROVE  r \in missed'[q]
  <2>1. CASE Apply(p) \/ Undo(p)
    <3>1. UNCHANGED <<doc, call>>
      BY <2>1, RewriteFacts DEF locals
    <3>2. missed'[q] = missed[q] \cup {m \in Rollout : central'[m] # central[m]}
      BY <1>1, <2>1, <3>1, RewriteFacts
    <3>3. central[r] # doc[q][r] => r \in missed[q]
      BY <1>1, <3>1 DEF Remembered
    <3>. QED BY <1>1, <3>1, <3>2, <3>3
  <2>2. CASE ~(Apply(p) \/ Undo(p)) /\ q = p
    BY <1>1, <2>2, DocMoves, FilesMove DEF Remembered
  <2>3. CASE ~(Apply(p) \/ Undo(p)) /\ q # p
    <3>1. missed'[q] = missed[q]
      BY <2>3, MissedStay
    <3>. QED BY <1>1, <2>3, <3>1, OthersStay, FilesMove DEF Remembered
  <2>. QED BY <2>1, <2>2, <2>3
<1>2. ASSUME journal' # Nothing, journal'.central # Nothing,
             NEW r \in Rollout, journal'.prior.central[r] # journal'.central[r]
      PROVE  r = journal'.rollout \/ r \in journal'.missed
  <2>2. CASE Commit(p) /\ journal' # journal
    <3>. PICK moved \in BOOLEAN : journal' = WritesOf(p, moved) /\ pc[p] = "commit"
      BY <2>2, CommitFacts
    <3>1. /\ call[p].rows /\ journal'.central = Upsert(doc[p], own[p])
          /\ journal'.missed = IF call[p].git THEN Rollout ELSE missed[p]
          /\ journal'.prior.central = central
          /\ own[p] # Nothing => journal'.rollout = own[p].rollout
      BY <1>2 DEF WritesOf, Files
    <3>2. doc[p] \in Document /\ own[p] \in Ledger
      BY <3>1, WrittenBacked
    <3>4. r # own[p].rollout => journal'.central[r] = doc[p][r]
      <4>1. \A n \in Rollout : n # own[p].rollout => Upsert(doc[p], own[p])[n] = doc[p][n]
        BY <3>2, UpsertFacts
      <4>. QED BY <3>1, <4>1
    <3>5. doc[p] # Nothing /\ own[p] # Nothing
      BY <3>2, NoValue
    <3>. QED BY <1>2, <3>1, <3>4, <3>5 DEF Remembered
  <2>3. CASE Close(p)
    BY <1>2, <2>3 DEF Close
  <2>4. CASE journal' = journal
    BY <1>2, <2>4 DEF Remembered
  <2>. QED BY <2>2, <2>3, <2>4, FilesMove
<1>. QED BY <1>1, <1>2 DEF Remembered
-------------------------------------------------------------------------------
\* The two ledgers

\* No step makes ledgers disagree that agreed.
LEMMA ConsistentKept ==
  ASSUME TypeOK, Locked, Prepared, NEW p \in Process, Step(p), NEW l, NEW d \in Document, Consistent(l, d)
  PROVE  /\ \A r \in Rollout : Current(d, r) => snapshot'[<<r, d[r].revision>>] = d[r].ledger
         /\ Current(d, l.rollout) /\ Match(d[l.rollout].ledger, l)
<1>1. AllBacked(d)
  BY DEF Consistent, AllBacked
<1>. QED BY <1>1, BackedKept DEF Consistent

\* Placed, file by file.
PlacedParts ==
  /\ audit \in {journal.prior.audit, Or(journal.audit, journal.prior.audit)}
  /\ ledger \in {journal.prior.ledger, Or(journal.ledger, journal.prior.ledger)}
  /\ central \in {journal.prior.central, Or(journal.central, journal.prior.central)}

LEMMA PlacedFacts == Placed /\ journal # Nothing => PlacedParts
BY DEF Placed, PlacedParts, File, Files

\* The files that a transaction leaves: unchanged where it writes nothing.
LEMMA OrType ==
  ASSUME TypeOK, NEW w \in Writes
  PROVE  Or(w.ledger, ledger) \in Ledger /\ Or(w.central, central) \in Document
BY DEF Or, TypeOK, Writes

LEMMA AgreesStep ==
  ASSUME TypeOK, TypeOK', Locked, Prepared, LedgerAgrees, NEW p \in Process, Step(p)
  PROVE  LedgerAgrees'
<1>. SUFFICES ASSUME journal' = Nothing
              PROVE  Consistent(ledger, central)'
  BY DEF LedgerAgrees
<1>1. Consistent(ledger, central) /\ UNCHANGED <<ledger, central>>
  <2>1. CASE Close(p)
    BY <2>1 DEF Close, Publishing, Written, File, Files, Acceptable, Or
  <2>2. CASE journal' = journal
    <3>1. ~(Apply(p) \/ Undo(p))
      BY <2>2, RewriteFacts, NoValue
    <3>. QED BY <2>2, <3>1, FilesMove DEF LedgerAgrees
  <2>3. CASE Commit(p) /\ journal' # journal
    <3>. PICK moved \in BOOLEAN : journal' = WritesOf(p, moved) /\ pc[p] = "commit"
      BY <2>3, CommitFacts
    <3>. QED BY WritesType, NoValue
  <2>. QED BY <2>1, <2>2, <2>3, FilesMove
<1>2. central \in Document
  BY DEF TypeOK
<1>. QED BY <1>1, <1>2, ConsistentKept DEF Consistent, Backed

\* A file of a pending transaction is moved to its desired bytes or back.
LEMMA PlacedStep ==
  ASSUME TypeOK, TypeOK', Locked, Prepared, Placed, NEW p \in Process, Step(p)
  PROVE  Placed'
<1>. SUFFICES ASSUME journal' # Nothing
              PROVE  /\ audit' \in {journal'.prior.audit, Or(journal'.audit, journal'.prior.audit)}
                     /\ ledger' \in {journal'.prior.ledger, Or(journal'.ledger, journal'.prior.ledger)}
                     /\ central' \in {journal'.prior.central, Or(journal'.central, journal'.prior.central)}
  BY DEF Placed, PlacedParts, File, Files
<1>1. CASE Apply(p) \/ Undo(p)
  <2>1. journal' = journal /\ PlacedParts
    BY <1>1, RewriteFacts, PlacedFacts
  <2>. QED BY <1>1, <2>1, ApplyFacts, UndoFacts DEF PlacedParts, Or
<1>2. CASE ~(Apply(p) \/ Undo(p)) /\ journal' = journal
  BY <1>2, FilesMove, PlacedFacts DEF PlacedParts
<1>3. CASE Commit(p) /\ journal' # journal
  <2>. PICK moved \in BOOLEAN : journal' = WritesOf(p, moved)
    BY <1>3, CommitFacts
  <2>. QED BY <1>3 DEF WritesOf, Files, Commit
<1>4. CASE Close(p)
  BY <1>4 DEF Close
<1>. QED BY <1>1, <1>2, <1>3, <1>4, FilesMove

LEMMA FinishableStep ==
  ASSUME TypeOK, TypeOK', Locked, Prepared, Placed, Placed', Evidence, LedgerAgrees, Finishable,
         NEW p \in Process, Step(p)
  PROVE  Finishable'
<1>. SUFFICES ASSUME journal' # Nothing, journal'.whole, journal'.same = {}
              PROVE  Acceptable(journal)'
  BY DEF Finishable
<1>. DEFINE l == Or(journal'.ledger, ledger')
            d == Or(journal'.central, central')
<1>1. Consistent(l, d)
  <2>1. CASE Apply(p) \/ Undo(p)
    <3>1. journal' = journal /\ PlacedParts /\ Acceptable(journal)
      BY <2>1, RewriteFacts, PlacedFacts DEF Finishable
    <3>2. l = Or(journal.ledger, ledger) /\ d = Or(journal.central, central)
      BY <2>1, <3>1, ApplyFacts, UndoFacts DEF PlacedParts, Or
    <3>. HIDE DEF l, d
    <3>. QED BY <3>1, <3>2 DEF Acceptable
  <2>2. CASE ~(Apply(p) \/ Undo(p)) /\ journal' = journal
    BY <2>2, FilesMove DEF Finishable, Acceptable
  <2>3. CASE Close(p)
    BY <2>3 DEF Close
  <2>4. CASE Commit(p) /\ journal' # journal
    <3>. PICK moved \in BOOLEAN : journal' = WritesOf(p, moved) /\ pc[p] = "commit"
      BY <2>4, CommitFacts
    <3>1. /\ journal'.ledger = own[p]
          /\ journal'.central = IF call[p].rows THEN Upsert(doc[p], own[p]) ELSE Nothing
          /\ call[p].delta => call[p].rows
      BY DEF WritesOf
    <3>2. journal = Nothing /\ UNCHANGED <<ledger, central>>
      BY <2>4, CommitFacts DEF Commit
    <3>3. CASE call[p].rows
      <4>1. /\ own[p] \in Ledger /\ Upsert(doc[p], own[p]) \in Document
            /\ AllBacked(Upsert(doc[p], own[p]))
        BY <3>3, WrittenBacked
      <4>2. doc[p] \in Document
        BY <3>3, WrittenBacked
      <4>3. l = own[p] /\ d = Upsert(doc[p], own[p])
        BY <3>1, <3>3, <4>1, NoValue DEF Or
      <4>4. /\ Current(d, l.rollout) /\ d[l.rollout] = [revision |-> Place(doc[p], own[p]), ledger |-> l]
        BY <4>1, <4>2, <4>3, UpsertFacts
      <4>. HIDE DEF l, d
      <4>. QED BY <4>1, <4>3, <4>4 DEF Consistent, AllBacked, Match
    <3>4. CASE ~call[p].rows
      <4>1. own[p] = Nothing
        BY <3>1, <3>4 DEF Prepared
      <4>2. l = ledger /\ d = central
        BY <3>1, <3>2, <3>4, <4>1 DEF Or
      <4>. HIDE DEF l, d
      <4>. QED BY <3>2, <4>2 DEF LedgerAgrees
    <3>. QED BY <3>3, <3>4
  <2>. QED BY <2>1, <2>2, <2>3, <2>4, FilesMove
<1>2. d \in Document
  BY DEF Or, TypeOK, Writes
<1>. HIDE DEF l, d
<1>3. /\ \A r \in Rollout : Current(d, r) => snapshot'[<<r, d[r].revision>>] = d[r].ledger
      /\ Current(d, l.rollout) /\ Match(d[l.rollout].ledger, l)
  BY <1>1, <1>2, ConsistentKept
<1>. QED BY <1>3 DEF Acceptable, Consistent, Backed, Or, l, d
-------------------------------------------------------------------------------
\* The theorems

LEMMA InitInv == Init => DocumentsInv
<1>. SUFFICES ASSUME Init PROVE DocumentsInv
  OBVIOUS
<1>1. Initial \in Rollout /\ 1 \in Audit
  BY DocumentsAssumption DEF Audit
<1>2. Start \in Ledger /\ Start.rollout = Initial /\ Match(Start, Start)
  BY <1>1 DEF Start, Pending, Ledger, Match
<1>. DEFINE row == [revision |-> <<"base", 0>>, ledger |-> Start]
            k == <<Initial, <<"base", 0>>>>
<1>3. row \in Row /\ row \notin {Nothing, Legacy}
  <2>1. row \in Row
    BY <1>2 DEF Row, Revision
  <2>. HIDE DEF row
  <2>. QED BY <2>1, NoValue
<1>4. k \in Rollout \X Revision
  BY <1>1 DEF Revision
<1>. PICK old \in [Rollout -> {Nothing, Legacy}] : central = Committed(old)
  BY DEF Init
<1>5. /\ central \in Document /\ base = central /\ central[Initial] = row
      /\ \A r \in Rollout : Current(central, r) => r = Initial
  BY <1>1, <1>3 DEF Init, Committed, Document, Current
<1>6. /\ snapshot \in [Rollout \X Revision -> Ledger \cup {Nothing}] /\ snapshot[k] = Start
  BY <1>2, <1>4 DEF Init
<1>7. TypeOK
  BY <1>1, <1>2, <1>5, <1>6, DocumentsAssumption DEF Init, TypeOK, Statement
<1>8. AllBacked(central)
  BY <1>5, <1>6 DEF AllBacked, Backed
<1>9. Consistent(ledger, central)
  <2>1. ledger = Start
    BY DEF Init
  <2>. HIDE DEF row
  <2>2. Current(central, Initial)
    BY <1>3, <1>5 DEF Current
  <2>3. central[Initial].ledger = Start
    BY <1>5 DEF row
  <2>. QED BY <1>2, <1>8, <2>1, <2>2, <2>3 DEF Consistent, AllBacked
<1>10. Locked /\ Prepared /\ Evidence /\ Remembered
  BY <1>5, <1>8, NoValue DEF Init, Locked, Within, Left, Prepared, Evidence, Remembered
<1>11. Placed /\ LedgerAgrees /\ Finishable
  BY <1>9 DEF Init, Placed, LedgerAgrees, Finishable
<1>. QED BY <1>7, <1>10, <1>11 DEF DocumentsInv

LEMMA NextInv == DocumentsInv /\ [Next]_vars => DocumentsInv'
<1>. SUFFICES ASSUME DocumentsInv, [Next]_vars PROVE DocumentsInv'
  OBVIOUS
<1>1. ASSUME NEW p \in Process, Step(p) PROVE DocumentsInv'
  <2>1. TypeOK'
    BY <1>1, TypeStep DEF DocumentsInv
  <2>2. Prepared'
    BY <1>1, <2>1, PreparedStep DEF DocumentsInv
  <2>3. Placed'
    BY <1>1, <2>1, PlacedStep DEF DocumentsInv
  <2>. QED BY <1>1, <2>1, <2>2, <2>3, LockedStep, EvidenceStep, RememberedStep, AgreesStep,
           FinishableStep DEF DocumentsInv
<1>2. CASE UNCHANGED vars
  <2>1. /\ UNCHANGED <<audit, ledger, central, base, snapshot, journal, holder>>
        /\ UNCHANGED <<pc, call, doc, fetched, own, missed, used>>
    BY <1>2 DEF vars, files, locals
  <2>2. TypeOK' /\ Locked' /\ Prepared' /\ Remembered'
    BY <2>1 DEF DocumentsInv, TypeOK, Locked, Within, Prepared, Remembered
  <2>3. Placed' = Placed
    BY <2>1 DEF Placed, Files
  <2>4. Acceptable(journal)' = Acceptable(journal) /\ LedgerAgrees' = LedgerAgrees
    BY <2>1 DEF LedgerAgrees, Acceptable, Consistent, Backed, Or
  <2>5. Evidence'
    BY <2>1 DEF DocumentsInv, Evidence, AllBacked, Backed, SnapshotMade, Place
  <2>. QED BY <2>1, <2>2, <2>3, <2>4, <2>5 DEF DocumentsInv, Finishable
<1>. QED BY <1>1, <1>2 DEF Next

\* Documents, snapshots, journal and calls are well typed.
THEOREM DocumentsTyped == Spec => []TypeOK
<1>1. DocumentsInv => TypeOK
  BY DEF DocumentsInv
<1>. QED BY <1>1, InitInv, NextInv, PTL DEF Spec

\* The inductive invariant: what a call may rely on at each statement although it
\* reads documents that others replace.
THEOREM DocumentsInvariance == Spec => []DocumentsInv
BY InitInv, NextInv, PTL DEF Spec

\* Every row of the central ledger names a published snapshot that holds its
\* evidence, in the middle of a transaction too (upsert_catalog_rollout).
THEOREM EveryRowBacked == Spec => []RowsBacked
<1>1. DocumentsInv => RowsBacked
  BY DEF DocumentsInv, Evidence, AllBacked, RowsBacked
<1>. QED BY <1>1, DocumentsInvariance, PTL

\* The two ledgers agree whenever no transaction is pending
\* (_validate_cross_file_rollout_evidence).
THEOREM LedgersAgree == Spec => []LedgerAgrees
<1>1. DocumentsInv => LedgerAgrees
  BY DEF DocumentsInv
<1>. QED BY <1>1, DocumentsInvariance, PTL

\* The documents never give recovery a reason to refuse a pending transaction that
\* writes both ledgers and found neither at its desired bytes
\* (_recover_catalog_rollout_transaction).
THEOREM AlwaysFinishable == Spec => []Finishable
<1>1. DocumentsInv => Finishable
  BY DEF DocumentsInv
<1>. QED BY <1>1, DocumentsInvariance, PTL

\* Only a row that was written behind a call's back is lost to it.
THEOREM RowsKept == Spec => HistoryKept
<1>. DEFINE Kept == \A r \in Rollout : central[r] # Nothing /\ central'[r] # central[r] =>
                      r = journal.rollout \/ r \in journal.missed
<1>1. DocumentsInv /\ [Next]_vars => Kept
  <2>. SUFFICES ASSUME DocumentsInv, [Next]_vars, NEW r \in Rollout, central'[r] # central[r]
                PROVE  r = journal.rollout \/ r \in journal.missed
    OBVIOUS
  <2>1. ASSUME NEW p \in Process, Step(p) PROVE r = journal.rollout \/ r \in journal.missed
    <3>1. Apply(p) \/ Undo(p)
      BY <2>1, FilesMove DEF DocumentsInv
    <3>2. journal # Nothing /\ PlacedParts /\ journal \in Writes
      BY <3>1, RewriteFacts, PlacedFacts, NoValue DEF DocumentsInv
    <3>3. /\ journal.central # Nothing
          /\ {central[r], central'[r]} = {journal.prior.central[r], journal.central[r]}
      BY <2>1, <3>1, <3>2, ApplyFacts, UndoFacts DEF DocumentsInv, PlacedParts, Or
    <3>. QED BY <3>2, <3>3 DEF DocumentsInv, Remembered
  <2>2. CASE UNCHANGED vars
    BY <2>2 DEF vars, files
  <2>. QED BY <2>1, <2>2 DEF Next
<1>. QED BY <1>1, DocumentsInvariance, PTL DEF Spec, HistoryKept
===============================================================================
