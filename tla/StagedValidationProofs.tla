------------------------ MODULE StagedValidationProofs ------------------------
(***************************************************************************)
(* StagesInvariant, for any number of processes, stages, jobs and          *)
(* contents.                                                               *)
(*                                                                         *)
(* First the ledger: what the steps of a candidate's calls, of the stages, *)
(* of crashes and of editors do to the ledger, its lock and the manifest.  *)
(* Then the evidence of the stages: nothing is locked, and yet a pass has  *)
(* its receipts and its predecessor, and stays, unless two runners are     *)
(* known to have been at one stage together.                               *)
(***************************************************************************)
EXTENDS StagesInvariant, TLAPS

LEMMA NothingElse ==
  /\ Nothing \notin Value /\ Nothing \notin Process /\ Nothing \notin Binding
  /\ Nothing \notin Manifest
BY LedgerAssumption

LEMMA StatementNames ==
  Statement = {"idle", "flock", "write", "compare", "load", "validate", "tree", "map", "aside",
               "read", "replace", "unlock", "open", "ledger", "digest", "root", "prior", "own",
               "guard", "opening", "open it", "reread", "lock", "job", "launch", "wait", "receipt",
               "promote", "aggregate"}
BY DEF Statement, Reading, Locked, Checked, Begun, Inside

\* A manifest is two bindings, and a binding a content of each field.
LEMMA ManifestParts ==
  ASSUME NEW m \in Manifest
  PROVE  /\ m.seen \in Binding /\ m.bound \in Binding /\ m # Nothing
         /\ m.seen["tree"] \in Value /\ m.seen["aside"] \in Value /\ m.seen["head"] \in Value
<1>1. m.seen \in Binding /\ m.bound \in Binding
  BY DEF Manifest
<1>. QED BY <1>1, NothingElse DEF Binding, Field
-------------------------------------------------------------------------------
\* What a step does to the process that takes it

Same(p) ==
  /\ kind'[p] = kind[p] /\ phase'[p] = phase[p] /\ got'[p] = got[p] /\ bound'[p] = bound[p]
  /\ doc'[p] = doc[p] /\ id'[p] = id[p]

\* It has read v into field f.
Took(p, f, v) ==
  /\ got'[p] = [g \in Field |-> IF g = f THEN v ELSE got[p][g]]
  /\ kind'[p] = kind[p] /\ phase'[p] = phase[p] /\ bound'[p] = bound[p]
  /\ doc'[p] = doc[p] /\ id'[p] = id[p]

\* Its call is over.
Gone(p) ==
  /\ pc'[p] = "idle" /\ kind'[p] = "none" /\ phase'[p] = "bind" /\ doc'[p] = Nothing

Fixed == UNCHANGED <<token, ledger, holder, manifest, acked, verified>>

LEMMA ReturnFacts ==
  ASSUME MemoryOK, NEW p \in Process, Return(p)
  PROVE  Gone(p)
BY DEF MemoryOK, Return, Goto, Forget, Gone

LEMMA StepFacts ==
  ASSUME MemoryOK, NEW p \in Process, NEW f, NEW v, NEW statement,
         Keep(p, f, v), Step(p, statement)
  PROVE  pc'[p] = statement /\ Took(p, f, v)
BY DEF MemoryOK, Keep, Step, Goto, Took

LEMMA HoldFacts ==
  ASSUME MemoryOK, NEW p \in Process, NEW statement, Step(p, statement), UNCHANGED got
  PROVE  pc'[p] = statement /\ Same(p)
BY DEF MemoryOK, Step, Goto, Same

LEMMA PrepareFacts ==
  ASSUME MemoryOK, NEW p \in Process, Prepare(p)
  PROVE  /\ pc[p] = "idle" /\ pc'[p] = "load" /\ kind'[p] = "prepare"
         /\ phase'[p] = phase[p] /\ doc'[p] = doc[p] /\ Fixed
BY DEF MemoryOK, Prepare, Call, Goto, memory, shared, Fixed

LEMMA NoteFacts ==
  ASSUME MemoryOK, NEW p \in Process, Note(p)
  PROVE  /\ pc[p] = "idle" /\ pc'[p] = "flock" /\ kind'[p] = "append"
         /\ manifest # Nothing /\ bound'[p] = manifest.bound
         /\ phase'[p] = phase[p] /\ doc'[p] = doc[p] /\ Fixed
BY DEF MemoryOK, Note, Call, Goto, shared, Fixed

LEMMA RunFacts ==
  ASSUME MemoryOK, NEW p \in Process, Run(p)
  PROVE  /\ pc[p] = "idle" /\ pc'[p] = "open" /\ kind'[p] = "run"
         /\ phase'[p] = "check" /\ doc'[p] = doc[p] /\ Fixed
BY DEF MemoryOK, Run, Call, Check, Goto, shared, Fixed

LEMMA LoadFacts ==
  ASSUME MemoryOK, NEW p \in Process, Load(p)
  PROVE  pc[p] = "load" /\ pc'[p] = "validate" /\ Took(p, "head", content["map"]) /\ Fixed
BY StepFacts DEF Load, shared, Fixed

LEMMA ValidateFacts ==
  ASSUME MemoryOK, NEW p \in Process, Validate(p)
  PROVE  pc[p] = "validate" /\ Fixed /\ ((pc'[p] = "tree" /\ Same(p)) \/ Gone(p))
BY HoldFacts, ReturnFacts DEF Validate, shared, Fixed

LEMMA ReadTreeFacts ==
  ASSUME MemoryOK, NEW p \in Process, ReadTree(p)
  PROVE  /\ pc[p] = "tree" /\ UNCHANGED <<token, ledger, holder, manifest, acked>>
         /\ \/ phase[p] # "check" /\ pc'[p] = "map" /\ Took(p, "tree", content["tree"]) /\ UNCHANGED verified
            \/ phase[p] = "check" /\ pc'[p] = "digest" /\ Same(p) /\ verified' = verified \cup {doc[p]}
            \/ Gone(p) /\ UNCHANGED verified
<1>1. pc[p] = "tree" /\ UNCHANGED <<token, ledger, holder, manifest, acked>>
  BY DEF ReadTree, shared
<1>2. CASE phase[p] # "check"
  BY <1>1, <1>2, StepFacts DEF ReadTree
<1>3. CASE /\ phase[p] = "check" /\ Step(p, "digest") /\ UNCHANGED got
           /\ verified' = verified \cup {doc[p]}
  BY <1>1, <1>3, HoldFacts
<1>4. CASE Return(p) /\ UNCHANGED verified
  BY <1>1, <1>4, ReturnFacts
<1>. QED BY <1>2, <1>3, <1>4 DEF ReadTree

LEMMA ObserveFacts ==
  ASSUME MemoryOK, NEW p \in Process, NEW f, NEW next, Observe(p, f, next)
  PROVE  /\ Fixed
         /\ \/ phase[p] # "check" /\ pc'[p] = next /\ Took(p, f, content[f])
            \/ phase[p] = "check" /\ pc'[p] = next /\ Same(p)
            \/ Gone(p)
BY StepFacts, HoldFacts, ReturnFacts DEF Observe, shared, Fixed

LEMMA ReadMapFacts ==
  ASSUME MemoryOK, NEW p \in Process, ReadMap(p)
  PROVE  /\ pc[p] = "map" /\ Fixed
         /\ \/ phase[p] # "check" /\ pc'[p] = "aside" /\ Took(p, "map", content["map"])
            \/ phase[p] = "check" /\ pc'[p] = "aside" /\ Same(p)
            \/ Gone(p)
BY ObserveFacts DEF ReadMap

LEMMA ReadAsideFacts ==
  ASSUME MemoryOK, NEW p \in Process, ReadAside(p)
  PROVE  /\ pc[p] = "aside" /\ Fixed
         /\ \/ phase[p] = "bind" /\ pc'[p] = "flock" /\ Took(p, "aside", content["aside"])
            \/ phase[p] = "make" /\ pc'[p] = "write" /\ Took(p, "aside", content["aside"])
            \/ phase[p] = "check" /\ pc'[p] = "ledger" /\ Same(p)
            \/ Gone(p)
<1>. DEFINE next == CASE phase[p] = "bind" -> "flock" [] phase[p] = "make" -> "write"
                      [] phase[p] = "check" -> "ledger"
<1>1. pc[p] = "aside" /\ Observe(p, "aside", next)
  BY DEF ReadAside
<1>2. /\ phase[p] = "bind" => next = "flock"
      /\ phase[p] = "make" => next = "write"
      /\ phase[p] = "check" => next = "ledger"
  OBVIOUS
<1>3. phase[p] \in {"bind", "make", "check"}
  BY DEF MemoryOK
<1>. HIDE DEF next
<1>. QED BY <1>1, <1>2, <1>3, ObserveFacts

LEMMA FlockFacts ==
  ASSUME MemoryOK, NEW p \in Process, Flock(p)
  PROVE  /\ pc[p] = "flock" /\ pc'[p] = "read" /\ holder = Nothing /\ holder' = p
         /\ bound'[p] = (IF kind[p] = "append" THEN bound[p] ELSE got[p])
         /\ kind'[p] = kind[p] /\ phase'[p] = phase[p] /\ got'[p] = got[p] /\ doc'[p] = doc[p]
         /\ id'[p] = id[p]
         /\ UNCHANGED <<token, ledger, manifest, acked, verified>>
BY DEF MemoryOK, Flock, Goto

LEMMA ReadFacts ==
  ASSUME MemoryOK, NEW p \in Process, Read(p)
  PROVE  /\ pc[p] = "read" /\ UNCHANGED <<token, ledger, manifest, acked, verified>>
         /\ \/ Gone(p) /\ holder' = Nothing
            \/ /\ Same(p) /\ UNCHANGED holder /\ pc'[p] = "unlock"
               /\ Exists /\ token = bound[p] /\ kind[p] = "prepare" /\ ledger[1] = Payload(p)
            \/ /\ Same(p) /\ UNCHANGED holder /\ pc'[p] = "replace"
               /\ (Exists => token = bound[p]) /\ (~Exists \/ kind[p] # "prepare")
<1>1. pc[p] = "read" /\ UNCHANGED <<token, ledger, manifest, acked, verified>>
  BY DEF Read
<1>2. CASE Return(p) /\ holder' = Nothing
  BY <1>1, <1>2, ReturnFacts
<1>3. CASE /\ ~(Exists /\ (token # bound[p] \/ (kind[p] = "prepare" /\ ledger[1] # Payload(p))))
           /\ UNCHANGED <<holder, kind, memory>>
           /\ Goto(p, IF Exists /\ kind[p] = "prepare" THEN "unlock" ELSE "replace")
  <2>1. Same(p) /\ UNCHANGED holder
    BY <1>3 DEF memory, Same
  <2>2. pc'[p] = IF Exists /\ kind[p] = "prepare" THEN "unlock" ELSE "replace"
    BY <1>3 DEF Goto, MemoryOK
  <2>. QED BY <1>1, <1>3, <2>1, <2>2
<1>. QED BY <1>2, <1>3 DEF Read

LEMMA ReplaceFacts ==
  ASSUME MemoryOK, NEW p \in Process, Replace(p)
  PROVE  /\ pc[p] = "replace" /\ pc'[p] = "unlock" /\ Same(p)
         /\ ledger' = Append(ledger, Payload(p)) /\ token' = bound[p]
         /\ UNCHANGED <<holder, manifest, acked, verified>>
BY DEF MemoryOK, Replace, Goto, memory, Same

LEMMA UnlockFacts ==
  ASSUME MemoryOK, NEW p \in Process, Unlock(p)
  PROVE  /\ pc[p] = "unlock" /\ holder' = Nothing
         /\ acked' = acked \cup {[sequence |-> IF kind[p] = "append" THEN Len(ledger) ELSE 1,
                                  payload |-> Payload(p)]}
         /\ UNCHANGED <<token, ledger, manifest, verified>>
         /\ \/ kind[p] = "append" /\ Gone(p)
            \/ /\ kind[p] # "append" /\ pc'[p] = "tree" /\ phase'[p] = "make"
               /\ kind'[p] = kind[p] /\ got'[p] = got[p] /\ bound'[p] = bound[p]
               /\ doc'[p] = doc[p] /\ id'[p] = id[p]
<1>1. /\ pc[p] = "unlock" /\ holder' = Nothing
      /\ acked' = acked \cup {[sequence |-> IF kind[p] = "append" THEN Len(ledger) ELSE 1,
                               payload |-> Payload(p)]}
      /\ UNCHANGED <<token, ledger, manifest, verified>>
  BY DEF Unlock
<1>2. CASE kind[p] = "append"
  BY <1>1, <1>2, ReturnFacts DEF Unlock
<1>3. CASE kind[p] # "append"
  BY <1>1, <1>3 DEF Unlock, Goto, MemoryOK
<1>. QED BY <1>2, <1>3

LEMMA WriteFacts ==
  ASSUME MemoryOK, NEW p \in Process, Write(p)
  PROVE  /\ pc[p] = "write" /\ pc'[p] = "compare" /\ Same(p) /\ manifest' = Made(p)
         /\ UNCHANGED <<token, ledger, holder, acked, verified>>
BY DEF MemoryOK, Write, Goto, memory, Same

LEMMA CompareFacts ==
  ASSUME MemoryOK, NEW p \in Process, Compare(p)
  PROVE  /\ pc[p] = "compare" /\ Fixed
         /\ \/ /\ pc'[p] = "open" /\ phase'[p] = "check" /\ kind'[p] = kind[p]
               /\ doc'[p] = doc[p]
            \/ Gone(p)
BY ReturnFacts DEF MemoryOK, Compare, Check, Goto, shared, Fixed

LEMMA OpenFacts ==
  ASSUME MemoryOK, NEW p \in Process, Open(p)
  PROVE  /\ pc[p] = "open" /\ Fixed
         /\ \/ /\ manifest # Nothing /\ pc'[p] = "map" /\ doc'[p] = manifest
               /\ kind'[p] = kind[p] /\ phase'[p] = phase[p]
            \/ Gone(p)
BY ReturnFacts DEF MemoryOK, Open, Goto, shared, Fixed

LEMMA CheckLedgerFacts ==
  ASSUME MemoryOK, NEW p \in Process, CheckLedger(p)
  PROVE  pc[p] = "ledger" /\ Fixed /\ ((pc'[p] = "load" /\ Same(p)) \/ Gone(p))
BY HoldFacts, ReturnFacts DEF CheckLedger, shared, Fixed

LEMMA DigestFacts ==
  ASSUME MemoryOK, NEW p \in Process, Digest(p)
  PROVE  /\ pc[p] = "digest" /\ Fixed
         /\ \/ /\ kind[p] = "run" /\ pc'[p] = "root" /\ id'[p] = manifest
               /\ kind'[p] = kind[p] /\ phase'[p] = phase[p] /\ doc'[p] = doc[p]
            \/ Gone(p)
BY ReturnFacts DEF MemoryOK, Digest, Goto, shared, Fixed

LEMMA MoveFacts ==
  ASSUME MemoryOK, NEW p \in Process, NEW statement, Move(p, statement)
  PROVE  pc'[p] = statement /\ Same(p) /\ Fixed
BY DEF MemoryOK, Move, Goto, ledgerFiles, mind, memory, Same, Fixed

LEMMA LeaveFacts ==
  ASSUME MemoryOK, NEW p \in Process, Leave(p)
  PROVE  Gone(p) /\ Fixed
BY ReturnFacts DEF Leave, ledgerFiles, Fixed

\* A step within a stage.
Inner(p) == StageStep(p) /\ ~Run(p)

LEMMA InnerFacts ==
  ASSUME MemoryOK, NEW p \in Process, Inner(p)
  PROVE  /\ pc[p] \in Begun /\ Fixed
         /\ (pc'[p] \in Begun /\ Same(p)) \/ Gone(p)
<1>1. CASE Root(p) \/ ReadPrior(p) \/ ReadOwn(p)
  BY <1>1, MoveFacts, LeaveFacts DEF Root, ReadPrior, ReadOwn, Begun, Inside
<1>2. CASE Guard(p) \/ CheckLock(p) \/ Opening(p) \/ WriteOpening(p) \/ ReadOpening(p)
  BY <1>2, MoveFacts DEF Guard, CheckLock, Opening, WriteOpening, ReadOpening, Conclude, Begun, Inside
<1>3. CASE LookForJob(p) \/ Launch(p) \/ Wait(p) \/ Promote(p)
  BY <1>3, MoveFacts, LeaveFacts DEF LookForJob, Launch, Wait, Promote, Conclude, Begun, Inside
<1>4. CASE WriteReceipt(p) \/ WriteAggregate(p)
  BY <1>4, MoveFacts, LeaveFacts DEF WriteReceipt, WriteAggregate, Begun, Inside
<1>. QED BY <1>1, <1>2, <1>3, <1>4 DEF Inner, StageStep

LEMMA CrashFacts ==
  ASSUME MemoryOK, NEW p \in Process, Crash(p)
  PROVE  /\ Gone(p) /\ holder' = (IF holder = p THEN Nothing ELSE holder)
         /\ UNCHANGED <<token, ledger, manifest, acked, verified>>
BY ReturnFacts DEF Crash, Die
-------------------------------------------------------------------------------
\* Every step is one process's, or an edit.
Act(p) == CandidateStep(p) \/ Run(p) \/ Inner(p) \/ Crash(p)

LEMMA NextIsAct ==
  ASSUME Next
  PROVE  (\E p \in Process : Act(p)) \/ Environment
BY DEF Next, Act, LedgerStep, Inner

\* The other processes stay where they are.
Stay(q) == pc'[q] = pc[q] /\ Same(q)

LEMMA OthersStay ==
  ASSUME MemoryOK, NEW p \in Process, NEW q \in Process, q # p, Act(p)
  PROVE  Stay(q)
<1>1. CASE Prepare(p) \/ Note(p)
  BY <1>1 DEF MemoryOK, Prepare, Note, Call, Goto, memory, Stay, Same
<1>2. CASE Load(p) \/ Validate(p) \/ ReadTree(p)
  BY <1>2 DEF MemoryOK, Load, Validate, ReadTree, Keep, Step, Return, Forget, Goto, Stay, Same
<1>3. CASE ReadMap(p) \/ ReadAside(p)
  <2>. PICK f \in Field, next \in {"aside", "flock", "write", "ledger"} : Observe(p, f, next)
    <3>1. CASE ReadMap(p)
      BY <3>1 DEF ReadMap, Field
    <3>2. CASE ReadAside(p)
      BY <3>2 DEF ReadAside, Field, MemoryOK
    <3>. QED BY <1>3, <3>1, <3>2
  <2>. QED BY DEF MemoryOK, Observe, Keep, Step, Return, Forget, Goto, Stay, Same
<1>4. CASE Flock(p) \/ Read(p) \/ Replace(p) \/ Unlock(p)
  BY <1>4 DEF MemoryOK, Flock, Read, Replace, Unlock, Return, Forget, Goto, memory, Stay, Same
<1>5. CASE Write(p) \/ Compare(p) \/ Open(p) \/ CheckLedger(p) \/ Digest(p)
  BY <1>5 DEF MemoryOK, Write, Compare, Check, Open, CheckLedger, Digest, Step, Return, Forget, Goto,
              memory, Stay, Same
<1>6. CASE Run(p)
  BY <1>6 DEF MemoryOK, Run, Call, Check, Goto, Stay, Same
<1>7. CASE Inner(p)
  <2>1. ASSUME Move(p, "own") \/ Move(p, "prior") \/ Move(p, "guard") \/ Move(p, "aggregate")
               \/ Move(p, "lock") \/ Move(p, "opening") \/ Move(p, "open it") \/ Move(p, "reread")
               \/ Move(p, "job") \/ Move(p, "launch") \/ Move(p, "wait") \/ Move(p, "receipt")
               \/ Move(p, "promote") \/ Leave(p)
        PROVE  Stay(q)
    BY <2>1 DEF MemoryOK, Move, Leave, Return, Forget, Goto, mind, memory, Stay, Same
  <2>2. CASE Root(p) \/ ReadPrior(p) \/ ReadOwn(p)
    BY <2>1, <2>2 DEF Root, ReadPrior, ReadOwn
  <2>3. CASE Guard(p) \/ CheckLock(p) \/ Opening(p) \/ WriteOpening(p) \/ ReadOpening(p)
    BY <2>1, <2>3 DEF Guard, CheckLock, Opening, WriteOpening, ReadOpening, Conclude
  <2>4. CASE LookForJob(p) \/ Launch(p) \/ Wait(p) \/ Promote(p)
    BY <2>1, <2>4 DEF LookForJob, Launch, Wait, Promote, Conclude
  <2>5. CASE WriteReceipt(p) \/ WriteAggregate(p)
    BY <2>1, <2>5 DEF WriteReceipt, WriteAggregate
  <2>. QED BY <1>7, <2>2, <2>3, <2>4, <2>5 DEF Inner, StageStep
<1>8. CASE Crash(p)
  BY <1>8 DEF MemoryOK, Crash, Die, Return, Forget, Goto, Stay, Same
<1>. QED BY <1>1, <1>2, <1>3, <1>4, <1>5, <1>6, <1>7, <1>8 DEF Act, CandidateStep

LEMMA EditStays ==
  ASSUME Environment, NEW q \in Process
  PROVE  Stay(q) /\ Fixed
BY DEF Environment, Edit, memory, Stay, Same, Fixed
-------------------------------------------------------------------------------
\* The process that steps

LEMMA PhaseStep ==
  ASSUME MemoryOK, Phases, NEW p \in Process, Act(p)
  PROVE  PhaseOK(p)'
<1>1. CASE Prepare(p)
  BY <1>1, PrepareFacts DEF Phases, PhaseOK, Gone, Same, Took, Reading, Locked, Checked, Begun, Inside
<1>2. CASE Note(p)
  BY <1>2, NoteFacts DEF Phases, PhaseOK, Gone, Same, Took, Reading, Locked, Checked, Begun, Inside
<1>3. CASE Load(p)
  BY <1>3, LoadFacts DEF Phases, PhaseOK, Gone, Same, Took, Reading, Locked, Checked, Begun, Inside
<1>4. CASE Validate(p)
  BY <1>4, ValidateFacts DEF Phases, PhaseOK, Gone, Same, Took, Reading, Locked, Checked, Begun, Inside
<1>5. CASE ReadTree(p)
  BY <1>5, ReadTreeFacts DEF Phases, PhaseOK, Gone, Same, Took, Reading, Locked, Checked, Begun, Inside
<1>6. CASE ReadMap(p)
  BY <1>6, ReadMapFacts DEF Phases, PhaseOK, Gone, Same, Took, Reading, Locked, Checked, Begun, Inside
<1>7. CASE ReadAside(p)
  BY <1>7, ReadAsideFacts DEF Phases, PhaseOK, Gone, Same, Took, Reading, Locked, Checked, Begun, Inside
<1>8. CASE Flock(p)
  BY <1>8, FlockFacts DEF Phases, PhaseOK, Gone, Same, Took, Reading, Locked, Checked, Begun, Inside
<1>9. CASE Read(p)
  BY <1>9, ReadFacts DEF Phases, PhaseOK, Gone, Same, Took, Reading, Locked, Checked, Begun, Inside
<1>10. CASE Replace(p)
  BY <1>10, ReplaceFacts DEF Phases, PhaseOK, Gone, Same, Took, Reading, Locked, Checked, Begun, Inside
<1>11. CASE Unlock(p)
  BY <1>11, UnlockFacts DEF Phases, PhaseOK, Gone, Same, Took, Reading, Locked, Checked, Begun, Inside
<1>12. CASE Write(p)
  BY <1>12, WriteFacts DEF Phases, PhaseOK, Gone, Same, Took, Reading, Locked, Checked, Begun, Inside
<1>13. CASE Compare(p)
  BY <1>13, CompareFacts DEF Phases, PhaseOK, Gone, Same, Took, Reading, Locked, Checked, Begun, Inside
<1>14. CASE Open(p)
  BY <1>14, OpenFacts DEF Phases, PhaseOK, Gone, Same, Took, Reading, Locked, Checked, Begun, Inside
<1>15. CASE CheckLedger(p)
  BY <1>15, CheckLedgerFacts DEF Phases, PhaseOK, Gone, Same, Took, Reading, Locked, Checked, Begun, Inside
<1>16. CASE Digest(p)
  BY <1>16, DigestFacts DEF Phases, PhaseOK, Gone, Same, Took, Reading, Locked, Checked, Begun, Inside
<1>17. CASE Run(p)
  BY <1>17, RunFacts DEF Phases, PhaseOK, Gone, Same, Took, Reading, Locked, Checked, Begun, Inside
<1>18. CASE Inner(p)
  BY <1>18, InnerFacts DEF Phases, PhaseOK, Gone, Same, Took, Reading, Locked, Checked, Begun, Inside
<1>19. CASE Crash(p)
  BY <1>19, CrashFacts DEF Phases, PhaseOK, Gone, Same, Took, Reading, Locked, Checked, Begun, Inside
<1>. QED BY <1>1, <1>2, <1>3, <1>4, <1>5, <1>6, <1>7, <1>8, <1>9, <1>10,
            <1>11, <1>12, <1>13, <1>14, <1>15, <1>16, <1>17, <1>18, <1>19 DEF Act, CandidateStep

LEMMA LockStep ==
  ASSUME MemoryOK, LockOwned, NEW p \in Process, Act(p)
  PROVE  LockOK(p)'
<1>1. CASE Prepare(p)
  BY <1>1, PrepareFacts, NothingElse DEF LockOwned, LockOK, Fixed, Gone, Same, Took, Reading, Locked, Checked, Begun, Inside
<1>2. CASE Note(p)
  BY <1>2, NoteFacts, NothingElse DEF LockOwned, LockOK, Fixed, Gone, Same, Took, Reading, Locked, Checked, Begun, Inside
<1>3. CASE Load(p)
  BY <1>3, LoadFacts, NothingElse DEF LockOwned, LockOK, Fixed, Gone, Same, Took, Reading, Locked, Checked, Begun, Inside
<1>4. CASE Validate(p)
  BY <1>4, ValidateFacts, NothingElse DEF LockOwned, LockOK, Fixed, Gone, Same, Took, Reading, Locked, Checked, Begun, Inside
<1>5. CASE ReadTree(p)
  BY <1>5, ReadTreeFacts, NothingElse DEF LockOwned, LockOK, Fixed, Gone, Same, Took, Reading, Locked, Checked, Begun, Inside
<1>6. CASE ReadMap(p)
  BY <1>6, ReadMapFacts, NothingElse DEF LockOwned, LockOK, Fixed, Gone, Same, Took, Reading, Locked, Checked, Begun, Inside
<1>7. CASE ReadAside(p)
  BY <1>7, ReadAsideFacts, NothingElse DEF LockOwned, LockOK, Fixed, Gone, Same, Took, Reading, Locked, Checked, Begun, Inside
<1>8. CASE Flock(p)
  BY <1>8, FlockFacts, NothingElse DEF LockOwned, LockOK, Fixed, Gone, Same, Took, Reading, Locked, Checked, Begun, Inside
<1>9. CASE Read(p)
  BY <1>9, ReadFacts, NothingElse DEF LockOwned, LockOK, Fixed, Gone, Same, Took, Reading, Locked, Checked, Begun, Inside
<1>10. CASE Replace(p)
  BY <1>10, ReplaceFacts, NothingElse DEF LockOwned, LockOK, Fixed, Gone, Same, Took, Reading, Locked, Checked, Begun, Inside
<1>11. CASE Unlock(p)
  BY <1>11, UnlockFacts, NothingElse DEF LockOwned, LockOK, Fixed, Gone, Same, Took, Reading, Locked, Checked, Begun, Inside
<1>12. CASE Write(p)
  BY <1>12, WriteFacts, NothingElse DEF LockOwned, LockOK, Fixed, Gone, Same, Took, Reading, Locked, Checked, Begun, Inside
<1>13. CASE Compare(p)
  BY <1>13, CompareFacts, NothingElse DEF LockOwned, LockOK, Fixed, Gone, Same, Took, Reading, Locked, Checked, Begun, Inside
<1>14. CASE Open(p)
  BY <1>14, OpenFacts, NothingElse DEF LockOwned, LockOK, Fixed, Gone, Same, Took, Reading, Locked, Checked, Begun, Inside
<1>15. CASE CheckLedger(p)
  BY <1>15, CheckLedgerFacts, NothingElse DEF LockOwned, LockOK, Fixed, Gone, Same, Took, Reading, Locked, Checked, Begun, Inside
<1>16. CASE Digest(p)
  BY <1>16, DigestFacts, NothingElse DEF LockOwned, LockOK, Fixed, Gone, Same, Took, Reading, Locked, Checked, Begun, Inside
<1>17. CASE Run(p)
  BY <1>17, RunFacts, NothingElse DEF LockOwned, LockOK, Fixed, Gone, Same, Took, Reading, Locked, Checked, Begun, Inside
<1>18. CASE Inner(p)
  BY <1>18, InnerFacts, NothingElse DEF LockOwned, LockOK, Fixed, Gone, Same, Took, Reading, Locked, Checked, Begun, Inside
<1>19. CASE Crash(p)
  BY <1>19, CrashFacts, NothingElse DEF LockOwned, LockOK, Fixed, Gone, Same, Took, Reading, Locked, Checked, Begun, Inside
<1>. QED BY <1>1, <1>2, <1>3, <1>4, <1>5, <1>6, <1>7, <1>8, <1>9, <1>10,
            <1>11, <1>12, <1>13, <1>14, <1>15, <1>16, <1>17, <1>18, <1>19 DEF Act, CandidateStep

\* What is read is a content; all four of them are a binding.
LEMMA TookValue ==
  ASSUME SharedOK, MemoryOK, NEW p \in Process, NEW f \in Input \cup {"head"}, NEW v \in Value,
         Took(p, f, v)
  PROVE  /\ f \in Field => got'[p][f] \in Value
         /\ \A g \in Field : got[p][g] \in Value => got'[p][g] \in Value
         /\ got[p] \in Binding => got'[p] \in Binding
         /\ (\A g \in Field \ {f} : got[p][g] \in Value) => got'[p] \in Binding
<1>1. got'[p] = [g \in Field |-> IF g = f THEN v ELSE got[p][g]]
  BY DEF Took
<1>2. \A g \in Field : got'[p][g] = IF g = f THEN v ELSE got[p][g]
  BY <1>1
<1>3. (\A g \in Field : got'[p][g] \in Value) => got'[p] \in Binding
  BY <1>1 DEF Binding
<1>4. got[p] \in Binding => \A g \in Field : got[p][g] \in Value
  BY DEF Binding
<1>. QED BY <1>2, <1>3, <1>4

LEMMA ContentIs ==
  ASSUME SharedOK
  PROVE  \A i \in Input : content[i] \in Value
BY DEF SharedOK

LEMMA TakenStep ==
  ASSUME SharedOK, MemoryOK, Phases, Taken, Genesis, NEW p \in Process, Act(p)
  PROVE  TakenOK(p)'
<1>1. CASE Prepare(p)
  BY <1>1, PrepareFacts DEF Phases, PhaseOK, Taken, TakenOK, Gone, Same, Took, Reading, Locked, Checked, Begun, Inside
<1>2. CASE Note(p)
  <2>1. manifest \in Manifest
    BY <1>2, NoteFacts DEF SharedOK
  <2>2. bound'[p] \in Binding
    BY <1>2, <2>1, NoteFacts, ManifestParts
  <2>. QED BY <1>2, <2>2, NoteFacts DEF Phases, PhaseOK, Taken, TakenOK, Reading, Locked, Checked, Begun, Inside
<1>3. CASE Load(p)
  <2>1. content["map"] \in Value
    BY ContentIs DEF Input
  <2>2. CASE ~Gone(p) /\ phase[p] # "check"
    <3>1. Took(p, "head", content["map"])
      BY <1>3, <2>2, LoadFacts
    <3>2. /\ got'[p]["head"] \in Value
          /\ \A g \in Field : got[p][g] \in Value => got'[p][g] \in Value
          /\ got[p] \in Binding => got'[p] \in Binding
          /\ (\A g \in Field \ {"head"} : got[p][g] \in Value) => got'[p] \in Binding
      BY <2>1, <3>1, TookValue DEF Field, Input
    <3>. QED BY <1>3, <2>2, <3>1, <3>2, LoadFacts DEF Phases, PhaseOK, Taken, TakenOK, Took, Field, Reading, Locked, Checked, Begun, Inside
  <2>3. CASE Gone(p) \/ phase[p] = "check"
    BY <1>3, <2>3, LoadFacts DEF Phases, PhaseOK, Taken, TakenOK, Gone, Same, Took, Reading, Locked, Checked, Begun, Inside
  <2>. QED BY <2>2, <2>3
<1>4. CASE Validate(p)
  BY <1>4, ValidateFacts DEF Phases, PhaseOK, Taken, TakenOK, Gone, Same, Took, Reading, Locked, Checked, Begun, Inside
<1>5. CASE ReadTree(p)
  <2>1. content["tree"] \in Value
    BY ContentIs DEF Input
  <2>2. CASE ~Gone(p) /\ phase[p] # "check"
    <3>1. Took(p, "tree", content["tree"])
      BY <1>5, <2>2, ReadTreeFacts
    <3>2. /\ got'[p]["tree"] \in Value
          /\ \A g \in Field : got[p][g] \in Value => got'[p][g] \in Value
          /\ got[p] \in Binding => got'[p] \in Binding
          /\ (\A g \in Field \ {"tree"} : got[p][g] \in Value) => got'[p] \in Binding
      BY <2>1, <3>1, TookValue DEF Field, Input
    <3>. QED BY <1>5, <2>2, <3>1, <3>2, ReadTreeFacts DEF Phases, PhaseOK, Taken, TakenOK, Took, Field, Reading, Locked, Checked, Begun, Inside
  <2>3. CASE Gone(p) \/ phase[p] = "check"
    BY <1>5, <2>3, ReadTreeFacts DEF Phases, PhaseOK, Taken, TakenOK, Gone, Same, Took, Reading, Locked, Checked, Begun, Inside
  <2>. QED BY <2>2, <2>3
<1>6. CASE ReadMap(p)
  <2>1. content["map"] \in Value
    BY ContentIs DEF Input
  <2>2. CASE ~Gone(p) /\ phase[p] # "check"
    <3>1. Took(p, "map", content["map"])
      BY <1>6, <2>2, ReadMapFacts
    <3>2. /\ got'[p]["map"] \in Value
          /\ \A g \in Field : got[p][g] \in Value => got'[p][g] \in Value
          /\ got[p] \in Binding => got'[p] \in Binding
          /\ (\A g \in Field \ {"map"} : got[p][g] \in Value) => got'[p] \in Binding
      BY <2>1, <3>1, TookValue DEF Field, Input
    <3>. QED BY <1>6, <2>2, <3>1, <3>2, ReadMapFacts DEF Phases, PhaseOK, Taken, TakenOK, Took, Field, Reading, Locked, Checked, Begun, Inside
  <2>3. CASE Gone(p) \/ phase[p] = "check"
    BY <1>6, <2>3, ReadMapFacts DEF Phases, PhaseOK, Taken, TakenOK, Gone, Same, Took, Reading, Locked, Checked, Begun, Inside
  <2>. QED BY <2>2, <2>3
<1>7. CASE ReadAside(p)
  <2>1. content["aside"] \in Value
    BY ContentIs DEF Input
  <2>2. CASE ~Gone(p) /\ phase[p] # "check"
    <3>1. Took(p, "aside", content["aside"])
      BY <1>7, <2>2, ReadAsideFacts
    <3>2. /\ got'[p]["aside"] \in Value
          /\ \A g \in Field : got[p][g] \in Value => got'[p][g] \in Value
          /\ got[p] \in Binding => got'[p] \in Binding
          /\ (\A g \in Field \ {"aside"} : got[p][g] \in Value) => got'[p] \in Binding
      BY <2>1, <3>1, TookValue DEF Field, Input
    <3>. QED BY <1>7, <2>2, <3>1, <3>2, ReadAsideFacts DEF Phases, PhaseOK, Taken, TakenOK, Took, Field, Reading, Locked, Checked, Begun, Inside
  <2>3. CASE Gone(p) \/ phase[p] = "check"
    BY <1>7, <2>3, ReadAsideFacts DEF Phases, PhaseOK, Taken, TakenOK, Gone, Same, Took, Reading, Locked, Checked, Begun, Inside
  <2>. QED BY <2>2, <2>3
<1>8. CASE Flock(p)
  BY <1>8, FlockFacts DEF Phases, PhaseOK, Taken, TakenOK, Gone, Same, Took, Reading, Locked, Checked, Begun, Inside
<1>9. CASE Read(p)
  BY <1>9, ReadFacts DEF Phases, PhaseOK, Taken, TakenOK, Gone, Same, Took, Reading, Locked, Checked, Begun, Inside
<1>10. CASE Replace(p)
  BY <1>10, ReplaceFacts DEF Phases, PhaseOK, Taken, TakenOK, Gone, Same, Took, Reading, Locked, Checked, Begun, Inside
<1>11. CASE Unlock(p)
  <2>1. pc[p] = "unlock" /\ kind[p] \in {"prepare", "append"}
    BY <1>11, UnlockFacts DEF Phases, PhaseOK, Locked
  <2>2. bound[p] \in Binding /\ (kind[p] = "prepare" => got[p] \in Binding)
    BY <2>1 DEF Taken, TakenOK, Locked
  <2>3. \A g \in Field : got[p] \in Binding => got[p][g] \in Value
    BY DEF Binding
  <2>. QED BY <1>11, <2>1, <2>2, <2>3, UnlockFacts DEF TakenOK, Gone, Field, Reading, Locked, Checked, Begun, Inside
<1>12. CASE Write(p)
  BY <1>12, WriteFacts DEF Phases, PhaseOK, Taken, TakenOK, Gone, Same, Took, Reading, Locked, Checked, Begun, Inside
<1>13. CASE Compare(p)
  BY <1>13, CompareFacts DEF Phases, PhaseOK, Taken, TakenOK, Gone, Same, Took, Reading, Locked, Checked, Begun, Inside
<1>14. CASE Open(p)
  <2>1. manifest # Nothing => manifest \in Manifest
    BY DEF SharedOK
  <2>. QED BY <1>14, <2>1, OpenFacts DEF Phases, PhaseOK, Taken, TakenOK, Gone, Reading, Locked, Checked, Begun, Inside
<1>15. CASE CheckLedger(p)
  BY <1>15, CheckLedgerFacts DEF Phases, PhaseOK, Taken, TakenOK, Gone, Same, Took, Reading, Locked, Checked, Begun, Inside
<1>16. CASE Digest(p)
  <2>1. doc[p] # Nothing
    BY <1>16, DigestFacts, NothingElse DEF Phases, PhaseOK, Taken, TakenOK
  <2>2. manifest \in Manifest
    BY <2>1 DEF Genesis, BoundOK, SharedOK
  <2>. QED BY <1>16, <2>2, DigestFacts DEF Phases, PhaseOK, Taken, TakenOK, Gone, Reading, Locked, Checked, Begun, Inside
<1>17. CASE Run(p)
  BY <1>17, RunFacts DEF Phases, PhaseOK, Taken, TakenOK, Gone, Same, Took, Reading, Locked, Checked, Begun, Inside
<1>18. CASE Inner(p)
  BY <1>18, InnerFacts DEF Phases, PhaseOK, Taken, TakenOK, Gone, Same, Took, Reading, Locked, Checked, Begun, Inside
<1>19. CASE Crash(p)
  BY <1>19, CrashFacts DEF Phases, PhaseOK, Taken, TakenOK, Gone, Same, Took, Reading, Locked, Checked, Begun, Inside
<1>. QED BY <1>1, <1>2, <1>3, <1>4, <1>5, <1>6, <1>7, <1>8, <1>9, <1>10,
            <1>11, <1>12, <1>13, <1>14, <1>15, <1>16, <1>17, <1>18, <1>19 DEF Act, CandidateStep

-------------------------------------------------------------------------------
\* The ledger

\* A record that is to be appended is a process's or a token.
LEMMA PayloadIs ==
  ASSUME MemoryOK, Phases, Taken, NEW p \in Process, pc[p] \in Locked
  PROVE  Payload(p) \in Binding \cup Process /\ bound[p] \in Binding
BY DEF Phases, PhaseOK, Taken, TakenOK, Payload

\* The ledger only grows, its token stays, and the manifest does not go away.
Grows ==
  /\ ledger' \in Seq(Binding \cup Process)
  /\ Exists => (Exists)' /\ token' = token
  /\ \A i \in DOMAIN ledger : i \in DOMAIN ledger' /\ ledger'[i] = ledger[i]
  /\ manifest # Nothing => manifest' # Nothing

LEMMA Quiet ==
  ASSUME SharedOK, UNCHANGED <<token, ledger, manifest>>
  PROVE  Grows
BY DEF SharedOK, Grows, Exists

LEMMA ReplaceGrows ==
  ASSUME SharedOK, MemoryOK, Phases, Taken, Genesis, NEW p \in Process, Replace(p)
  PROVE  /\ Grows /\ (Exists)' /\ Len(ledger') \in Nat
         /\ kind[p] \in {"append", "prepare"}
         /\ kind[p] = "append" => /\ Exists /\ token' = token /\ ledger'[1] = ledger[1]
                                  /\ ledger'[Len(ledger')] = p
         /\ kind[p] = "prepare" => ~Exists /\ ledger'[1] = bound[p]
<1>1. /\ pc[p] = "replace" /\ ledger' = Append(ledger, Payload(p)) /\ token' = bound[p]
      /\ manifest' = manifest
  BY ReplaceFacts
<1>2. Payload(p) \in Binding \cup Process
  BY <1>1, PayloadIs DEF Locked
<1>3. kind[p] \in {"append", "prepare"}
  BY <1>1 DEF Phases, PhaseOK, Locked
<1>4. /\ kind[p] = "append" => Exists /\ token = bound[p]
      /\ kind[p] = "prepare" => ~Exists
  BY <1>1 DEF Genesis, BoundOK
<1>5. ledger \in Seq(Binding \cup Process)
  BY DEF SharedOK
<1>6. /\ ledger' \in Seq(Binding \cup Process) /\ Len(ledger') = Len(ledger) + 1
      /\ ledger' # <<>>
      /\ \A i \in 1..Len(ledger) : ledger'[i] = ledger[i]
      /\ ledger'[Len(ledger) + 1] = Payload(p)
  BY <1>1, <1>2, <1>5
<1>7. Len(ledger) \in Nat /\ DOMAIN ledger = 1..Len(ledger) /\ DOMAIN ledger' = 1..Len(ledger')
  BY <1>5, <1>6
<1>8. Exists => Len(ledger) > 0
  BY <1>5, <1>7 DEF Exists
<1>9. Grows
  BY <1>1, <1>3, <1>4, <1>6, <1>7 DEF Grows, Exists
<1>10. kind[p] = "prepare" => ledger'[1] = bound[p]
  <2>1. kind[p] = "prepare" => Len(ledger) = 0 /\ Payload(p) = bound[p]
    BY <1>4, <1>5 DEF Exists, Payload
  <2>. QED BY <2>1, <1>6
<1>11. kind[p] = "append" => ledger'[1] = ledger[1] /\ ledger'[Len(ledger')] = p
  BY <1>4, <1>6, <1>7, <1>8 DEF Payload
<1>. QED BY <1>1, <1>3, <1>4, <1>6, <1>7, <1>9, <1>10, <1>11 DEF Exists

LEMMA StepGrows ==
  ASSUME SharedOK, MemoryOK, Phases, Taken, Genesis, NEW p \in Process, Act(p)
  PROVE  Grows
<1>1. CASE Replace(p)
  BY <1>1, ReplaceGrows
<1>2. CASE Write(p)
  <2>1. Made(p) \in Manifest
    BY <1>2, WriteFacts DEF Phases, PhaseOK, Taken, TakenOK, Made, Manifest
  <2>. QED BY <1>2, <2>1, WriteFacts, NothingElse DEF SharedOK, Grows, Exists
<1>3. CASE ~Replace(p) /\ ~Write(p)
  <2>1. UNCHANGED <<token, ledger, manifest>>
    BY <1>3, PrepareFacts, NoteFacts, LoadFacts, ValidateFacts, ReadTreeFacts, ReadMapFacts,
       ReadAsideFacts, FlockFacts, ReadFacts, UnlockFacts, CompareFacts, OpenFacts,
       CheckLedgerFacts, DigestFacts, RunFacts, InnerFacts, CrashFacts DEF Act, CandidateStep, Fixed
  <2>. QED BY <2>1, Quiet
<1>. QED BY <1>1, <1>2, <1>3

\* The genesis and the manifest after a step.
LEMMA GenesisShared ==
  ASSUME SharedOK, MemoryOK, Phases, Taken, Genesis, NEW p \in Process, Act(p)
  PROVE  /\ (Exists)' => ledger'[1] = token'
         /\ manifest' # Nothing => (Exists)' /\ token' = manifest'.bound
<1>1. CASE Replace(p)
  <2>1. /\ token' = bound[p] /\ manifest' = manifest
    BY <1>1, ReplaceFacts
  <2>. QED BY <1>1, <2>1, ReplaceGrows DEF Genesis
<1>2. CASE Write(p)
  <2>1. /\ phase[p] = "make" /\ manifest' = Made(p) /\ UNCHANGED <<token, ledger>>
    BY <1>2, WriteFacts DEF Phases, PhaseOK
  <2>2. Exists /\ token = bound[p]
    BY <2>1 DEF Genesis, BoundOK
  <2>. QED BY <2>1, <2>2 DEF Genesis, Made, Exists
<1>3. CASE ~Replace(p) /\ ~Write(p)
  <2>1. UNCHANGED <<token, ledger, manifest>>
    BY <1>3, PrepareFacts, NoteFacts, LoadFacts, ValidateFacts, ReadTreeFacts, ReadMapFacts,
       ReadAsideFacts, FlockFacts, ReadFacts, UnlockFacts, CompareFacts, OpenFacts,
       CheckLedgerFacts, DigestFacts, RunFacts, InnerFacts, CrashFacts DEF Act, CandidateStep, Fixed
  <2>. QED BY <2>1 DEF Genesis, Exists
<1>. QED BY <1>1, <1>2, <1>3

\* A call that is over, or that goes on as it was, needs nothing new.
LEMMA BoundGone ==
  ASSUME NEW p \in Process, Gone(p)
  PROVE  BoundOK(p)'
BY DEF Gone, BoundOK

LEMMA BoundKept ==
  ASSUME NEW p \in Process, BoundOK(p), UNCHANGED <<token, ledger, manifest>>,
         kind'[p] = kind[p], phase'[p] = phase[p], doc'[p] = doc[p],
         bound'[p] = bound[p] \/ (kind[p] # "append" /\ phase[p] # "make"),
         pc'[p] \notin {"replace", "unlock"}
  PROVE  BoundOK(p)'
BY DEF BoundOK, Exists

LEMMA BoundStep ==
  ASSUME SharedOK, MemoryOK, Phases, Taken, Genesis, NEW p \in Process, Act(p)
  PROVE  BoundOK(p)'
<1>1. CASE Prepare(p)
  BY <1>1, PrepareFacts DEF Phases, PhaseOK, Genesis, BoundOK, Exists, Fixed, Gone, Same, Took, Payload, Locked, Begun, Inside, Reading, Checked
<1>2. CASE Note(p)
  BY <1>2, NoteFacts DEF Phases, PhaseOK, Genesis, BoundOK, Exists, Fixed, Gone, Same, Took, Payload, Locked, Begun, Inside, Reading, Checked
<1>3. CASE Load(p)
  <2>1. CASE ~Gone(p)
    <3>1. /\ UNCHANGED <<token, ledger, manifest>> /\ kind'[p] = kind[p] /\ phase'[p] = phase[p]
          /\ doc'[p] = doc[p] /\ bound'[p] = bound[p] /\ pc'[p] \notin {"replace", "unlock"}
      BY <1>3, <2>1, LoadFacts DEF Fixed, Same, Took, Begun, Inside
    <3>2. BoundOK(p)
      BY DEF Genesis
    <3>. QED BY <3>1, <3>2, BoundKept
  <2>. QED BY <2>1, BoundGone
<1>4. CASE Validate(p)
  <2>1. CASE ~Gone(p)
    <3>1. /\ UNCHANGED <<token, ledger, manifest>> /\ kind'[p] = kind[p] /\ phase'[p] = phase[p]
          /\ doc'[p] = doc[p] /\ bound'[p] = bound[p] /\ pc'[p] \notin {"replace", "unlock"}
      BY <1>4, <2>1, ValidateFacts DEF Fixed, Same, Took, Begun, Inside
    <3>2. BoundOK(p)
      BY DEF Genesis
    <3>. QED BY <3>1, <3>2, BoundKept
  <2>. QED BY <2>1, BoundGone
<1>5. CASE ReadTree(p)
  <2>1. CASE ~Gone(p)
    <3>1. /\ UNCHANGED <<token, ledger, manifest>> /\ kind'[p] = kind[p] /\ phase'[p] = phase[p]
          /\ doc'[p] = doc[p] /\ bound'[p] = bound[p] /\ pc'[p] \notin {"replace", "unlock"}
      BY <1>5, <2>1, ReadTreeFacts DEF Fixed, Same, Took, Begun, Inside
    <3>2. BoundOK(p)
      BY DEF Genesis
    <3>. QED BY <3>1, <3>2, BoundKept
  <2>. QED BY <2>1, BoundGone
<1>6. CASE ReadMap(p)
  <2>1. CASE ~Gone(p)
    <3>1. /\ UNCHANGED <<token, ledger, manifest>> /\ kind'[p] = kind[p] /\ phase'[p] = phase[p]
          /\ doc'[p] = doc[p] /\ bound'[p] = bound[p] /\ pc'[p] \notin {"replace", "unlock"}
      BY <1>6, <2>1, ReadMapFacts DEF Fixed, Same, Took, Begun, Inside
    <3>2. BoundOK(p)
      BY DEF Genesis
    <3>. QED BY <3>1, <3>2, BoundKept
  <2>. QED BY <2>1, BoundGone
<1>7. CASE ReadAside(p)
  <2>1. CASE ~Gone(p)
    <3>1. /\ UNCHANGED <<token, ledger, manifest>> /\ kind'[p] = kind[p] /\ phase'[p] = phase[p]
          /\ doc'[p] = doc[p] /\ bound'[p] = bound[p] /\ pc'[p] \notin {"replace", "unlock"}
      BY <1>7, <2>1, ReadAsideFacts DEF Fixed, Same, Took, Begun, Inside
    <3>2. BoundOK(p)
      BY DEF Genesis
    <3>. QED BY <3>1, <3>2, BoundKept
  <2>. QED BY <2>1, BoundGone
<1>8. CASE Flock(p)
  <2>1. /\ UNCHANGED <<token, ledger, manifest>> /\ kind'[p] = kind[p] /\ phase'[p] = phase[p]
        /\ doc'[p] = doc[p] /\ pc'[p] = "read" /\ pc[p] = "flock"
        /\ kind[p] = "append" => bound'[p] = bound[p]
    BY <1>8, FlockFacts
  <2>2. BoundOK(p) /\ phase[p] = "bind"
    BY <2>1 DEF Genesis, Phases, PhaseOK
  <2>. QED BY <2>1, <2>2, BoundKept
<1>9. CASE Read(p)
  <2>1. CASE Gone(p)
    BY <2>1, BoundGone
  <2>2. CASE ~Gone(p)
    <3>1. /\ UNCHANGED <<token, ledger, manifest>> /\ Same(p)
          /\ \/ pc'[p] = "unlock" /\ Exists /\ token = bound[p] /\ kind[p] = "prepare"
             \/ pc'[p] = "replace" /\ (~Exists \/ kind[p] # "prepare")
      BY <1>9, <2>2, ReadFacts
    <3>2. BoundOK(p)
      BY DEF Genesis
    <3>. QED BY <3>1, <3>2 DEF BoundOK, Same, Exists
  <2>. QED BY <2>1, <2>2
<1>10. CASE Replace(p)
  <2>1. /\ pc[p] = "replace" /\ pc'[p] = "unlock" /\ Same(p) /\ token' = bound[p] /\ manifest' = manifest
    BY <1>10, ReplaceFacts
  <2>2. /\ (Exists)' /\ kind[p] \in {"append", "prepare"} /\ (Exists => token' = token)
        /\ kind[p] = "append" => ledger'[Len(ledger')] = p
    BY <1>10, ReplaceGrows DEF Grows
  <2>3. phase[p] = "bind" /\ (doc[p] # Nothing => Exists /\ manifest # Nothing /\ token = doc[p].bound)
    BY <2>1 DEF Phases, PhaseOK, Genesis, BoundOK, Locked
  <2>. QED BY <2>1, <2>2, <2>3 DEF BoundOK, Same
<1>11. CASE Unlock(p)
  <2>1. CASE Gone(p)
    BY <2>1, BoundGone
  <2>2. CASE ~Gone(p)
    <3>1. /\ pc[p] = "unlock" /\ pc'[p] = "tree" /\ bound'[p] = bound[p] /\ doc'[p] = doc[p]
          /\ UNCHANGED <<token, ledger, manifest>>
      BY <1>11, <2>2, UnlockFacts
    <3>2. BoundOK(p) /\ Exists /\ token = bound[p]
      BY <3>1 DEF Genesis, BoundOK
    <3>. QED BY <3>1, <3>2 DEF BoundOK, Exists
  <2>. QED BY <2>1, <2>2
<1>12. CASE Write(p)
  <2>1. /\ pc[p] = "write" /\ pc'[p] = "compare" /\ Same(p) /\ manifest' = Made(p)
        /\ UNCHANGED <<token, ledger>> /\ Grows
    BY <1>12, WriteFacts, StepGrows DEF Act, CandidateStep
  <2>. QED BY <2>1 DEF Genesis, BoundOK, Same, Grows, Exists
<1>13. CASE Compare(p)
  BY <1>13, CompareFacts DEF Phases, PhaseOK, Genesis, BoundOK, Exists, Fixed, Gone, Same, Took, Payload, Locked, Begun, Inside, Reading, Checked
<1>14. CASE Open(p)
  BY <1>14, OpenFacts DEF Phases, PhaseOK, Genesis, BoundOK, Exists, Fixed, Gone, Same, Took, Payload, Locked, Begun, Inside, Reading, Checked
<1>15. CASE CheckLedger(p)
  <2>1. CASE ~Gone(p)
    <3>1. /\ UNCHANGED <<token, ledger, manifest>> /\ kind'[p] = kind[p] /\ phase'[p] = phase[p]
          /\ doc'[p] = doc[p] /\ bound'[p] = bound[p] /\ pc'[p] \notin {"replace", "unlock"}
      BY <1>15, <2>1, CheckLedgerFacts DEF Fixed, Same, Took, Begun, Inside
    <3>2. BoundOK(p)
      BY DEF Genesis
    <3>. QED BY <3>1, <3>2, BoundKept
  <2>. QED BY <2>1, BoundGone
<1>16. CASE Digest(p)
  <2>1. CASE Gone(p)
    BY <2>1, BoundGone
  <2>2. CASE ~Gone(p)
    <3>1. /\ UNCHANGED <<token, ledger, manifest>> /\ pc[p] = "digest" /\ pc'[p] = "root"
          /\ kind'[p] = kind[p] /\ kind[p] = "run" /\ phase'[p] = phase[p] /\ doc'[p] = doc[p]
      BY <1>16, <2>2, DigestFacts DEF Fixed
    <3>2. BoundOK(p) /\ phase[p] = "check"
      BY <3>1 DEF Genesis, Phases, PhaseOK
    <3>. QED BY <3>1, <3>2, BoundKept
  <2>. QED BY <2>1, <2>2
<1>17. CASE Run(p)
  BY <1>17, RunFacts DEF Phases, PhaseOK, Genesis, BoundOK, Exists, Fixed, Gone, Same, Took, Payload, Locked, Begun, Inside, Reading, Checked
<1>18. CASE Inner(p)
  <2>1. CASE ~Gone(p)
    <3>1. /\ UNCHANGED <<token, ledger, manifest>> /\ kind'[p] = kind[p] /\ phase'[p] = phase[p]
          /\ doc'[p] = doc[p] /\ bound'[p] = bound[p] /\ pc'[p] \notin {"replace", "unlock"}
      BY <1>18, <2>1, InnerFacts DEF Fixed, Same, Took, Begun, Inside
    <3>2. BoundOK(p)
      BY DEF Genesis
    <3>. QED BY <3>1, <3>2, BoundKept
  <2>. QED BY <2>1, BoundGone
<1>19. CASE Crash(p)
  BY <1>19, CrashFacts DEF Phases, PhaseOK, Genesis, BoundOK, Exists, Fixed, Gone, Same, Took, Payload, Locked, Begun, Inside, Reading, Checked
<1>. QED BY <1>1, <1>2, <1>3, <1>4, <1>5, <1>6, <1>7, <1>8, <1>9, <1>10,
            <1>11, <1>12, <1>13, <1>14, <1>15, <1>16, <1>17, <1>18, <1>19 DEF Act, CandidateStep

-------------------------------------------------------------------------------
\* Types

\* The files nobody but an editor touches, and the bounds used.
LEMMA RestOfShared ==
  ASSUME SharedOK, NEW p \in Process, Act(p)
  PROVE  content' = content /\ used' \in [calls : Nat, edits : Nat, crashes : Nat]
<1>1. \/ used' = used
      \/ used' = [calls |-> used.calls + 1, edits |-> used.edits, crashes |-> used.crashes]
      \/ used' = [calls |-> used.calls, edits |-> used.edits, crashes |-> used.crashes + 1]
  <2>1. CASE Prepare(p) \/ Note(p) \/ Run(p)
    BY <2>1 DEF Prepare, Note, Run, Call
  <2>2. CASE Crash(p)
    BY <2>2 DEF Crash, Die
  <2>3. CASE CandidateStep(p) /\ ~Prepare(p) /\ ~Note(p)
    BY <2>3 DEF CandidateStep, Load, Validate, ReadTree, ReadMap, ReadAside, Observe, Flock, Read,
                Replace, Unlock, Write, Compare, Open, CheckLedger, Digest
  <2>4. CASE Inner(p)
    BY <2>4 DEF Inner, StageStep, Root, ReadPrior, ReadOwn, Guard, CheckLock, Opening, WriteOpening,
                ReadOpening, LookForJob, Launch, Wait, WriteReceipt, Promote, WriteAggregate,
                Conclude, Move, Leave, ledgerFiles
  <2>. QED BY <2>1, <2>2, <2>3, <2>4 DEF Act
<1>2. content' = content
  <2>1. CASE Prepare(p) \/ Note(p) \/ Run(p)
    BY <2>1 DEF Prepare, Note, Run, Call, shared
  <2>2. CASE Crash(p)
    BY <2>2 DEF Crash, Die
  <2>3. CASE CandidateStep(p) /\ ~Prepare(p) /\ ~Note(p)
    BY <2>3 DEF CandidateStep, Load, Validate, ReadTree, ReadMap, ReadAside, Observe, Flock, Read,
                Replace, Unlock, Write, Compare, Open, CheckLedger, Digest, shared
  <2>4. CASE Inner(p)
    BY <2>4 DEF Inner, StageStep, Root, ReadPrior, ReadOwn, Guard, CheckLock, Opening, WriteOpening,
                ReadOpening, LookForJob, Launch, Wait, WriteReceipt, Promote, WriteAggregate,
                Conclude, Move, Leave, ledgerFiles
  <2>. QED BY <2>1, <2>2, <2>3, <2>4 DEF Act
<1>3. used.calls \in Nat /\ used.edits \in Nat /\ used.crashes \in Nat
      /\ used \in [calls : Nat, edits : Nat, crashes : Nat]
  BY DEF SharedOK
<1>. QED BY <1>1, <1>2, <1>3

LEMMA SharedStep ==
  ASSUME SharedOK, MemoryOK, Phases, Taken, LockOwned, Genesis, NEW p \in Process, Act(p)
  PROVE  SharedOK'
<1>1. content' = content /\ used' \in [calls : Nat, edits : Nat, crashes : Nat]
  BY RestOfShared
<1>2. ledger' \in Seq(Binding \cup Process)
  BY StepGrows DEF Grows
<1>3. CASE Flock(p)
  BY <1>1, <1>2, <1>3, FlockFacts DEF SharedOK
<1>4. CASE Read(p)
  BY <1>1, <1>2, <1>4, ReadFacts DEF SharedOK
<1>5. CASE Replace(p)
  <2>1. bound[p] \in Binding
    BY <1>5, ReplaceFacts, PayloadIs DEF Locked
  <2>. QED BY <1>1, <1>2, <1>5, <2>1, ReplaceFacts DEF SharedOK
<1>6. CASE Unlock(p)
  <2>1. Payload(p) \in Binding \cup Process
    BY <1>6, UnlockFacts, PayloadIs DEF Locked
  <2>2. Len(ledger) \in Nat
    BY DEF SharedOK
  <2>3. [sequence |-> IF kind[p] = "append" THEN Len(ledger) ELSE 1, payload |-> Payload(p)]
          \in [sequence : Nat, payload : Binding \cup Process]
    BY <2>1, <2>2
  <2>. QED BY <1>1, <1>2, <1>6, <2>3, UnlockFacts DEF SharedOK
<1>7. CASE Write(p)
  <2>1. Made(p) \in Manifest
    BY <1>7, WriteFacts DEF Phases, PhaseOK, Taken, TakenOK, Made, Manifest
  <2>. QED BY <1>1, <1>2, <1>7, <2>1, WriteFacts DEF SharedOK
<1>8. CASE ReadTree(p)
  <2>1. (phase[p] = "check" /\ pc[p] = "tree") => doc[p] \in Manifest
    BY DEF Taken, TakenOK
  <2>. QED BY <1>1, <1>2, <1>8, <2>1, ReadTreeFacts DEF SharedOK
<1>9. CASE Crash(p)
  BY <1>1, <1>2, <1>9, CrashFacts DEF SharedOK
<1>10. CASE /\ ~Flock(p) /\ ~Read(p) /\ ~Replace(p) /\ ~Unlock(p) /\ ~Write(p) /\ ~ReadTree(p)
            /\ ~Crash(p)
  <2>1. Fixed
    BY <1>10, PrepareFacts, NoteFacts, LoadFacts, ValidateFacts, ReadMapFacts, ReadAsideFacts,
       CompareFacts, OpenFacts, CheckLedgerFacts, DigestFacts, RunFacts, InnerFacts
       DEF Act, CandidateStep
  <2>. QED BY <1>1, <2>1 DEF Fixed, SharedOK
<1>. QED BY <1>3, <1>4, <1>5, <1>6, <1>7, <1>8, <1>9, <1>10

LEMMA ReturnType ==
  ASSUME MemoryOK, NEW p \in Process, Return(p)
  PROVE  MemoryOK'
<1>1. Unread \in [Field -> Value \cup {Nothing}]
  BY DEF Unread
<1>. QED BY <1>1, StatementNames DEF MemoryOK, Return, Goto, Forget, Kind

LEMMA GotoType ==
  ASSUME MemoryOK, NEW p \in Process, NEW statement \in Statement, Goto(p, statement)
  PROVE  pc' \in [Process -> Statement]
BY DEF MemoryOK, Goto

LEMMA HoldType ==
  ASSUME MemoryOK, NEW p \in Process, NEW statement \in Statement, Goto(p, statement),
         UNCHANGED <<kind, phase, got, bound, doc, id>>
  PROVE  MemoryOK'
BY GotoType DEF MemoryOK

LEMMA KeepType ==
  ASSUME MemoryOK, NEW p \in Process, NEW statement \in Statement, NEW f, NEW v \in Value,
         Keep(p, f, v), Step(p, statement)
  PROVE  MemoryOK'
<1>1. [g \in Field |-> IF g = f THEN v ELSE got[p][g]] \in [Field -> Value \cup {Nothing}]
  BY DEF MemoryOK
<1>2. got' \in [Process -> [Field -> Value \cup {Nothing}]]
  BY <1>1 DEF MemoryOK, Keep
<1>. QED BY <1>2, GotoType DEF MemoryOK, Step

LEMMA ObserveType ==
  ASSUME SharedOK, MemoryOK, NEW p \in Process, NEW f \in Input, NEW next \in Statement,
         Observe(p, f, next)
  PROVE  MemoryOK'
<1>1. content[f] \in Value
  BY ContentIs
<1>2. CASE Keep(p, f, content[f]) /\ Step(p, next)
  BY <1>1, <1>2, KeepType
<1>3. CASE Step(p, next) /\ UNCHANGED got
  BY <1>3, HoldType DEF Step
<1>4. CASE Return(p)
  BY <1>4, ReturnType
<1>. QED BY <1>2, <1>3, <1>4 DEF Observe

LEMMA MoveType ==
  ASSUME MemoryOK, NEW p \in Process, NEW statement \in Statement, Move(p, statement)
  PROVE  MemoryOK'
BY HoldType DEF Move, mind, memory

LEMMA MemoryStep ==
  ASSUME SharedOK, MemoryOK, Phases, Taken, Genesis, NEW p \in Process, Act(p)
  PROVE  MemoryOK'
<1>1. CASE Prepare(p)
  BY <1>1, StatementNames DEF MemoryOK, Prepare, Call, Goto, memory, Kind
<1>2. CASE Note(p)
  <2>1. manifest.bound \in Binding
    BY <1>2, ManifestParts DEF Note, SharedOK
  <2>. QED BY <1>2, <2>1, StatementNames DEF MemoryOK, Note, Call, Goto, Kind
<1>3. CASE Load(p)
  <2>1. content["map"] \in Value /\ "validate" \in Statement
    BY ContentIs, StatementNames DEF Input
  <2>. QED BY <1>3, <2>1, KeepType DEF Load
<1>4. CASE Validate(p)
  <2>1. CASE Step(p, "tree") /\ UNCHANGED got
    BY <2>1, HoldType, StatementNames DEF Step
  <2>2. CASE Return(p)
    BY <2>2, ReturnType
  <2>. QED BY <1>4, <2>1, <2>2 DEF Validate
<1>5. CASE ReadTree(p)
  <2>1. CASE Keep(p, "tree", content["tree"]) /\ Step(p, "map")
    <3>1. content["tree"] \in Value /\ "map" \in Statement
      BY ContentIs, StatementNames DEF Input
    <3>. QED BY <2>1, <3>1, KeepType
  <2>2. CASE Step(p, "digest") /\ UNCHANGED got
    BY <2>2, HoldType, StatementNames DEF Step
  <2>3. CASE Return(p)
    BY <2>3, ReturnType
  <2>. QED BY <1>5, <2>1, <2>2, <2>3 DEF ReadTree
<1>6. CASE ReadMap(p)
  <2>1. "map" \in Input /\ "aside" \in Statement
    BY StatementNames DEF Input
  <2>. QED BY <1>6, <2>1, ObserveType DEF ReadMap
<1>7. CASE ReadAside(p)
  <2>. DEFINE next == CASE phase[p] = "bind" -> "flock" [] phase[p] = "make" -> "write"
                        [] phase[p] = "check" -> "ledger"
  <2>1. "aside" \in Input /\ next \in Statement
    BY StatementNames DEF Input, MemoryOK
  <2>2. Observe(p, "aside", next)
    BY <1>7 DEF ReadAside
  <2>. QED BY <2>1, <2>2, ObserveType
<1>8. CASE Flock(p)
  <2>1. (IF kind[p] = "append" THEN bound[p] ELSE got[p]) \in Binding \cup {Nothing}
    <3>1. kind[p] # "append" => got[p] \in Binding
      BY <1>8 DEF Flock, Phases, PhaseOK, Taken, TakenOK
    <3>. QED BY <3>1 DEF MemoryOK
  <2>. QED BY <1>8, <2>1, StatementNames DEF MemoryOK, Flock, Goto
<1>9. CASE Read(p)
  <2>1. CASE Return(p)
    BY <2>1, ReturnType
  <2>2. CASE /\ UNCHANGED <<holder, kind, memory>>
             /\ Goto(p, IF Exists /\ kind[p] = "prepare" THEN "unlock" ELSE "replace")
    BY <2>2, HoldType, StatementNames DEF memory
  <2>. QED BY <1>9, <2>1, <2>2 DEF Read
<1>10. CASE Replace(p)
  BY <1>10, HoldType, StatementNames DEF Replace, memory
<1>11. CASE Unlock(p)
  <2>1. CASE Return(p)
    BY <2>1, ReturnType
  <2>2. CASE /\ Goto(p, "tree") /\ phase' = [phase EXCEPT ![p] = "make"]
             /\ UNCHANGED <<kind, got, bound, doc, id>>
    BY <2>2, StatementNames DEF MemoryOK, Goto
  <2>. QED BY <1>11, <2>1, <2>2 DEF Unlock
<1>12. CASE Write(p)
  BY <1>12, HoldType, StatementNames DEF Write, memory
<1>13. CASE Compare(p)
  <2>1. CASE Return(p)
    BY <2>1, ReturnType
  <2>2. CASE Check(p) /\ UNCHANGED <<kind, got, bound, doc, id>>
    BY <2>2, StatementNames DEF MemoryOK, Check, Goto
  <2>. QED BY <1>13, <2>1, <2>2 DEF Compare
<1>14. CASE Open(p)
  <2>1. CASE Return(p)
    BY <2>1, ReturnType
  <2>2. CASE /\ doc' = [doc EXCEPT ![p] = manifest] /\ Goto(p, "map")
             /\ UNCHANGED <<kind, phase, got, bound, id>>
    BY <2>2, StatementNames DEF MemoryOK, SharedOK, Goto
  <2>. QED BY <1>14, <2>1, <2>2 DEF Open
<1>15. CASE CheckLedger(p)
  <2>1. CASE Step(p, "load") /\ UNCHANGED got
    BY <2>1, HoldType, StatementNames DEF Step
  <2>2. CASE Return(p)
    BY <2>2, ReturnType
  <2>. QED BY <1>15, <2>1, <2>2 DEF CheckLedger
<1>16. CASE Digest(p)
  <2>1. CASE Return(p)
    BY <2>1, ReturnType
  <2>2. CASE /\ id' = [id EXCEPT ![p] = manifest] /\ Goto(p, "root")
             /\ UNCHANGED <<kind, phase, got, bound, doc>>
    BY <2>2, StatementNames DEF MemoryOK, SharedOK, Goto
  <2>. QED BY <1>16, <2>1, <2>2 DEF Digest
<1>17. CASE Run(p)
  BY <1>17, StatementNames DEF MemoryOK, Run, Call, Check, Goto, Kind
<1>18. CASE Inner(p)
  <2>1. CASE Leave(p)
    BY <2>1, ReturnType DEF Leave
  <2>2. CASE \E statement \in Statement : Move(p, statement)
    BY <2>2, MoveType
  <2>3. Leave(p) \/ \E statement \in Statement : Move(p, statement)
    <3>1. CASE Root(p) \/ ReadPrior(p) \/ ReadOwn(p)
      BY <3>1, StatementNames DEF Root, ReadPrior, ReadOwn
    <3>2. CASE Guard(p) \/ CheckLock(p) \/ Opening(p) \/ WriteOpening(p) \/ ReadOpening(p)
      BY <3>2, StatementNames DEF Guard, CheckLock, Opening, WriteOpening, ReadOpening, Conclude
    <3>3. CASE LookForJob(p) \/ Launch(p) \/ Wait(p) \/ Promote(p)
      BY <3>3, StatementNames DEF LookForJob, Launch, Wait, Promote, Conclude
    <3>4. CASE WriteReceipt(p) \/ WriteAggregate(p)
      BY <3>4, StatementNames DEF WriteReceipt, WriteAggregate
    <3>. QED BY <1>18, <3>1, <3>2, <3>3, <3>4 DEF Inner, StageStep
  <2>. QED BY <2>1, <2>2, <2>3
<1>19. CASE Crash(p)
  BY <1>19, ReturnType DEF Crash, Die
<1>. QED BY <1>1, <1>2, <1>3, <1>4, <1>5, <1>6, <1>7, <1>8, <1>9, <1>10, <1>11, <1>12, <1>13,
            <1>14, <1>15, <1>16, <1>17, <1>18, <1>19 DEF Act, CandidateStep
-------------------------------------------------------------------------------
\* The other processes, and all of it

LEMMA OthersSafe ==
  ASSUME SharedOK, MemoryOK, Phases, Taken, LockOwned, Genesis,
         NEW p \in Process, NEW q \in Process, q # p, Act(p)
  PROVE  PhaseOK(q)' /\ TakenOK(q)' /\ LockOK(q)' /\ BoundOK(q)'
<1>1. Stay(q)
  BY OthersStay
<1>2. PhaseOK(q)'
  BY <1>1 DEF Phases, PhaseOK, Stay, Same
<1>3. TakenOK(q)'
  BY <1>1 DEF Taken, TakenOK, Stay, Same
<1>4. LockOK(q)'
  <2>1. holder' = holder \/ (holder = Nothing /\ holder' = p) \/ (holder = p /\ holder' = Nothing)
    <3>1. CASE Flock(p)
      BY <3>1, FlockFacts
    <3>2. CASE Read(p) \/ Unlock(p)
      BY <3>2, ReadFacts, UnlockFacts DEF LockOwned, LockOK, Locked
    <3>3. CASE Crash(p)
      BY <3>3, CrashFacts
    <3>4. CASE ~Flock(p) /\ ~Read(p) /\ ~Unlock(p) /\ ~Crash(p)
      BY <3>4, PrepareFacts, NoteFacts, LoadFacts, ValidateFacts, ReadTreeFacts, ReadMapFacts,
         ReadAsideFacts, ReplaceFacts, WriteFacts, CompareFacts, OpenFacts, CheckLedgerFacts,
         DigestFacts, RunFacts, InnerFacts DEF Act, CandidateStep, Fixed
    <3>. QED BY <3>1, <3>2, <3>3, <3>4
  <2>. QED BY <1>1, <2>1, NothingElse DEF LockOwned, LockOK, Stay, Same
<1>5. BoundOK(q)'
  <2>1. CASE Replace(p)
    <3>1. pc[p] = "replace" /\ manifest' = manifest
      BY <2>1, ReplaceFacts
    <3>2. pc[q] \notin Locked
      BY <3>1 DEF LockOwned, LockOK, Locked
    <3>3. Grows
      BY <2>1, ReplaceGrows
    <3>. QED BY <1>1, <3>1, <3>2, <3>3 DEF Genesis, BoundOK, Stay, Same, Locked, Grows
  <2>2. CASE ~Replace(p)
    <3>1. UNCHANGED <<token, ledger>> /\ (manifest # Nothing => manifest' # Nothing)
      <4>1. CASE Write(p)
        BY <4>1, WriteFacts, StepGrows DEF Grows
      <4>2. CASE ~Write(p)
        BY <2>2, <4>2, PrepareFacts, NoteFacts, LoadFacts, ValidateFacts, ReadTreeFacts,
           ReadMapFacts, ReadAsideFacts, FlockFacts, ReadFacts, UnlockFacts, CompareFacts,
           OpenFacts, CheckLedgerFacts, DigestFacts, RunFacts, InnerFacts, CrashFacts
           DEF Act, CandidateStep, Fixed
      <4>. QED BY <4>1, <4>2
    <3>. QED BY <1>1, <3>1 DEF Genesis, BoundOK, Stay, Same, Exists
  <2>. QED BY <2>1, <2>2
<1>. QED BY <1>2, <1>3, <1>4, <1>5

\* What calls returned and manifests that were verified are on record.
LEMMA RecordedStep ==
  ASSUME SharedOK, MemoryOK, Phases, Taken, Genesis, Recorded, NEW p \in Process, Act(p)
  PROVE  Recorded'
<1>1. Grows
  BY StepGrows
<1>2. /\ \A a \in acked : a.sequence \in DOMAIN ledger' /\ ledger'[a.sequence] = a.payload
      /\ \A m \in verified : (Exists)' /\ ledger'[1] = m.bound
  <2>1. Exists => 1 \in DOMAIN ledger
    BY DEF SharedOK, Exists
  <2>. QED BY <1>1, <2>1 DEF Grows, Recorded
<1>3. CASE Unlock(p)
  <2>. DEFINE a == [sequence |-> IF kind[p] = "append" THEN Len(ledger) ELSE 1, payload |-> Payload(p)]
  <2>1. /\ pc[p] = "unlock" /\ acked' = acked \cup {a} /\ UNCHANGED <<ledger, verified>>
    BY <1>3, UnlockFacts
  <2>2. /\ Exists /\ token = bound[p] /\ kind[p] \in {"prepare", "append"}
        /\ kind[p] = "append" => ledger[Len(ledger)] = p
        /\ ledger[1] = token
    BY <2>1 DEF Genesis, BoundOK, Phases, PhaseOK, Locked
  <2>3. Len(ledger) \in Nat /\ Len(ledger) > 0 /\ DOMAIN ledger = 1..Len(ledger)
    BY <2>2 DEF SharedOK, Exists
  <2>4. a.sequence \in DOMAIN ledger /\ ledger[a.sequence] = a.payload
    BY <2>2, <2>3 DEF Payload
  <2>. HIDE DEF a
  <2>. QED BY <1>2, <2>1, <2>4 DEF Recorded
<1>4. CASE ReadTree(p)
  <2>1. acked' = acked /\ (verified' = verified \/
           (phase[p] = "check" /\ pc[p] = "tree" /\ verified' = verified \cup {doc[p]}))
    BY <1>4, ReadTreeFacts
  <2>2. UNCHANGED ledger
    BY <1>4, ReadTreeFacts
  <2>3. (phase[p] = "check" /\ pc[p] = "tree") => Exists /\ ledger[1] = doc[p].bound
    <3>1. (phase[p] = "check" /\ pc[p] = "tree") => doc[p] # Nothing
      BY NothingElse DEF Taken, TakenOK
    <3>. QED BY <3>1 DEF Genesis, BoundOK
  <2>. QED BY <1>2, <2>1, <2>2, <2>3 DEF Recorded, Exists
<1>5. CASE ~Unlock(p) /\ ~ReadTree(p)
  <2>1. UNCHANGED <<acked, verified>>
    BY <1>5, PrepareFacts, NoteFacts, LoadFacts, ValidateFacts, ReadMapFacts,
       ReadAsideFacts, FlockFacts, ReadFacts, ReplaceFacts, WriteFacts, CompareFacts,
       OpenFacts, CheckLedgerFacts, DigestFacts, RunFacts, InnerFacts, CrashFacts
       DEF Act, CandidateStep, Fixed
  <2>. QED BY <1>2, <2>1 DEF Recorded
<1>. QED BY <1>3, <1>4, <1>5

LEMMA LedgerStepInv ==
  ASSUME LedgerInv, NEW p \in Process, Act(p)
  PROVE  LedgerInv'
<1>1. SharedOK /\ MemoryOK /\ Phases /\ Taken /\ LockOwned /\ Genesis /\ Recorded
  BY DEF LedgerInv
<1>2. SharedOK' /\ MemoryOK' /\ Recorded'
  BY <1>1, SharedStep, MemoryStep, RecordedStep
<1>3. PhaseOK(p)' /\ TakenOK(p)' /\ LockOK(p)' /\ BoundOK(p)'
  BY <1>1, PhaseStep, TakenStep, LockStep, BoundStep
<1>4. ASSUME NEW q \in Process
      PROVE  PhaseOK(q)' /\ TakenOK(q)' /\ LockOK(q)' /\ BoundOK(q)'
  <2>1. CASE q = p
    BY <1>3, <2>1
  <2>2. CASE q # p
    BY <1>1, <2>2, OthersSafe
  <2>. QED BY <2>1, <2>2
<1>5. Phases' /\ Taken' /\ LockOwned'
  BY <1>4 DEF Phases, Taken, LockOwned
<1>6. Genesis'
  BY <1>1, <1>4, GenesisShared DEF Genesis
<1>. QED BY <1>2, <1>5, <1>6 DEF LedgerInv

LEMMA LedgerQuiet ==
  ASSUME LedgerInv, Fixed, \A q \in Process : Stay(q), SharedOK', MemoryOK'
  PROVE  LedgerInv'
<1>1. Phases'
  BY DEF LedgerInv, Phases, PhaseOK, Stay, Same
<1>2. Taken'
  BY DEF LedgerInv, Taken, TakenOK, Stay, Same
<1>3. LockOwned'
  BY DEF LedgerInv, LockOwned, LockOK, Stay, Same, Fixed
<1>4. Genesis'
  BY DEF LedgerInv, Genesis, BoundOK, Exists, Stay, Same, Fixed
<1>5. Recorded'
  BY DEF LedgerInv, Recorded, Exists, Fixed
<1>. QED BY <1>1, <1>2, <1>3, <1>4, <1>5 DEF LedgerInv

LEMMA LedgerInit ==
  ASSUME SInit
  PROVE  LedgerInv
<1>1. Init
  BY DEF SInit
<1>2. SharedOK
  BY <1>1 DEF Init, SharedOK
<1>3. MemoryOK
  <2>1. Unread \in [Field -> Value \cup {Nothing}]
    BY DEF Unread
  <2>. QED BY <1>1, <2>1, StatementNames DEF Init, MemoryOK, Kind
<1>4. Phases
  BY <1>1 DEF Init, Phases, PhaseOK, Reading, Locked, Checked, Begun, Inside
<1>5. Taken
  BY <1>1 DEF Init, Taken, TakenOK, Reading, Locked, Begun, Inside
<1>6. LockOwned
  BY <1>1, NothingElse DEF Init, LockOwned, LockOK, Locked
<1>7. Genesis /\ Recorded
  BY <1>1 DEF Init, Genesis, BoundOK, Recorded, Exists
<1>. QED BY <1>2, <1>3, <1>4, <1>5, <1>6, <1>7 DEF LedgerInv

LEMMA LedgerNext ==
  ASSUME LedgerInv, [Next]_vars
  PROVE  LedgerInv'
<1>1. CASE \E p \in Process : Act(p)
  BY <1>1, LedgerStepInv
<1>2. CASE Environment
  <2>1. \A q \in Process : Stay(q) /\ Fixed
    BY <1>2, EditStays
  <2>2. Fixed
    BY <1>2 DEF Environment, Edit, Fixed
  <2>3. SharedOK'
    <3>1. used' = [calls |-> used.calls, edits |-> used.edits + 1, crashes |-> used.crashes]
      BY <1>2 DEF Environment, Edit
    <3>2. content' \in [Input -> Value]
      BY <1>2 DEF Environment, Edit, LedgerInv, SharedOK
    <3>3. used' \in [calls : Nat, edits : Nat, crashes : Nat]
      BY <3>1 DEF LedgerInv, SharedOK
    <3>. QED BY <2>2, <3>2, <3>3 DEF Fixed, LedgerInv, SharedOK
  <2>4. MemoryOK'
    BY <1>2 DEF Environment, Edit, memory, LedgerInv, MemoryOK
  <2>. QED BY <2>1, <2>2, <2>3, <2>4, LedgerQuiet
<1>3. CASE UNCHANGED vars
  <2>1. \A q \in Process : Stay(q)
    BY <1>3 DEF vars, candidate, memory, Stay, Same
  <2>2. Fixed /\ SharedOK' /\ MemoryOK'
    BY <1>3 DEF vars, candidate, shared, memory, Fixed, LedgerInv, SharedOK, MemoryOK
  <2>. QED BY <2>1, <2>2, LedgerQuiet
<1>. QED BY <1>1, <1>2, <1>3, NextIsAct

\* The ledger half of the invariant: its records, its token and its lock, the manifest,
\* and what every call has read of them.
THEOREM LedgerInvariance == Spec => []LedgerInv
<1>1. SInit => LedgerInv
  BY LedgerInit
<1>2. LedgerInv /\ [Next]_vars => LedgerInv'
  BY LedgerNext
<1>. QED BY <1>1, <1>2, PTL DEF Spec

\* No record a call returned is ever lost or moved, and no manifest passes verification
\* but against the genesis.
THEOREM NoRecordLost == Spec => []Recorded
<1>1. LedgerInv => Recorded
  BY DEF LedgerInv
<1>. QED BY <1>1, LedgerInvariance, PTL
-------------------------------------------------------------------------------
\* The evidence of the stages

LEMMA NoFile ==
  /\ Nothing \notin Aggregate /\ Nothing \notin Receipt /\ Nothing # Log
  /\ Last \in Nat /\ Last > 2 /\ Jobs \in [Stage -> Nat] /\ Jobs[1] = 0 /\ Jobs[2] = 0
BY StageAssumption

LEMMA BegunNames ==
  /\ Inside \subseteq Begun /\ "prior" \in Begun /\ "own" \in Begun /\ "root" \in Begun
  /\ "idle" \notin Begun /\ "root" \notin Inside /\ "prior" \notin Inside /\ "own" \notin Inside
BY DEF Begun, Inside

LEMMA JobIn ==
  ASSUME NEW s \in Stage, NEW j \in 1..Jobs[s]
  PROVE  <<s, j>> \in Job
BY DEF Job

LEMMA StageBefore ==
  ASSUME NEW s \in Stage, s > 1
  PROVE  s - 1 \in Stage /\ s - 1 # s
BY NoFile DEF Stage
-------------------------------------------------------------------------------
\* What a step of a stage does to the process that takes it

\* It is where it was, in the same stage ...
Here(p) == Same(p) /\ stage'[p] = stage[p] /\ prior'[p] = prior[p] /\ done'[p] = done[p]

\* ... with the same verdict,
Still(p) == Here(p) /\ outcome'[p] = outcome[p]

\* or a new one,
Concluded(p, status, why) ==
  pc'[p] = "aggregate" /\ Here(p) /\ outcome'[p] = Ended(status, why)

\* or it is over.
Over(p) ==
  /\ Gone(p) /\ stage'[p] = 1 /\ prior'[p] = Nothing /\ done'[p] = 0
  /\ outcome'[p] = Ended("PASS", "")

Unwritten == UNCHANGED <<aggregate, opening, evidence, inventory, overlapped>>

LEMMA StillFacts ==
  ASSUME MemoryOK, NEW p \in Process, NEW statement, Move(p, statement), UNCHANGED locals
  PROVE  pc'[p] = statement /\ Still(p)
BY MoveFacts DEF locals, Still, Here

LEMMA ConcludeFacts ==
  ASSUME MemoryOK, StagesOK, NEW p \in Process, NEW status, NEW why, Conclude(p, status, why)
  PROVE  Concluded(p, status, why)
<1>1. pc'[p] = "aggregate" /\ Same(p)
  BY MoveFacts DEF Conclude
<1>2. Here(p)
  BY <1>1 DEF Conclude, Here
<1>3. outcome'[p] = Ended(status, why)
  BY DEF Conclude, StagesOK
<1>. QED BY <1>1, <1>2, <1>3 DEF Concluded

LEMMA OverFacts ==
  ASSUME MemoryOK, StagesOK, NEW p \in Process, Leave(p)
  PROVE  Over(p)
<1>1. Gone(p)
  BY LeaveFacts
<1>2. stage'[p] = 1 /\ prior'[p] = Nothing /\ done'[p] = 0 /\ outcome'[p] = Ended("PASS", "")
  BY DEF Leave, Reset, StagesOK
<1>. QED BY <1>1, <1>2 DEF Over

LEMMA RootFacts ==
  ASSUME MemoryOK, StagesOK, NEW p \in Process, Root(p)
  PROVE  /\ pc[p] = "root" /\ Unwritten
         /\ \/ Over(p)
            \/ /\ pc'[p] = "prior" /\ Same(p) /\ stage'[p] \in Stage
               /\ prior'[p] = prior[p] /\ done'[p] = done[p] /\ outcome'[p] = outcome[p]
<1>1. pc[p] = "root" /\ Unwritten
  BY DEF Root, results, Unwritten
<1>2. CASE Leave(p)
  BY <1>1, <1>2, OverFacts
<1>3. CASE /\ Move(p, "prior")
           /\ \E s \in Stage : stage' = [stage EXCEPT ![p] = s]
           /\ UNCHANGED <<prior, done, outcome>>
  BY <1>1, <1>3, MoveFacts DEF StagesOK
<1>. QED BY <1>2, <1>3 DEF Root

LEMMA ReadPriorFacts ==
  ASSUME MemoryOK, StagesOK, NEW p \in Process, ReadPrior(p)
  PROVE  /\ pc[p] = "prior" /\ pc'[p] = "own" /\ Unwritten
         /\ Same(p) /\ stage'[p] = stage[p] /\ done'[p] = done[p] /\ outcome'[p] = outcome[p]
         /\ prior'[p] = IF stage[p] = 1 THEN Nothing ELSE aggregate[<<Catalog(p), stage[p] - 1>>]
<1>1. pc'[p] = "own" /\ Same(p)
  BY MoveFacts DEF ReadPrior
<1>. QED BY <1>1 DEF ReadPrior, results, Unwritten, StagesOK

LEMMA ReadOwnFacts ==
  ASSUME MemoryOK, StagesOK, NEW p \in Process, ReadOwn(p)
  PROVE  /\ pc[p] = "own" /\ UNCHANGED <<aggregate, opening, evidence, inventory>>
         /\ \/ Over(p) /\ UNCHANGED overlapped
            \/ /\ aggregate[Place(p)] = Nothing /\ pc'[p] = "guard" /\ Still(p)
               /\ overlapped' = IF Company(p) = {} THEN overlapped ELSE overlapped \cup {Place(p)}
BY OverFacts, StillFacts DEF ReadOwn, results

LEMMA GuardFacts ==
  ASSUME MemoryOK, StagesOK, NEW p \in Process, Guard(p)
  PROVE  /\ pc[p] = "guard" /\ Unwritten
         /\ \/ /\ Preceded(p) /\ Implemented(stage[p]) /\ Still(p)
               /\ pc'[p] = IF stage[p] = 2 THEN "lock" ELSE "opening"
            \/ Concluded(p, "BLOCKED", "other")
<1>1. pc[p] = "guard" /\ Unwritten
  BY DEF Guard, results, Unwritten
<1>2. CASE /\ Preceded(p) /\ Implemented(stage[p])
           /\ Move(p, IF stage[p] = 2 THEN "lock" ELSE "opening") /\ UNCHANGED locals
  BY <1>1, <1>2, StillFacts
<1>3. CASE Conclude(p, "BLOCKED", "other")
  BY <1>1, <1>3, ConcludeFacts
<1>. QED BY <1>2, <1>3 DEF Guard

LEMMA CheckLockFacts ==
  ASSUME MemoryOK, StagesOK, NEW p \in Process, CheckLock(p)
  PROVE  /\ pc[p] = "lock" /\ Unwritten
         /\ Concluded(p, "PARTIAL_HOLD", "") \/ Concluded(p, "BLOCKED", "other")
BY ConcludeFacts DEF CheckLock, results, Unwritten

LEMMA OpeningFacts ==
  ASSUME MemoryOK, StagesOK, NEW p \in Process, Opening(p)
  PROVE  /\ pc[p] = "opening" /\ Unwritten
         /\ (pc'[p] = "open it" /\ Still(p)) \/ Concluded(p, "BLOCKED", "exists")
BY ConcludeFacts, StillFacts DEF Opening, results, Unwritten

LEMMA WriteOpeningFacts ==
  ASSUME MemoryOK, StagesOK, NEW p \in Process, WriteOpening(p)
  PROVE  /\ pc[p] = "open it" /\ pc'[p] = "reread" /\ Still(p)
         /\ UNCHANGED <<aggregate, evidence, inventory, overlapped>>
         /\ opening' = [opening EXCEPT ![Place(p)] = id[p]]
BY StillFacts DEF WriteOpening

LEMMA ReadOpeningFacts ==
  ASSUME MemoryOK, StagesOK, NEW p \in Process, ReadOpening(p)
  PROVE  /\ pc[p] = "reread" /\ Unwritten
         /\ \/ Concluded(p, "BLOCKED", "other")
            \/ stage[p] = 1 /\ Concluded(p, "PASS", "")
            \/ stage[p] # 1 /\ pc'[p] = "job" /\ Still(p)
BY ConcludeFacts, StillFacts DEF ReadOpening, results, Unwritten

LEMMA LookForJobFacts ==
  ASSUME MemoryOK, StagesOK, NEW p \in Process, LookForJob(p)
  PROVE  /\ pc[p] = "job" /\ Unwritten
         /\ (pc'[p] = "launch" /\ Still(p)) \/ Concluded(p, "BLOCKED", "exists")
BY ConcludeFacts, StillFacts DEF LookForJob, results, Unwritten

LEMMA LaunchFacts ==
  ASSUME MemoryOK, StagesOK, NEW p \in Process, Launch(p)
  PROVE  /\ pc[p] = "launch" /\ UNCHANGED <<aggregate, opening, inventory, overlapped>>
         /\ \/ Over(p) /\ UNCHANGED evidence
            \/ /\ evidence[NextJob(p)] = Nothing
               /\ evidence' = [evidence EXCEPT ![NextJob(p)] = Log]
               /\ (pc'[p] = "wait" /\ Still(p)) \/ Concluded(p, "BLOCKED", "other")
BY OverFacts, ConcludeFacts, StillFacts DEF Launch

LEMMA WaitFacts ==
  ASSUME MemoryOK, StagesOK, NEW p \in Process, Wait(p)
  PROVE  /\ pc[p] = "wait" /\ Unwritten
         /\ \/ /\ pc'[p] = "receipt" /\ Here(p)
               /\ \E status \in {"PASS", "FAIL"} : outcome'[p] = Ended(status, "")
            \/ Concluded(p, "BLOCKED", "other")
<1>1. pc[p] = "wait" /\ Unwritten
  BY DEF Wait, results, Unwritten
<1>2. CASE /\ \E status \in {"PASS", "FAIL"} : outcome' = [outcome EXCEPT ![p] = Ended(status, "")]
           /\ Move(p, "receipt") /\ UNCHANGED <<stage, prior, done>>
  BY <1>1, <1>2, MoveFacts DEF Here, StagesOK
<1>3. CASE Conclude(p, "BLOCKED", "other")
  BY <1>1, <1>3, ConcludeFacts
<1>. QED BY <1>2, <1>3 DEF Wait

LEMMA WriteReceiptFacts ==
  ASSUME MemoryOK, StagesOK, NEW p \in Process, WriteReceipt(p)
  PROVE  /\ pc[p] = "receipt" /\ UNCHANGED <<aggregate, opening, inventory, overlapped>>
         /\ evidence' = [evidence EXCEPT ![NextJob(p)] =
                           [status |-> outcome[p].status, manifest |-> id[p]]]
         /\ Same(p) /\ stage'[p] = stage[p] /\ prior'[p] = prior[p] /\ outcome'[p] = outcome[p]
         /\ done'[p] = done[p] + 1
         /\ pc'[p] = IF outcome[p].status = "FAIL" THEN "aggregate"
                     ELSE IF done[p] + 1 < Jobs[stage[p]] THEN "job"
                     ELSE IF stage[p] = 3 THEN "promote" ELSE "aggregate"
<1>1. done'[p] = done[p] + 1
  BY DEF WriteReceipt, StagesOK
<1>. QED BY <1>1, MoveFacts DEF WriteReceipt

LEMMA PromoteFacts ==
  ASSUME MemoryOK, StagesOK, NEW p \in Process, Promote(p)
  PROVE  /\ pc[p] = "promote" /\ UNCHANGED <<aggregate, opening, evidence, overlapped>>
         /\ UNCHANGED inventory \/ inventory' = [inventory EXCEPT ![Catalog(p)] = id[p]]
         /\ \/ Concluded(p, "BLOCKED", "exists") \/ Concluded(p, "BLOCKED", "other")
            \/ pc'[p] = "aggregate" /\ Still(p)
BY ConcludeFacts, StillFacts DEF Promote

Written(p) ==
  [status |-> outcome[p].status, why |-> outcome[p].why,
   manifest |-> id[p], aside |-> doc[p].seen["aside"]]

LEMMA WriteAggregateFacts ==
  ASSUME MemoryOK, StagesOK, NEW p \in Process, WriteAggregate(p)
  PROVE  /\ pc[p] = "aggregate" /\ UNCHANGED <<opening, evidence, inventory, overlapped>>
         /\ aggregate' = [aggregate EXCEPT ![Place(p)] = Written(p)] /\ Over(p)
BY OverFacts DEF WriteAggregate, Written

\* Whatever is done outside the stages.
Outside(p) == CandidateStep(p) \/ Run(p)

LEMMA OutsideFacts ==
  ASSUME MemoryOK, Phases, NEW p \in Process, Outside(p), UNCHANGED <<results, locals, overlapped>>
  PROVE  /\ Unwritten /\ pc[p] \notin Begun /\ pc'[p] \notin Begun \ {"root"}
         /\ stage'[p] = stage[p] /\ prior'[p] = prior[p] /\ done'[p] = done[p]
         /\ outcome'[p] = outcome[p]
<1>1. Unwritten /\ stage' = stage /\ prior' = prior /\ done' = done /\ outcome' = outcome
  BY DEF results, locals, Unwritten
<1>2. pc[p] \notin Begun /\ pc'[p] \notin Begun \ {"root"}
  <2>1. CASE Prepare(p) \/ Note(p) \/ Run(p)
    BY <2>1, PrepareFacts, NoteFacts, RunFacts DEF Begun, Inside
  <2>2. CASE Load(p) \/ Validate(p) \/ ReadTree(p)
    BY <2>2, LoadFacts, ValidateFacts, ReadTreeFacts DEF Begun, Inside, Gone
  <2>3. CASE ReadMap(p) \/ ReadAside(p)
    BY <2>3, ReadMapFacts, ReadAsideFacts DEF Begun, Inside, Gone
  <2>4. CASE Flock(p) \/ Read(p) \/ Replace(p) \/ Unlock(p)
    BY <2>4, FlockFacts, ReadFacts, ReplaceFacts, UnlockFacts DEF Begun, Inside, Gone
  <2>5. CASE Write(p) \/ Compare(p) \/ Open(p)
    BY <2>5, WriteFacts, CompareFacts, OpenFacts DEF Begun, Inside, Gone
  <2>6. CASE CheckLedger(p) \/ Digest(p)
    BY <2>6, CheckLedgerFacts, DigestFacts DEF Begun, Inside, Gone
  <2>. QED BY <2>1, <2>2, <2>3, <2>4, <2>5, <2>6 DEF Outside, CandidateStep
<1>. QED BY <1>1, <1>2

LEMMA DiedFacts ==
  ASSUME MemoryOK, StagesOK, NEW p \in Process, Crash(p)
  PROVE  Over(p) /\ Unwritten
<1>1. Gone(p)
  BY CrashFacts
<1>2. stage'[p] = 1 /\ prior'[p] = Nothing /\ done'[p] = 0 /\ outcome'[p] = Ended("PASS", "")
  BY DEF Crash, Reset, StagesOK
<1>. QED BY <1>1, <1>2 DEF Over, Crash, results, Unwritten
-------------------------------------------------------------------------------
\* Every step is one process's, or an edit; the other processes stay where they are.
StageAct(p) ==
  \/ Outside(p) /\ UNCHANGED <<results, locals, overlapped>>
  \/ Inner(p)
  \/ Crash(p)

LEMMA NextIsStageAct ==
  ASSUME Next
  PROVE  (\E p \in Process : StageAct(p)) \/ Environment
<1>1. ASSUME NEW p \in Process, Run(p)
      PROVE  UNCHANGED <<results, locals, overlapped>>
  BY <1>1 DEF Run, results, locals
<1>. QED BY <1>1 DEF Next, StageAct, Outside, LedgerStep, Inner

LEMMA StageActIsAct ==
  ASSUME NEW p \in Process, StageAct(p)
  PROVE  Act(p)
BY DEF StageAct, Outside, Act

Rest(q) ==
  /\ Stay(q) /\ stage'[q] = stage[q] /\ prior'[q] = prior[q] /\ done'[q] = done[q]
  /\ outcome'[q] = outcome[q]

LEMMA OthersRest ==
  ASSUME MemoryOK, StagesOK, NEW p \in Process, NEW q \in Process, q # p, StageAct(p)
  PROVE  Rest(q)
<1>1. Stay(q)
  BY OthersStay, StageActIsAct
<1>2. CASE Outside(p) /\ UNCHANGED <<results, locals, overlapped>>
  BY <1>1, <1>2 DEF locals, Rest
<1>3. CASE Inner(p)
  <2>1. CASE Leave(p)
    BY <1>1, <2>1 DEF StagesOK, Leave, Reset, Rest
  <2>2. CASE UNCHANGED locals
    BY <1>1, <2>2 DEF locals, Rest
  <2>3. ASSUME NEW status, NEW why, Conclude(p, status, why)
        PROVE  Rest(q)
    BY <1>1, <2>3 DEF StagesOK, Conclude, Rest
  <2>4. CASE Root(p) \/ ReadPrior(p) \/ ReadOwn(p)
    BY <1>1, <2>1, <2>2, <2>4 DEF StagesOK, Root, ReadPrior, ReadOwn, Rest
  <2>5. CASE Guard(p) \/ CheckLock(p) \/ Opening(p) \/ WriteOpening(p) \/ ReadOpening(p)
    BY <2>2, <2>3, <2>5 DEF Guard, CheckLock, Opening, WriteOpening, ReadOpening, locals
  <2>6. CASE LookForJob(p) \/ Launch(p) \/ Promote(p)
    BY <2>1, <2>2, <2>3, <2>6 DEF LookForJob, Launch, Promote
  <2>7. CASE Wait(p)
    BY <1>1, <2>3, <2>7 DEF StagesOK, Wait, Rest
  <2>8. CASE WriteReceipt(p)
    BY <1>1, <2>8 DEF StagesOK, WriteReceipt, Rest
  <2>9. CASE WriteAggregate(p)
    BY <2>1, <2>9 DEF WriteAggregate
  <2>. QED BY <1>3, <2>4, <2>5, <2>6, <2>7, <2>8, <2>9 DEF Inner, StageStep
<1>4. CASE Crash(p)
  BY <1>1, <1>4 DEF StagesOK, Crash, Reset, Rest
<1>. QED BY <1>2, <1>3, <1>4 DEF StageAct

\* Who has begun a stage knows its catalog and the manifest it works for.
LEMMA BegunHas ==
  ASSUME LedgerInv, StagesOK, NEW p \in Process, pc[p] \in Begun
  PROVE  /\ doc[p] \in Manifest /\ id[p] \in Manifest /\ Catalog(p) \in Value
         /\ doc[p].seen["aside"] \in Value /\ stage[p] \in Stage /\ Place(p) \in Value \X Stage
<1>1. doc[p] \in Manifest /\ id[p] \in Manifest
  BY DEF LedgerInv, Phases, PhaseOK, Taken, TakenOK, Begun, Inside
<1>2. stage[p] \in Stage
  BY DEF StagesOK
<1>. QED BY <1>1, <1>2, ManifestParts DEF Catalog, Place

LEMMA NextJobIn ==
  ASSUME LedgerInv, StagesOK, NEW p \in Process, pc[p] \in Begun, done[p] < Jobs[stage[p]]
  PROVE  /\ done[p] + 1 \in 1..Jobs[stage[p]]
         /\ NextJob(p) \in Value \X Job /\ NextJob(p) = <<Catalog(p), <<stage[p], done[p] + 1>>>>
<1>1. Catalog(p) \in Value /\ stage[p] \in Stage
  BY BegunHas
<1>2. done[p] + 1 \in 1..Jobs[stage[p]]
  BY <1>1, NoFile DEF StagesOK
<1>. QED BY <1>1, <1>2, JobIn DEF NextJob
-------------------------------------------------------------------------------
\* Three kinds of steps, as far as the aggregates are concerned.

Passing(p) ==
  /\ UNCHANGED <<aggregate, overlapped>>
  /\ pc'[p] \in Inside =>
       /\ pc[p] \in Inside /\ Same(p) /\ stage'[p] = stage[p] /\ prior'[p] = prior[p]
  /\ pc'[p] = "own" =>
       /\ stage'[p] = stage[p] /\ doc'[p] = doc[p] /\ pc[p] = "prior"
       /\ prior'[p] = IF stage[p] = 1 THEN Nothing ELSE aggregate[<<Catalog(p), stage[p] - 1>>]

Entering(p) ==
  /\ pc[p] = "own" /\ pc'[p] = "guard" /\ aggregate[Place(p)] = Nothing /\ Still(p)
  /\ UNCHANGED aggregate
  /\ overlapped' = IF Company(p) = {} THEN overlapped ELSE overlapped \cup {Place(p)}

Ending(p) ==
  /\ pc[p] = "aggregate" /\ Over(p) /\ UNCHANGED <<evidence, overlapped>>
  /\ aggregate' = [aggregate EXCEPT ![Place(p)] = Written(p)]

LEMMA StageActKinds ==
  ASSUME LedgerInv, StagesOK, NEW p \in Process, StageAct(p)
  PROVE  Passing(p) \/ Entering(p) \/ Ending(p)
<1>. MemoryOK /\ Phases
  BY DEF LedgerInv
<1>1. CASE Outside(p) /\ UNCHANGED <<results, locals, overlapped>>
  BY <1>1, OutsideFacts, BegunNames DEF Unwritten, Passing
<1>2. ASSUME Over(p), UNCHANGED <<aggregate, overlapped>>
      PROVE  Passing(p)
  BY <1>2 DEF Passing, Over, Gone, Inside
<1>3. CASE Crash(p)
  BY <1>2, <1>3, DiedFacts DEF Unwritten
<1>4. CASE Root(p)
  BY <1>2, <1>4, RootFacts DEF Unwritten, Passing, Inside
<1>5. CASE ReadPrior(p)
  BY <1>5, ReadPriorFacts DEF Unwritten, Passing, Inside, Same
<1>6. CASE ReadOwn(p)
  BY <1>2, <1>6, ReadOwnFacts DEF Entering
<1>7. ASSUME pc[p] \in Inside, UNCHANGED <<aggregate, overlapped>>, pc'[p] # "own", Here(p)
      PROVE  Passing(p)
  BY <1>7 DEF Here, Passing
<1>8. ASSUME pc[p] \in Inside, UNCHANGED <<aggregate, overlapped>>, NEW status, NEW why,
             Concluded(p, status, why)
      PROVE  Passing(p)
  BY <1>7, <1>8 DEF Concluded
<1>9. CASE Guard(p) \/ CheckLock(p)
  BY <1>7, <1>8, <1>9, GuardFacts, CheckLockFacts DEF Unwritten, Inside, Still
<1>10. CASE Opening(p) \/ WriteOpening(p) \/ ReadOpening(p)
  BY <1>7, <1>8, <1>10, OpeningFacts, WriteOpeningFacts, ReadOpeningFacts DEF Unwritten, Inside, Still
<1>11. CASE LookForJob(p)
  BY <1>7, <1>8, <1>11, LookForJobFacts DEF Unwritten, Inside, Still
<1>12. CASE Launch(p)
  BY <1>2, <1>7, <1>8, <1>12, LaunchFacts DEF Inside, Still
<1>13. CASE Wait(p)
  BY <1>7, <1>8, <1>13, WaitFacts DEF Unwritten, Inside
<1>14. CASE WriteReceipt(p)
  BY <1>14, WriteReceiptFacts DEF Passing, Inside
<1>15. CASE Promote(p)
  BY <1>7, <1>8, <1>15, PromoteFacts DEF Inside, Still
<1>16. CASE WriteAggregate(p)
  BY <1>16, WriteAggregateFacts DEF Ending
<1>. QED BY <1>1, <1>3, <1>4, <1>5, <1>6, <1>9, <1>10, <1>11, <1>12, <1>13, <1>14, <1>15, <1>16
         DEF StageAct, Inner, StageStep

LEMMA SamePlace ==
  ASSUME NEW q \in Process, doc'[q] = doc[q], stage'[q] = stage[q]
  PROVE  Catalog(q)' = Catalog(q) /\ Place(q)' = Place(q)
BY DEF Catalog, Place

LEMMA RestPlace ==
  ASSUME NEW q \in Process, Rest(q)
  PROVE  /\ pc'[q] = pc[q] /\ stage'[q] = stage[q] /\ prior'[q] = prior[q] /\ outcome'[q] = outcome[q]
         /\ done'[q] = done[q] /\ id'[q] = id[q] /\ doc'[q] = doc[q]
         /\ Catalog(q)' = Catalog(q) /\ Place(q)' = Place(q) /\ NextJob(q)' = NextJob(q)
BY SamePlace DEF Rest, Stay, Same, NextJob

\* An aggregate is only written by who is at its place.
LEMMA EndingWrites ==
  ASSUME LedgerInv, StagesOK, NEW p \in Process, Ending(p)
  PROVE  /\ Place(p) \in Value \X Stage /\ aggregate'[Place(p)] = Written(p)
         /\ \A k \in Value \X Stage : k # Place(p) => aggregate'[k] = aggregate[k]
         /\ overlapped' = overlapped /\ pc[p] \in Inside /\ pc'[p] = "idle"
<1>1. pc[p] \in Begun /\ pc[p] \in Inside /\ pc'[p] = "idle"
  BY DEF Ending, Begun, Inside, Over, Gone
<1>2. Place(p) \in Value \X Stage
  BY <1>1, BegunHas
<1>. QED BY <1>1, <1>2 DEF Ending, StagesOK

\* Who is inside a stage after a step was so before it, or has just come.
LEMMA InsideBefore ==
  ASSUME LedgerInv, StagesOK, NEW p \in Process, StageAct(p),
         NEW q \in Process, pc'[q] \in Inside
  PROVE  /\ Place(q)' = Place(q) /\ Catalog(q)' = Catalog(q)
         /\ stage'[q] = stage[q] /\ prior'[q] = prior[q]
         /\ pc[q] \in Inside \/ (q = p /\ Entering(p))
<1>. MemoryOK
  BY DEF LedgerInv
<1>1. CASE q # p
  BY <1>1, OthersRest, RestPlace
<1>2. CASE q = p
  <2>1. ~Ending(p)
    BY <1>2 DEF Ending, Over, Gone, Inside
  <2>2. CASE Passing(p)
    BY <1>2, <2>2, SamePlace DEF Passing, Same
  <2>3. CASE Entering(p)
    BY <1>2, <2>3, SamePlace DEF Entering, Still, Here, Same
  <2>. QED BY <2>1, <2>2, <2>3, StageActKinds
<1>. QED BY <1>1, <1>2

LEMMA OverlappedGrows ==
  ASSUME LedgerInv, StagesOK, NEW p \in Process, StageAct(p)
  PROVE  overlapped \subseteq overlapped'
BY StageActKinds DEF Passing, Entering, Ending

\* Company is noticed by the one that comes later.
LEMMA AloneStep ==
  ASSUME LedgerInv, StagesOK, Alone, NEW p \in Process, StageAct(p)
  PROVE  Alone'
<1>1. ASSUME NEW x \in Process, NEW q \in Process, x # q,
             pc'[x] \in Inside, pc'[q] \in Inside, Place(q)' = Place(x)'
      PROVE  Place(x)' \in overlapped'
  <2>1. Place(q)' = Place(q) /\ Place(x)' = Place(x) /\ Place(q) = Place(x)
    BY <1>1, InsideBefore
  <2>2. CASE pc[x] \in Inside /\ pc[q] \in Inside
    <3>1. q \in Company(x)
      BY <1>1, <2>1, <2>2 DEF Company
    <3>. QED BY <2>1, <2>2, <3>1, OverlappedGrows DEF Alone, AloneOK
  <2>3. CASE x = p /\ Entering(p)
    <3>1. pc[q] \in Inside
      BY <1>1, <2>3, InsideBefore
    <3>2. q \in Company(p)
      BY <1>1, <2>1, <2>3, <3>1 DEF Company
    <3>. QED BY <2>1, <2>3, <3>2 DEF Entering
  <2>4. CASE q = p /\ Entering(p)
    <3>1. pc[x] \in Inside
      BY <1>1, <2>4, InsideBefore
    <3>2. x \in Company(p)
      BY <1>1, <2>1, <2>4, <3>1 DEF Company
    <3>. QED BY <2>1, <2>4, <3>2 DEF Entering
  <2>. QED BY <1>1, <2>2, <2>3, <2>4, InsideBefore
<1>2. ASSUME NEW x \in Process, pc'[x] \in Inside
      PROVE  Place(x)' \in overlapped' \/ aggregate'[Place(x)'] = Nothing
  <2>1. Place(x)' = Place(x)
    BY <1>2, InsideBefore
  <2>2. CASE x = p /\ Entering(p)
    BY <2>1, <2>2 DEF Entering
  <2>3. CASE pc[x] \in Inside
    <3>1. Place(x) \in overlapped \/ aggregate[Place(x)] = Nothing
      BY <2>3 DEF Alone, AloneOK
    <3>2. CASE aggregate' = aggregate
      BY <2>1, <3>1, <3>2, OverlappedGrows
    <3>3. CASE Ending(p)
      <4>1. x # p
        BY <1>2, <3>3, EndingWrites DEF Inside
      <4>2. CASE Place(x) = Place(p)
        <5>1. x \in Company(p) /\ pc[p] \in Inside
          BY <2>3, <3>3, <4>1, <4>2, EndingWrites DEF Company
        <5>. QED BY <2>1, <4>2, <5>1, OverlappedGrows DEF Alone, AloneOK
      <4>3. CASE Place(x) # Place(p)
        <5>1. Place(x) \in Value \X Stage
          BY <2>3, BegunHas, BegunNames
        <5>. QED BY <2>1, <3>1, <3>3, <4>3, <5>1, EndingWrites
      <4>. QED BY <4>2, <4>3
    <3>. QED BY <3>2, <3>3, StageActKinds DEF Passing, Entering
  <2>. QED BY <1>2, <2>2, <2>3, InsideBefore
<1>3. ASSUME NEW x \in Process
      PROVE  AloneOK(x)'
  BY <1>1, <1>2 DEF AloneOK, Company
<1>. QED BY <1>3 DEF Alone


\* What was read of the stage before is only lost to a second runner of that stage.
LEMMA PriorStep ==
  ASSUME LedgerInv, StagesOK, Alone, PriorStands, NEW p \in Process, StageAct(p)
  PROVE  PriorStands'
<1>. MemoryOK /\ overlapped \subseteq overlapped'
  BY OverlappedGrows DEF LedgerInv
<1>1. ASSUME NEW x \in Process, pc'[x] \in Inside \cup {"own"}, prior'[x] # Nothing
      PROVE  /\ stage'[x] > 1
             /\ \/ <<Catalog(x)', stage'[x] - 1>> \in overlapped'
                \/ aggregate'[<<Catalog(x)', stage'[x] - 1>>] = prior'[x]
  <2>1. CASE x = p /\ Passing(p) /\ pc'[p] = "own"
    <3>1. /\ stage'[x] = stage[x] /\ Catalog(x)' = Catalog(x) /\ UNCHANGED aggregate
          /\ prior'[x] = IF stage[x] = 1 THEN Nothing ELSE aggregate[<<Catalog(x), stage[x] - 1>>]
      BY <2>1, SamePlace DEF Passing
    <3>2. stage[x] > 1
      BY <1>1, <3>1, NoFile DEF StagesOK, Stage
    <3>. QED BY <1>1, <3>1, <3>2
  <2>2. CASE ~(x = p /\ Passing(p) /\ pc'[p] = "own")
    <3>1. /\ stage'[x] = stage[x] /\ prior'[x] = prior[x] /\ Catalog(x)' = Catalog(x)
          /\ pc[x] \in Inside \cup {"own"} /\ ~(x = p /\ Ending(p))
      <4>1. CASE x # p
        BY <1>1, <4>1, OthersRest, RestPlace
      <4>2. CASE x = p /\ pc'[x] \in Inside
        BY <4>2, InsideBefore DEF Entering, Ending, Over, Gone, Inside
      <4>3. CASE x = p /\ pc'[x] = "own"
        BY <2>2, <4>3, StageActKinds DEF Entering, Ending, Over, Gone
      <4>. QED BY <1>1, <4>1, <4>2, <4>3
    <3>2. /\ stage[x] > 1
          /\ \/ <<Catalog(x), stage[x] - 1>> \in overlapped
             \/ aggregate[<<Catalog(x), stage[x] - 1>>] = prior[x]
      BY <1>1, <3>1 DEF PriorStands, PriorOK
    <3>3. CASE aggregate' = aggregate
      BY <3>1, <3>2, <3>3
    <3>4. CASE Ending(p)
      <4>1. <<Catalog(x), stage[x] - 1>> \in Value \X Stage
        BY <3>1, <3>2, BegunHas, BegunNames, StageBefore
      <4>2. CASE <<Catalog(x), stage[x] - 1>> = Place(p)
        <5>1. Place(p) \in overlapped \/ aggregate[Place(p)] = Nothing
          BY <3>4, EndingWrites DEF Alone, AloneOK
        <5>. QED BY <1>1, <3>1, <3>2, <4>2, <5>1
      <4>3. CASE <<Catalog(x), stage[x] - 1>> # Place(p)
        BY <3>1, <3>2, <3>4, <4>1, <4>3, EndingWrites
      <4>. QED BY <4>2, <4>3
    <3>. QED BY <3>3, <3>4, StageActKinds DEF Passing, Entering
  <2>. QED BY <2>1, <2>2
<1>2. ASSUME NEW x \in Process
      PROVE  PriorOK(x)'
  BY <1>1 DEF PriorOK
<1>. QED BY <1>2 DEF PriorStands

LEMMA WrittenIs ==
  ASSUME LedgerInv, StagesOK, NEW p \in Process, pc[p] = "aggregate"
  PROVE  Written(p) \in Aggregate /\ Written(p) # Nothing
<1>1. /\ outcome[p].status \in Verdict /\ outcome[p].why \in {"", "exists", "other"}
  BY DEF StagesOK, Outcome
<1>2. id[p] \in Manifest /\ doc[p].seen["aside"] \in Value
  BY BegunHas DEF Begun, Inside
<1>3. Written(p) \in Aggregate
  BY <1>1, <1>2 DEF Written, Aggregate, Identity
<1>. QED BY <1>3, NoFile

\* The stage that ends well relied on the one before, and nobody relies on one that
\* ends while it is alone.
LEMMA ChainedStep ==
  ASSUME LedgerInv, StagesOK, Alone, PriorStands, Guarded, Chained, NEW p \in Process, StageAct(p)
  PROVE  Chained'
<1>. MemoryOK /\ overlapped \subseteq overlapped'
  BY OverlappedGrows DEF LedgerInv
<1>1. CASE aggregate' = aggregate
  BY <1>1 DEF Chained, Good
<1>2. CASE Ending(p)
  <2>. DEFINE K == Place(p)
  <2>1. /\ K \in Value \X Stage /\ aggregate'[K] = Written(p) /\ overlapped' = overlapped
        /\ \A k \in Value \X Stage : k # K => aggregate'[k] = aggregate[k]
        /\ pc[p] \in Inside /\ pc[p] = "aggregate" /\ K = <<Catalog(p), stage[p]>>
    BY <1>2, EndingWrites DEF Ending, Place
  <2>2. SUFFICES ASSUME NEW v \in Value, NEW s \in Stage \ {1},
                        aggregate'[<<v, s>>] # Nothing, Good(aggregate'[<<v, s>>], s),
                        <<v, s - 1>> \notin overlapped
                 PROVE  /\ aggregate'[<<v, s - 1>>] # Nothing
                        /\ Good(aggregate'[<<v, s - 1>>], s - 1)
                        /\ aggregate'[<<v, s - 1>>].manifest = aggregate'[<<v, s>>].manifest
                        /\ aggregate'[<<v, s - 1>>].aside = aggregate'[<<v, s>>].aside
    BY <2>1 DEF Chained, Good
  <2>3. s - 1 \in Stage /\ s - 1 # s /\ s > 1
    BY StageBefore, NoFile DEF Stage
  <2>4. CASE <<v, s>> = K
    <3>1. v = Catalog(p) /\ s = stage[p] /\ <<v, s - 1>> # K
      BY <2>1, <2>3, <2>4
    <3>2. aggregate'[<<v, s - 1>>] = aggregate[<<v, s - 1>>]
      BY <2>1, <2>3, <3>1
    <3>3. /\ aggregate'[<<v, s>>].status = outcome[p].status
          /\ aggregate'[<<v, s>>].manifest = id[p]
          /\ aggregate'[<<v, s>>].aside = doc[p].seen["aside"]
      BY <2>1, <2>4 DEF Written
    <3>4. outcome[p].status # "BLOCKED"
      BY <2>2, <3>3 DEF Good
    <3>5. Preceded(p)
      BY <2>1, <3>4 DEF Guarded, GuardOK
    <3>6. /\ prior[p] # Nothing /\ prior[p].manifest = id[p]
          /\ prior[p].aside = doc[p].seen["aside"] /\ Good(prior[p], s - 1)
      BY <2>3, <3>1, <3>5 DEF Preceded, Good
    <3>7. aggregate[<<v, s - 1>>] = prior[p]
      BY <2>1, <2>2, <3>1, <3>6 DEF PriorStands, PriorOK
    <3>. QED BY <3>2, <3>3, <3>6, <3>7
  <2>5. CASE <<v, s>> # K
    <3>1. aggregate'[<<v, s>>] = aggregate[<<v, s>>]
      BY <2>1, <2>5
    <3>2. /\ aggregate[<<v, s - 1>>] # Nothing
          /\ Good(aggregate[<<v, s - 1>>], s - 1)
          /\ aggregate[<<v, s - 1>>].manifest = aggregate[<<v, s>>].manifest
          /\ aggregate[<<v, s - 1>>].aside = aggregate[<<v, s>>].aside
      BY <2>2, <3>1 DEF Chained
    <3>3. <<v, s - 1>> # K
      BY <2>1, <2>2, <3>2 DEF Alone, AloneOK
    <3>4. aggregate'[<<v, s - 1>>] = aggregate[<<v, s - 1>>]
      BY <2>1, <2>3, <3>3
    <3>. QED BY <3>1, <3>2, <3>4
  <2>. QED BY <2>4, <2>5
<1>. QED BY <1>1, <1>2, StageActKinds DEF Passing, Entering

\* An aggregate that is replaced was reached by two runners.
LEMMA LastsStep ==
  ASSUME LedgerInv, StagesOK, Alone, NEW p \in Process, StageAct(p),
         NEW k \in Value \X Stage, aggregate[k] # Nothing, k \notin overlapped'
  PROVE  aggregate'[k] = aggregate[k]
<1>1. CASE Ending(p)
  BY <1>1, EndingWrites DEF Alone, AloneOK
<1>. QED BY <1>1, StageActKinds DEF Passing, Entering
-------------------------------------------------------------------------------
\* Guards and verdicts

LEMMA GuardStep ==
  ASSUME LedgerInv, StagesOK, Guarded, Receipts, NEW p \in Process, StageAct(p)
  PROVE  GuardOK(p)'
<1>. MemoryOK /\ Phases
  BY DEF LedgerInv
<1>0. stage[p] \in Stage /\ Jobs[1] = 0 /\ Jobs[2] = 0
  BY NoFile DEF StagesOK
<1>1. ASSUME pc'[p] \notin Inside
      PROVE  GuardOK(p)'
  BY <1>1 DEF GuardOK, Inside
<1>2. ASSUME Here(p)
      PROVE  Preceded(p)' = Preceded(p)
  BY <1>2 DEF Here, Same, Preceded
<1>3. ASSUME NEW why, Concluded(p, "BLOCKED", why)
      PROVE  GuardOK(p)'
  BY <1>3 DEF Concluded, GuardOK, Ended, Inside
<1>4. ASSUME NEW status \in Verdict, NEW why, Concluded(p, status, why), Preceded(p),
             status = "PARTIAL_HOLD" => stage[p] = 2
      PROVE  GuardOK(p)'
  BY <1>2, <1>4 DEF Concluded, GuardOK, Ended, Inside, Here
<1>5. ASSUME Here(p), Preceded(p), pc'[p] \in Inside \ {"opening", "open it", "reread", "lock", "aggregate"}
      PROVE  GuardOK(p)'
  BY <1>2, <1>5 DEF GuardOK, Inside
<1>6. CASE Outside(p) /\ UNCHANGED <<results, locals, overlapped>>
  BY <1>1, <1>6, OutsideFacts, BegunNames
<1>7. CASE Crash(p)
  BY <1>1, <1>7, DiedFacts DEF Over, Gone, Inside
<1>8. CASE Root(p) \/ ReadPrior(p)
  BY <1>1, <1>8, RootFacts, ReadPriorFacts DEF Over, Gone, Inside
<1>9. CASE ReadOwn(p)
  BY <1>1, <1>9, ReadOwnFacts DEF Over, Gone, Inside, GuardOK
<1>10. CASE Guard(p)
  <2>1. CASE /\ Preceded(p) /\ Implemented(stage[p]) /\ Still(p)
             /\ pc'[p] = IF stage[p] = 2 THEN "lock" ELSE "opening"
    BY <1>2, <2>1 DEF GuardOK, Inside, Implemented, Still, Here
  <2>. QED BY <1>3, <1>10, <2>1, GuardFacts
<1>11. CASE CheckLock(p)
  BY <1>3, <1>4, <1>11, CheckLockFacts DEF Guarded, GuardOK, Inside, Verdict
<1>12. CASE Opening(p) \/ WriteOpening(p)
  <2>1. Preceded(p) /\ (stage[p] = 1 \/ Jobs[stage[p]] > 0)
    BY <1>12, OpeningFacts, WriteOpeningFacts DEF Guarded, GuardOK, Inside
  <2>2. ASSUME Still(p), pc'[p] \in {"open it", "reread"}
        PROVE  GuardOK(p)'
    BY <1>2, <2>1, <2>2 DEF GuardOK, Inside, Still, Here
  <2>. QED BY <1>3, <1>12, <2>2, OpeningFacts, WriteOpeningFacts
<1>13. CASE ReadOpening(p)
  BY <1>3, <1>4, <1>5, <1>13, ReadOpeningFacts DEF Guarded, GuardOK, Inside, Verdict, Still
<1>14. CASE LookForJob(p)
  BY <1>3, <1>5, <1>14, LookForJobFacts DEF Guarded, GuardOK, Inside, Still
<1>15. CASE Launch(p)
  BY <1>1, <1>3, <1>5, <1>15, LaunchFacts DEF Guarded, GuardOK, Inside, Still, Over, Gone
<1>16. CASE Wait(p)
  BY <1>3, <1>5, <1>16, WaitFacts DEF Guarded, GuardOK, Inside
<1>17. CASE WriteReceipt(p)
  <2>1. Preceded(p)
    BY <1>17, WriteReceiptFacts DEF Guarded, GuardOK, Inside
  <2>2. /\ pc'[p] \in {"aggregate", "job", "promote"} /\ Same(p) /\ stage'[p] = stage[p]
        /\ outcome'[p] = outcome[p] /\ prior'[p] = prior[p] /\ pc[p] = "receipt"
    BY <1>17, WriteReceiptFacts
  <2>3. Preceded(p)'
    BY <2>1, <2>2 DEF Preceded, Same
  <2>4. outcome[p].status \in {"PASS", "FAIL"}
    BY <2>2 DEF Receipts, ReceiptOK
  <2>. QED BY <2>2, <2>3, <2>4 DEF GuardOK, Inside
<1>18. CASE Promote(p)
  <2>1. CASE pc'[p] = "aggregate" /\ Still(p)
    <3>1. Preceded(p) /\ outcome[p].status = "PASS"
      BY <1>18, PromoteFacts DEF Guarded, GuardOK, Inside, Receipts, ReceiptOK
    <3>. QED BY <1>2, <2>1, <3>1 DEF GuardOK, Inside, Still, Here
  <2>. QED BY <1>3, <1>18, <2>1, PromoteFacts
<1>19. CASE WriteAggregate(p)
  BY <1>1, <1>19, WriteAggregateFacts DEF Over, Gone, Inside
<1>. QED BY <1>6, <1>7, <1>8, <1>9, <1>10, <1>11, <1>12, <1>13, <1>14, <1>15, <1>16, <1>17, <1>18,
            <1>19 DEF StageAct, Inner, StageStep

-------------------------------------------------------------------------------
\* Logs and receipts

\* What is there stays, but for the log of a job whose receipt is written.
LEMMA EvidenceStays ==
  ASSUME LedgerInv, StagesOK, Receipts, NEW p \in Process, StageAct(p),
         NEW k \in Value \X Job, evidence[k] # Nothing
  PROVE  evidence'[k] = evidence[k] \/ (evidence[k] = Log /\ pc[p] = "receipt" /\ k = NextJob(p))
<1>. MemoryOK /\ Phases
  BY DEF LedgerInv
<1>1. CASE evidence' = evidence
  BY <1>1
<1>2. CASE Launch(p)
  BY <1>2, LaunchFacts DEF StagesOK
<1>3. CASE WriteReceipt(p)
  <2>1. pc[p] = "receipt" /\ evidence[NextJob(p)] = Log
    BY <1>3, WriteReceiptFacts DEF Receipts, ReceiptOK
  <2>. QED BY <1>3, <2>1, WriteReceiptFacts DEF StagesOK
<1>4. CASE Outside(p) /\ UNCHANGED <<results, locals, overlapped>>
  BY <1>1, <1>4 DEF results
<1>5. CASE Crash(p)
  BY <1>1, <1>5, DiedFacts DEF Unwritten
<1>6. CASE Root(p) \/ ReadPrior(p) \/ ReadOwn(p) \/ Guard(p) \/ CheckLock(p)
  BY <1>1, <1>6, RootFacts, ReadPriorFacts, ReadOwnFacts, GuardFacts, CheckLockFacts DEF Unwritten
<1>7. CASE Opening(p) \/ WriteOpening(p) \/ ReadOpening(p)
  BY <1>1, <1>7, OpeningFacts, WriteOpeningFacts, ReadOpeningFacts DEF Unwritten
<1>8. CASE LookForJob(p) \/ Wait(p) \/ Promote(p) \/ WriteAggregate(p)
  BY <1>1, <1>8, LookForJobFacts, WaitFacts, PromoteFacts, WriteAggregateFacts DEF Unwritten
<1>. QED BY <1>2, <1>3, <1>4, <1>5, <1>6, <1>7, <1>8 DEF StageAct, Inner, StageStep

Pass(m) == [status |-> "PASS", manifest |-> m]

LEMMA PassIs ==
  ASSUME NEW m \in Manifest
  PROVE  Pass(m) # Nothing /\ Pass(m) # Log
<1>1. Pass(m) \in Receipt
  BY DEF Pass, Receipt, Identity
<1>. QED BY <1>1, NoFile DEF Pass, Log

LEMMA PassStays ==
  ASSUME LedgerInv, StagesOK, Receipts, NEW p \in Process, StageAct(p),
         NEW k \in Value \X Job, NEW m \in Manifest, evidence[k] = Pass(m)
  PROVE  evidence'[k] = Pass(m)
BY EvidenceStays, PassIs

\* The receipts of the jobs that a runner has been through.
HasReceipts(p) ==
  \A j \in 1..Jobs[stage[p]] : j <= done[p] =>
    evidence[<<Catalog(p), <<stage[p], j>>>>] = Pass(id[p])

LEMMA ReceiptsStay ==
  ASSUME LedgerInv, StagesOK, Receipts, NEW p \in Process, StageAct(p),
         NEW q \in Process, pc[q] \in Begun, HasReceipts(q),
         Same(q), stage'[q] = stage[q],
         NEW j \in 1..Jobs[stage[q]], j <= done[q]
  PROVE  evidence'[<<Catalog(q)', <<stage'[q], j>>>>] = Pass(id'[q])
<1>1. Catalog(q) \in Value /\ stage[q] \in Stage /\ id[q] \in Manifest
  BY BegunHas
<1>2. Catalog(q)' = Catalog(q) /\ id'[q] = id[q]
  BY SamePlace DEF Same
<1>3. <<Catalog(q), <<stage[q], j>>>> \in Value \X Job
  BY <1>1, JobIn
<1>4. evidence[<<Catalog(q), <<stage[q], j>>>>] = Pass(id[q])
  BY DEF HasReceipts
<1>5. evidence'[<<Catalog(q), <<stage[q], j>>>>] = Pass(id[q])
  BY <1>1, <1>3, <1>4, PassStays
<1>. QED BY <1>2, <1>5

\* The invariant of a runner, by its parts.
LEMMA ReceiptParts ==
  ASSUME NEW p \in Process
  PROVE  ReceiptOK(p) <=>
           /\ pc[p] \in InJob => done[p] < Jobs[stage[p]]
           /\ pc[p] \in {"wait", "receipt"} => evidence[NextJob(p)] = Log
           /\ pc[p] = "receipt" => outcome[p].status \in {"PASS", "FAIL"}
           /\ pc[p] \notin InJob \cup {"promote", "aggregate"} => done[p] = 0
           /\ pc[p] = "promote" => outcome[p].status = "PASS" /\ done[p] = Jobs[stage[p]]
           /\ (pc[p] = "aggregate" /\ outcome[p].status = "PASS") => done[p] = Jobs[stage[p]]
           /\ (pc[p] \in InJob \cup {"promote"} \/ (pc[p] = "aggregate" /\ outcome[p].status = "PASS"))
                => HasReceipts(p)
BY DEF ReceiptOK, HasReceipts, Pass

LEMMA ReceiptOthers ==
  ASSUME LedgerInv, StagesOK, Receipts, OneRunner, NEW p \in Process, StageAct(p),
         NEW q \in Process, q # p
  PROVE  ReceiptOK(q)'
<1>. MemoryOK
  BY DEF LedgerInv
<1>1. /\ pc'[q] = pc[q] /\ stage'[q] = stage[q] /\ done'[q] = done[q] /\ outcome'[q] = outcome[q]
      /\ NextJob(q)' = NextJob(q) /\ Same(q)
  BY OthersRest, RestPlace DEF Rest, Stay
<1>2. ReceiptOK(q)
  BY DEF Receipts
<1>3. CASE pc[q] \in InJob \cup {"promote"} \/ (pc[q] = "aggregate" /\ outcome[q].status = "PASS")
  <2>1. pc[q] \in Begun /\ HasReceipts(q)
    BY <1>2, <1>3, ReceiptParts DEF Begun, Inside, InJob
  <2>2. HasReceipts(q)'
    BY <1>1, <2>1, ReceiptsStay DEF HasReceipts, Pass
  <2>3. CASE pc[q] \in {"wait", "receipt"}
    <3>1. NextJob(q) \in Value \X Job /\ evidence[NextJob(q)] = Log
      BY <1>2, <2>1, <2>3, NextJobIn, ReceiptParts DEF InJob
    <3>2. ~(pc[p] = "receipt" /\ NextJob(q) = NextJob(p))
      BY <2>3 DEF OneRunner
    <3>3. evidence'[NextJob(q)] = Log
      BY <3>1, <3>2, EvidenceStays, NoFile
    <3>. QED BY <1>1, <1>2, <2>2, <3>3 DEF ReceiptOK, HasReceipts, Pass
  <2>4. CASE pc[q] \notin {"wait", "receipt"}
    BY <1>1, <1>2, <2>2, <2>4 DEF ReceiptOK, HasReceipts, Pass
  <2>. QED BY <2>3, <2>4
<1>4. CASE ~(pc[q] \in InJob \cup {"promote"} \/ (pc[q] = "aggregate" /\ outcome[q].status = "PASS"))
  BY <1>1, <1>2, <1>4 DEF ReceiptOK, InJob
<1>. QED BY <1>3, <1>4

LEMMA ReceiptStep ==
  ASSUME LedgerInv, StagesOK, Receipts, Guarded, NEW p \in Process, StageAct(p)
  PROVE  ReceiptOK(p)'
<1>. MemoryOK /\ Phases
  BY DEF LedgerInv
<1>0. /\ stage[p] \in Stage /\ done[p] \in Nat /\ Jobs[1] = 0 /\ Jobs[stage[p]] \in Nat
      /\ ReceiptOK(p)
  BY NoFile DEF StagesOK, Receipts
<1>1. ASSUME pc'[p] \notin InJob \cup {"promote", "aggregate"}, done'[p] = 0
      PROVE  ReceiptOK(p)'
  BY <1>1 DEF ReceiptOK, InJob
<1>2. ASSUME NEW why, NEW status \in {"BLOCKED", "PARTIAL_HOLD"}, Concluded(p, status, why)
      PROVE  ReceiptOK(p)'
  BY <1>2 DEF ReceiptOK, InJob, Concluded, Ended
<1>3. ASSUME Over(p)
      PROVE  ReceiptOK(p)'
  BY <1>1, <1>3 DEF Over, Gone, InJob
<1>4. ASSUME pc[p] \notin InJob \cup {"promote", "aggregate"}
      PROVE  done[p] = 0
  BY <1>0, <1>4 DEF ReceiptOK
<1>5. ASSUME pc[p] \in InJob \cup {"promote"}, Here(p)
      PROVE  HasReceipts(p)'
  <2>1. pc[p] \in Begun /\ HasReceipts(p)
    BY <1>0, <1>5, ReceiptParts DEF Begun, Inside, InJob
  <2>. QED BY <1>5, <2>1, ReceiptsStay DEF HasReceipts, Here, Pass
<1>6. CASE Outside(p) /\ UNCHANGED <<results, locals, overlapped>>
  <2>1. pc[p] \notin Begun /\ pc'[p] \notin Begun \ {"root"} /\ done'[p] = done[p]
    BY <1>6, OutsideFacts
  <2>. QED BY <1>1, <1>4, <2>1 DEF Begun, Inside, InJob
<1>7. CASE Crash(p)
  BY <1>3, <1>7, DiedFacts
<1>8. CASE Root(p) \/ ReadPrior(p) \/ ReadOwn(p)
  BY <1>1, <1>3, <1>4, <1>8, RootFacts, ReadPriorFacts, ReadOwnFacts DEF InJob, Still, Here
<1>9. CASE Guard(p) \/ CheckLock(p)
  BY <1>1, <1>2, <1>4, <1>9, GuardFacts, CheckLockFacts DEF InJob, Still, Here
<1>10. CASE Opening(p) \/ WriteOpening(p)
  BY <1>1, <1>2, <1>4, <1>10, OpeningFacts, WriteOpeningFacts DEF InJob, Still, Here
<1>11. CASE ReadOpening(p)
  <2>1. pc[p] = "reread" /\ done[p] = 0
    BY <1>4, <1>11, ReadOpeningFacts DEF InJob
  <2>2. CASE Concluded(p, "BLOCKED", "other")
    BY <1>2, <2>2
  <2>3. CASE stage[p] = 1 /\ Concluded(p, "PASS", "")
    <3>1. stage'[p] = 1 /\ done'[p] = 0 /\ pc'[p] = "aggregate"
      BY <2>1, <2>3 DEF Concluded, Here
    <3>2. Jobs[stage'[p]] = 0 /\ \A j \in 1..0 : FALSE
      BY <1>0, <3>1
    <3>3. HasReceipts(p)'
      BY <3>2 DEF HasReceipts
    <3>4. ReceiptOK(p)' <=> (outcome'[p].status = "PASS" => done'[p] = Jobs[stage'[p]] /\ HasReceipts(p)')
      BY <3>1 DEF ReceiptOK, HasReceipts, Pass, InJob
    <3>. QED BY <3>1, <3>2, <3>3, <3>4
  <2>4. CASE stage[p] # 1 /\ pc'[p] = "job" /\ Still(p)
    <3>1. Jobs[stage[p]] > 0
      BY <2>1, <2>4 DEF Guarded, GuardOK
    <3>. QED BY <1>0, <2>1, <2>4, <3>1 DEF ReceiptOK, InJob, Still, Here
  <2>. QED BY <1>11, <2>2, <2>3, <2>4, ReadOpeningFacts
<1>12. CASE LookForJob(p)
  <2>1. CASE pc'[p] = "launch" /\ Still(p)
    <3>1. pc[p] = "job" /\ done[p] < Jobs[stage[p]]
      BY <1>0, <1>12, LookForJobFacts DEF ReceiptOK, InJob
    <3>2. HasReceipts(p)'
      BY <1>5, <2>1, <3>1 DEF InJob, Still
    <3>. QED BY <2>1, <3>1, <3>2 DEF ReceiptOK, HasReceipts, Pass, InJob, Still, Here
  <2>. QED BY <1>2, <1>12, <2>1, LookForJobFacts
<1>13. CASE Launch(p)
  <2>1. CASE /\ evidence' = [evidence EXCEPT ![NextJob(p)] = Log]
             /\ pc'[p] = "wait" /\ Still(p)
    <3>1. pc[p] = "launch" /\ done[p] < Jobs[stage[p]]
      BY <1>0, <1>13, LaunchFacts DEF ReceiptOK, InJob
    <3>2. HasReceipts(p)'
      BY <1>5, <2>1, <3>1 DEF InJob, Still
    <3>3. NextJob(p) \in Value \X Job
      BY <3>1, NextJobIn DEF Begun, Inside
    <3>4. NextJob(p)' = NextJob(p)
      BY <2>1, SamePlace DEF NextJob, Still, Here, Same
    <3>5. evidence'[NextJob(p)'] = Log
      BY <2>1, <3>3, <3>4 DEF StagesOK
    <3>. QED BY <2>1, <3>1, <3>2, <3>5 DEF ReceiptOK, HasReceipts, Pass, InJob, Still, Here
  <2>. QED BY <1>2, <1>3, <1>13, <2>1, LaunchFacts
<1>14. CASE Wait(p)
  <2>1. ASSUME pc'[p] = "receipt", Here(p),
               NEW verdict \in {"PASS", "FAIL"}, outcome'[p] = Ended(verdict, "")
        PROVE  ReceiptOK(p)'
    <3>1. pc[p] = "wait" /\ done[p] < Jobs[stage[p]] /\ evidence[NextJob(p)] = Log
      BY <1>0, <1>14, WaitFacts DEF ReceiptOK, InJob
    <3>2. HasReceipts(p)'
      BY <1>5, <2>1, <3>1 DEF InJob
    <3>3. NextJob(p)' = NextJob(p) /\ evidence' = evidence
      BY <1>14, <2>1, SamePlace, WaitFacts DEF NextJob, Here, Same, Unwritten
    <3>4. evidence'[NextJob(p)'] = Log
      BY <3>1, <3>3
    <3>5. outcome'[p].status = verdict
      <4>1. outcome'[p] = Ended(verdict, "")
        BY <2>1
      <4>2. Ended(verdict, "").status = verdict
        BY DEF Ended
      <4>. QED BY <4>1, <4>2
    <3>. QED BY <2>1, <3>1, <3>2, <3>4, <3>5 DEF ReceiptOK, HasReceipts, Pass, InJob, Here
  <2>. QED BY <1>2, <1>14, <2>1, WaitFacts
<1>15. CASE WriteReceipt(p)
  <2>1. /\ pc[p] = "receipt" /\ done[p] < Jobs[stage[p]] /\ pc[p] \in Begun
        /\ outcome[p].status \in {"PASS", "FAIL"} /\ HasReceipts(p)
    BY <1>0, <1>15, WriteReceiptFacts, ReceiptParts DEF InJob, Begun, Inside
  <2>2. /\ Same(p) /\ stage'[p] = stage[p] /\ outcome'[p] = outcome[p] /\ done'[p] = done[p] + 1
        /\ evidence' = [evidence EXCEPT ![NextJob(p)] =
                          [status |-> outcome[p].status, manifest |-> id[p]]]
        /\ pc'[p] = IF outcome[p].status = "FAIL" THEN "aggregate"
                    ELSE IF done[p] + 1 < Jobs[stage[p]] THEN "job"
                    ELSE IF stage[p] = 3 THEN "promote" ELSE "aggregate"
    BY <1>15, WriteReceiptFacts
  <2>3. CASE outcome[p].status = "FAIL"
    BY <2>2, <2>3 DEF ReceiptOK, InJob
  <2>4. CASE outcome[p].status = "PASS"
    <3>1. NextJob(p) \in Value \X Job /\ NextJob(p) = <<Catalog(p), <<stage[p], done[p] + 1>>>>
      BY <2>1, NextJobIn
    <3>2. Catalog(p)' = Catalog(p) /\ id'[p] = id[p]
      BY <2>2, SamePlace DEF Same
    <3>3. evidence'[<<Catalog(p), <<stage[p], done[p] + 1>>>>] = Pass(id[p])
      BY <2>2, <2>4, <3>1 DEF StagesOK, Pass
    <3>4. ASSUME NEW j \in 1..Jobs[stage[p]], j <= done[p] + 1
          PROVE  evidence'[<<Catalog(p), <<stage[p], j>>>>] = Pass(id[p])
      <4>1. CASE j <= done[p]
        BY <2>1, <2>2, <3>2, <4>1, ReceiptsStay
      <4>2. CASE j = done[p] + 1
        BY <3>3, <4>2
      <4>. QED BY <1>0, <3>4, <4>1, <4>2
    <3>5. HasReceipts(p)'
      BY <2>2, <3>2, <3>4 DEF HasReceipts, Pass
    <3>6. /\ pc'[p] \in {"job", "promote", "aggregate"}
          /\ pc'[p] = "job" => done'[p] < Jobs[stage[p]]
          /\ pc'[p] # "job" => done'[p] = Jobs[stage[p]]
      BY <1>0, <2>1, <2>2, <2>4
    <3>. QED BY <2>2, <2>4, <3>5, <3>6 DEF ReceiptOK, HasReceipts, Pass, InJob
  <2>. QED BY <2>1, <2>3, <2>4
<1>16. CASE Promote(p)
  <2>1. CASE pc'[p] = "aggregate" /\ Still(p)
    <3>1. pc[p] = "promote" /\ done[p] = Jobs[stage[p]]
      BY <1>0, <1>16, PromoteFacts DEF ReceiptOK
    <3>2. HasReceipts(p)'
      BY <1>5, <2>1, <3>1 DEF Still
    <3>. QED BY <2>1, <3>1, <3>2 DEF ReceiptOK, HasReceipts, Pass, InJob, Still, Here
  <2>. QED BY <1>2, <1>16, <2>1, PromoteFacts
<1>17. CASE WriteAggregate(p)
  BY <1>3, <1>17, WriteAggregateFacts
<1>. QED BY <1>6, <1>7, <1>8, <1>9, <1>10, <1>11, <1>12, <1>13, <1>14, <1>15, <1>16, <1>17
         DEF StageAct, Inner, StageStep


\* A second process does not get past the exclusive creation of the log.
LEMMA OneRunnerStep ==
  ASSUME LedgerInv, StagesOK, Receipts, OneRunner, NEW p \in Process, StageAct(p)
  PROVE  OneRunner'
<1>. MemoryOK /\ Phases
  BY DEF LedgerInv
<1>1. ASSUME NEW q \in Process, pc'[q] \in {"wait", "receipt"}
      PROVE  /\ NextJob(q)' = NextJob(q) /\ pc[q] \in Begun /\ done[q] < Jobs[stage[q]]
             /\ \/ pc[q] \in {"wait", "receipt"}
                \/ q = p /\ pc[p] = "launch" /\ evidence[NextJob(p)] = Nothing
  <2>1. CASE q # p
    <3>1. pc[q] = pc'[q] /\ NextJob(q)' = NextJob(q)
      BY <2>1, OthersRest, RestPlace
    <3>. QED BY <1>1, <3>1 DEF Receipts, ReceiptOK, InJob, Begun, Inside
  <2>2. CASE q = p
    <3>1. \/ /\ pc[p] = "launch" /\ evidence[NextJob(p)] = Nothing /\ Here(p)
          \/ pc[p] = "wait" /\ Here(p)
      <4>1. CASE Outside(p) /\ UNCHANGED <<results, locals, overlapped>>
        BY <1>1, <2>2, <4>1, OutsideFacts DEF Begun, Inside
      <4>2. CASE Crash(p) \/ WriteAggregate(p)
        BY <1>1, <2>2, <4>2, DiedFacts, WriteAggregateFacts DEF Over, Gone
      <4>3. CASE Root(p) \/ ReadPrior(p) \/ ReadOwn(p)
        BY <1>1, <2>2, <4>3, RootFacts, ReadPriorFacts, ReadOwnFacts DEF Over, Gone
      <4>4. CASE Guard(p) \/ CheckLock(p)
        BY <1>1, <2>2, <4>4, GuardFacts, CheckLockFacts DEF Concluded
      <4>5. CASE Opening(p) \/ WriteOpening(p) \/ ReadOpening(p)
        BY <1>1, <2>2, <4>5, OpeningFacts, WriteOpeningFacts, ReadOpeningFacts DEF Concluded
      <4>6. CASE LookForJob(p) \/ Promote(p)
        BY <1>1, <2>2, <4>6, LookForJobFacts, PromoteFacts DEF Concluded
      <4>7. CASE Launch(p)
        BY <1>1, <2>2, <4>7, LaunchFacts DEF Over, Gone, Concluded, Still
      <4>8. CASE Wait(p)
        BY <1>1, <2>2, <4>8, WaitFacts DEF Concluded
      <4>9. CASE WriteReceipt(p)
        BY <1>1, <2>2, <4>9, WriteReceiptFacts
      <4>. QED BY <4>1, <4>2, <4>3, <4>4, <4>5, <4>6, <4>7, <4>8, <4>9
               DEF StageAct, Inner, StageStep
    <3>2. NextJob(p)' = NextJob(p)
      BY <3>1, SamePlace DEF Here, Same, NextJob
    <3>. QED BY <2>2, <3>1, <3>2 DEF Receipts, ReceiptOK, InJob, Begun, Inside
  <2>. QED BY <2>1, <2>2
<1>2. ASSUME NEW q \in Process, pc[q] \in {"wait", "receipt"}
      PROVE  evidence[NextJob(q)] # Nothing
  BY <1>2, NoFile DEF Receipts, ReceiptOK
<1>3. ASSUME NEW q \in Process, NEW r \in Process, pc'[q] \in {"wait", "receipt"},
             pc'[r] \in {"wait", "receipt"}, NextJob(q)' = NextJob(r)'
      PROVE  q = r
  <2>1. NextJob(q) = NextJob(r)
    BY <1>1, <1>3
  <2>2. CASE pc[q] \in {"wait", "receipt"} /\ pc[r] \in {"wait", "receipt"}
    BY <2>1, <2>2 DEF OneRunner
  <2>. QED BY <1>1, <1>2, <1>3, <2>1, <2>2
<1>. QED BY <1>3 DEF OneRunner

LEMMA BackedStep ==
  ASSUME LedgerInv, StagesOK, Receipts, EvidenceBacked, NEW p \in Process, StageAct(p)
  PROVE  EvidenceBacked'
<1>1. SUFFICES ASSUME NEW v \in Value, NEW s \in Stage, aggregate'[<<v, s>>] # Nothing,
                      aggregate'[<<v, s>>].status = "PASS", NEW j \in 1..Jobs[s]
               PROVE  evidence'[<<v, <<s, j>>>>] = Pass(aggregate'[<<v, s>>].manifest)
  BY DEF EvidenceBacked, Pass
<1>2. <<v, <<s, j>>>> \in Value \X Job
  BY JobIn
<1>3. CASE aggregate'[<<v, s>>] = aggregate[<<v, s>>]
  <2>1. evidence[<<v, <<s, j>>>>] = Pass(aggregate[<<v, s>>].manifest)
    BY <1>1, <1>3 DEF EvidenceBacked, Pass
  <2>2. aggregate[<<v, s>>].manifest \in Manifest
    <3>1. aggregate[<<v, s>>] \in Aggregate
      BY <1>1, <1>3 DEF StagesOK
    <3>. QED BY <3>1 DEF Aggregate, Identity
  <2>. QED BY <1>2, <1>3, <2>1, <2>2, PassStays
<1>4. CASE Ending(p) /\ <<v, s>> = Place(p)
  <2>1. /\ aggregate'[<<v, s>>] = Written(p) /\ evidence' = evidence
        /\ pc[p] = "aggregate" /\ v = Catalog(p) /\ s = stage[p]
    BY <1>4, EndingWrites DEF Ending, Place
  <2>2. outcome[p].status = "PASS" /\ Written(p).manifest = id[p]
    BY <1>1, <2>1 DEF Written
  <2>3. done[p] = Jobs[s] /\ Jobs[s] \in Nat
    BY <2>1, <2>2, NoFile DEF Receipts, ReceiptOK
  <2>4. evidence[<<v, <<s, j>>>>] = Pass(id[p])
    BY <2>1, <2>2, <2>3 DEF Receipts, ReceiptOK, Pass
  <2>. QED BY <2>1, <2>2, <2>4
<1>. QED BY <1>3, <1>4, StageActKinds, EndingWrites DEF Passing, Entering
-------------------------------------------------------------------------------
\* Types

LEMMA ConcludeType ==
  ASSUME StagesOK, NEW p \in Process, NEW status \in Verdict, NEW why \in {"", "exists", "other"},
         Conclude(p, status, why)
  PROVE  /\ stage' \in [Process -> Stage] /\ prior' \in [Process -> Aggregate \cup {Nothing}]
         /\ done' \in [Process -> Nat] /\ outcome' \in [Process -> Outcome]
BY DEF StagesOK, Conclude, Ended, Outcome

LEMMA LocalsType ==
  ASSUME StagesOK, UNCHANGED locals
  PROVE  /\ stage' \in [Process -> Stage] /\ prior' \in [Process -> Aggregate \cup {Nothing}]
         /\ done' \in [Process -> Nat] /\ outcome' \in [Process -> Outcome]
BY DEF StagesOK, locals

LEMMA ResetType ==
  ASSUME StagesOK, NEW p \in Process, Reset(p)
  PROVE  /\ stage' \in [Process -> Stage] /\ prior' \in [Process -> Aggregate \cup {Nothing}]
         /\ done' \in [Process -> Nat] /\ outcome' \in [Process -> Outcome]
<1>1. 1 \in Stage /\ Ended("PASS", "") \in Outcome
  BY NoFile DEF Stage, Ended, Outcome, Verdict
<1>. QED BY <1>1 DEF StagesOK, Reset

TypesKept == /\ stage' \in [Process -> Stage] /\ prior' \in [Process -> Aggregate \cup {Nothing}]
         /\ done' \in [Process -> Nat] /\ outcome' \in [Process -> Outcome]

LEMMA LocalsStep ==
  ASSUME LedgerInv, StagesOK, NEW p \in Process, StageAct(p)
  PROVE  TypesKept
<1>. MemoryOK
  BY DEF LedgerInv
<1>1. CASE UNCHANGED locals
  BY <1>1, LocalsType DEF TypesKept
<1>2. CASE Reset(p)
  BY <1>2, ResetType DEF TypesKept
<1>3. ASSUME NEW status \in Verdict, NEW why \in {"", "exists", "other"}, Conclude(p, status, why)
      PROVE  TypesKept
  BY <1>3, ConcludeType DEF TypesKept
<1>4. CASE Outside(p) /\ UNCHANGED <<results, locals, overlapped>>
  BY <1>1, <1>4 DEF locals
<1>5. CASE Crash(p) \/ WriteAggregate(p)
  BY <1>2, <1>5 DEF Crash, WriteAggregate, Leave
<1>6. CASE Root(p)
  BY <1>2, <1>6 DEF Root, Leave, StagesOK, TypesKept
<1>7. CASE ReadPrior(p)
  <2>1. (IF stage[p] = 1 THEN Nothing ELSE aggregate[<<Catalog(p), stage[p] - 1>>])
          \in Aggregate \cup {Nothing}
    <3>1. CASE stage[p] # 1
      <4>1. Catalog(p) \in Value /\ stage[p] \in Stage
        BY <1>7, BegunHas, BegunNames DEF ReadPrior
      <4>2. stage[p] > 1
        BY <3>1, <4>1, NoFile DEF Stage
      <4>3. <<Catalog(p), stage[p] - 1>> \in Value \X Stage
        BY <4>1, <4>2, StageBefore
      <4>. QED BY <4>3 DEF StagesOK
    <3>. QED BY <3>1
  <2>. QED BY <1>7, <2>1 DEF ReadPrior, StagesOK, TypesKept
<1>8. CASE ReadOwn(p) \/ Guard(p) \/ CheckLock(p)
  BY <1>1, <1>2, <1>3, <1>8 DEF ReadOwn, Guard, CheckLock, Leave, Verdict, locals
<1>9. CASE Opening(p) \/ WriteOpening(p) \/ ReadOpening(p)
  BY <1>1, <1>3, <1>9 DEF Opening, WriteOpening, ReadOpening, Verdict, locals
<1>10. CASE LookForJob(p) \/ Launch(p) \/ Promote(p)
  BY <1>1, <1>2, <1>3, <1>10 DEF LookForJob, Launch, Promote, Leave, Verdict
<1>11. CASE Wait(p)
  <2>1. \A status \in {"PASS", "FAIL"} : Ended(status, "") \in Outcome
    BY DEF Ended, Outcome, Verdict
  <2>2. CASE /\ \E status \in {"PASS", "FAIL"} : outcome' = [outcome EXCEPT ![p] = Ended(status, "")]
             /\ UNCHANGED <<stage, prior, done>>
    BY <2>1, <2>2 DEF StagesOK, TypesKept
  <2>3. CASE Conclude(p, "BLOCKED", "other")
    BY <1>3, <2>3 DEF Verdict
  <2>. QED BY <1>11, <2>2, <2>3 DEF Wait
<1>12. CASE WriteReceipt(p)
  BY <1>12 DEF WriteReceipt, StagesOK, TypesKept
<1>. QED BY <1>4, <1>5, <1>6, <1>7, <1>8, <1>9, <1>10, <1>11, <1>12
         DEF StageAct, Inner, StageStep

LEMMA StagesStep ==
  ASSUME LedgerInv, StagesOK, Receipts, NEW p \in Process, StageAct(p)
  PROVE  StagesOK'
<1>. MemoryOK /\ Phases
  BY DEF LedgerInv
<1>1. aggregate' \in [Value \X Stage -> Aggregate \cup {Nothing}]
  <2>1. CASE Ending(p)
    BY <2>1, WrittenIs, EndingWrites DEF Ending, StagesOK
  <2>2. CASE ~Ending(p)
    BY <2>2, StageActKinds DEF Passing, Entering, StagesOK
  <2>. QED BY <2>1, <2>2
<1>2. overlapped' \in SUBSET (Value \X Stage)
  <2>1. CASE Entering(p)
    BY <2>1, BegunHas, BegunNames DEF Entering, StagesOK
  <2>2. CASE ~Entering(p)
    BY <2>2, StageActKinds DEF Passing, Ending, StagesOK
  <2>. QED BY <2>1, <2>2
<1>3. /\ opening' \in [Value \X Stage -> Manifest \cup {Nothing}]
      /\ evidence' \in [Value \X Job -> Receipt \cup {Log, Nothing}]
      /\ inventory' \in [Value -> Manifest \cup {Nothing}]
  <2>1. CASE UNCHANGED <<opening, evidence, inventory>>
    BY <2>1 DEF StagesOK
  <2>2. CASE WriteOpening(p)
    <3>1. id[p] \in Manifest
      BY <2>2, BegunHas, WriteOpeningFacts DEF Begun, Inside
    <3>. QED BY <2>2, <3>1, WriteOpeningFacts DEF StagesOK
  <2>3. CASE Launch(p)
    BY <2>1, <2>3, LaunchFacts DEF StagesOK
  <2>4. CASE WriteReceipt(p)
    <3>1. id[p] \in Manifest /\ outcome[p].status \in {"PASS", "FAIL"}
      BY <2>4, BegunHas, WriteReceiptFacts DEF Begun, Inside, Receipts, ReceiptOK
    <3>2. [status |-> outcome[p].status, manifest |-> id[p]] \in Receipt
      BY <3>1 DEF Receipt, Identity
    <3>. QED BY <2>4, <3>2, WriteReceiptFacts DEF StagesOK
  <2>5. CASE Promote(p)
    <3>1. id[p] \in Manifest
      BY <2>5, BegunHas, PromoteFacts DEF Begun, Inside
    <3>. QED BY <2>1, <2>5, <3>1, PromoteFacts DEF StagesOK
  <2>6. CASE Outside(p) /\ UNCHANGED <<results, locals, overlapped>>
    BY <2>1, <2>6 DEF results
  <2>7. CASE Crash(p) \/ WriteAggregate(p)
    BY <2>1, <2>7, DiedFacts, WriteAggregateFacts DEF Unwritten
  <2>8. CASE Root(p) \/ ReadPrior(p) \/ ReadOwn(p) \/ Guard(p) \/ CheckLock(p)
    BY <2>1, <2>8, RootFacts, ReadPriorFacts, ReadOwnFacts, GuardFacts, CheckLockFacts DEF Unwritten
  <2>9. CASE Opening(p) \/ ReadOpening(p) \/ LookForJob(p) \/ Wait(p)
    BY <2>1, <2>9, OpeningFacts, ReadOpeningFacts, LookForJobFacts, WaitFacts DEF Unwritten
  <2>. QED BY <2>2, <2>3, <2>4, <2>5, <2>6, <2>7, <2>8, <2>9 DEF StageAct, Inner, StageStep
<1>. QED BY <1>1, <1>2, <1>3, LocalsStep DEF StagesOK, TypesKept
-------------------------------------------------------------------------------
\* All of it

LEMMA StagesStepInv ==
  ASSUME StagesInv, NEW p \in Process, StageAct(p)
  PROVE  StagesInv'
<1>1. /\ LedgerInv /\ StagesOK /\ Alone /\ PriorStands /\ Guarded /\ Receipts /\ OneRunner
      /\ EvidenceBacked /\ Chained
  BY DEF StagesInv
<1>. MemoryOK
  BY <1>1 DEF LedgerInv
<1>2. LedgerInv'
  BY <1>1, LedgerStepInv, StageActIsAct
<1>3. Guarded'
  <2>1. ASSUME NEW q \in Process
        PROVE  GuardOK(q)'
    <3>1. CASE q = p
      BY <1>1, <3>1, GuardStep
    <3>2. CASE q # p
      <4>1. Rest(q)
        BY <1>1, <3>2, OthersRest
      <4>2. /\ pc'[q] = pc[q] /\ stage'[q] = stage[q] /\ prior'[q] = prior[q]
            /\ outcome'[q] = outcome[q] /\ id'[q] = id[q] /\ doc'[q] = doc[q]
        BY <4>1, RestPlace
      <4>. QED BY <1>1, <4>2 DEF Guarded, GuardOK, Preceded
    <3>. QED BY <3>1, <3>2
  <2>. QED BY <2>1 DEF Guarded
<1>4. Receipts'
  <2>1. ASSUME NEW q \in Process
        PROVE  ReceiptOK(q)'
    BY <1>1, ReceiptStep, ReceiptOthers
  <2>. QED BY <2>1 DEF Receipts
<1>5. Alone' /\ PriorStands' /\ Chained'
  BY <1>1, AloneStep, PriorStep, ChainedStep
<1>6. OneRunner' /\ EvidenceBacked' /\ StagesOK'
  BY <1>1, OneRunnerStep, BackedStep, StagesStep
<1>. QED BY <1>2, <1>3, <1>4, <1>5, <1>6 DEF StagesInv

StageState == <<results, locals, overlapped, pc, kind, memory>>

LEMMA StagesQuiet ==
  ASSUME StagesInv, LedgerInv', UNCHANGED StageState
  PROVE  StagesInv'
<1>1. /\ UNCHANGED <<aggregate, opening, evidence, inventory, stage, prior, done, outcome>>
      /\ UNCHANGED <<overlapped, pc, kind, phase, got, bound, doc, id>>
  BY DEF StageState, results, locals, memory
<1>2. StagesOK' /\ OneRunner'
  BY <1>1 DEF StagesInv, StagesOK, OneRunner, NextJob, Catalog
<1>3. Alone' /\ PriorStands'
  BY <1>1 DEF StagesInv, Alone, AloneOK, PriorStands, PriorOK, Company, Place, Catalog
<1>4. Guarded' /\ Receipts'
  BY <1>1 DEF StagesInv, Guarded, GuardOK, Preceded, Receipts, ReceiptOK, NextJob, Catalog
<1>5. EvidenceBacked' /\ Chained'
  BY <1>1 DEF StagesInv, EvidenceBacked, Chained, Good
<1>. QED BY <1>2, <1>3, <1>4, <1>5 DEF StagesInv

LEMMA StagesInit ==
  ASSUME SInit
  PROVE  StagesInv
<1>1. /\ \A p \in Process : pc[p] = "idle" /\ done[p] = 0 /\ prior[p] = Nothing
      /\ \A k \in Value \X Stage : aggregate[k] = Nothing
  BY DEF SInit, Init
<1>2. StagesOK
  <2>1. 1 \in Stage /\ Ended("PASS", "") \in Outcome
    BY NoFile DEF Stage, Ended, Outcome, Verdict
  <2>. QED BY <2>1 DEF SInit, StagesOK
<1>3. Alone /\ PriorStands /\ Guarded
  BY <1>1 DEF Alone, AloneOK, PriorStands, PriorOK, Guarded, GuardOK, Inside
<1>4. Receipts /\ OneRunner
  BY <1>1 DEF Receipts, ReceiptOK, OneRunner, InJob
<1>5. EvidenceBacked /\ Chained
  <2>1. \A s \in Stage \ {1} : s - 1 \in Stage
    BY StageBefore, NoFile DEF Stage
  <2>. QED BY <1>1, <2>1 DEF EvidenceBacked, Chained
<1>. QED BY <1>2, <1>3, <1>4, <1>5, LedgerInit DEF StagesInv

LEMMA StagesNext ==
  ASSUME StagesInv, [Next]_vars
  PROVE  StagesInv'
<1>1. LedgerInv'
  BY LedgerNext DEF StagesInv
<1>2. CASE \E p \in Process : StageAct(p)
  BY <1>2, StagesStepInv
<1>3. CASE Environment
  <2>1. UNCHANGED StageState
    BY <1>3 DEF Environment, Edit, StageState
  <2>. QED BY <1>1, <2>1, StagesQuiet
<1>4. CASE UNCHANGED vars
  <2>1. UNCHANGED StageState
    BY <1>4 DEF vars, candidate, StageState
  <2>. QED BY <1>1, <2>1, StagesQuiet
<1>. QED BY <1>2, <1>3, <1>4, NextIsStageAct

\* The invariant of the whole: types, the ledger under its lock, and the evidence that
\* is guarded by nothing but the files found.
THEOREM StagesInvariance == Spec => []StagesInv
<1>1. SInit => StagesInv
  BY StagesInit
<1>2. StagesInv /\ [Next]_vars => StagesInv'
  BY StagesNext
<1>. QED BY <1>1, <1>2, PTL DEF Spec

\* Behind every stage that passed there is, for each of its jobs, the receipt of a run
\* that passed for the same manifest, whoever else ran the stage or died in it.
THEOREM PassHasReceipts == Spec => []EvidenceBacked
<1>1. StagesInv => EvidenceBacked
  BY DEF StagesInv
<1>. QED BY <1>1, StagesInvariance, PTL

\* Behind a stage that passed stands the one before it, for the same manifest and cache,
\* unless two runners were at that one together.
THEOREM StagesChained == Spec => []Chained
<1>1. StagesInv => Chained
  BY DEF StagesInv
<1>. QED BY <1>1, StagesInvariance, PTL

\* Without a lock, no verdict is replaced unless two runners were at its stage together.
THEOREM VerdictsLast == Spec => VerdictLasts
<1>1. ASSUME StagesInv, [Next]_vars
      PROVE  [\A k \in Value \X Stage :
                aggregate[k] # Nothing /\ k \notin overlapped' => aggregate'[k] = aggregate[k]]_vars
  <2>1. CASE \E p \in Process : StageAct(p)
    BY <1>1, <2>1, LastsStep DEF StagesInv
  <2>2. CASE Environment
    BY <2>2 DEF Environment, results
  <2>3. CASE UNCHANGED vars
    BY <2>3
  <2>. QED BY <1>1, <2>1, <2>2, <2>3, NextIsStageAct
<1>. QED BY <1>1, StagesInvariance, PTL DEF Spec, VerdictLasts
===============================================================================
