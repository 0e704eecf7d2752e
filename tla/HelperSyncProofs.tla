--------------------------- MODULE HelperSyncProofs ---------------------------
(***************************************************************************)
(* Theorems about HelperSync for any number of calls and repositories, and *)
(* any failures, crashes and writes by others.                             *)
(***************************************************************************)
EXTENDS SyncInvariant, WellFoundedInduction, TLAPS

-------------------------------------------------------------------------------
\* The operators

LEMMA LeastExists ==
  ASSUME NEW T, T \subseteq Nat, T # {}
  PROVE  \E x \in T : \A y \in T : x <= y
<1>. DEFINE R == {ss \in Nat \X Nat : ss[1] < ss[2]}
<1>1. IsWellFoundedOn(R, Nat)
  BY NatLessThanWellFounded DEF OpToRel
<1>2. \E x \in T : \A y \in T : <<y, x>> \notin R
  <2>. HIDE DEF R
  <2>. QED BY <1>1, WFMin
<1>3. PICK x \in T : \A y \in T : <<y, x>> \notin R
  BY <1>2
<1>4. \A y \in T : x <= y
  <2>. TAKE y \in T
  <2>1. x \in Nat /\ y \in Nat
    OBVIOUS
  <2>2. ~(y < x)
    <3>1. y < x => <<y, x>> \in R
      BY <2>1
    <3>. QED BY <3>1, <1>3
  <2>. QED BY <2>1, <2>2
<1>. QED BY <1>4

\* The first and the last of some repositories are among them.
LEMMA FirstIn ==
  ASSUME NEW S \in SUBSET Repo, S # {}
  PROVE  First(S) \in S
<1>1. S \subseteq Nat
  BY SyncAssumption DEF Repo
<1>2. \E r \in S : \A s \in S : r <= s
  BY <1>1, LeastExists
<1>. QED BY <1>2 DEF First

LEMMA LastIn ==
  ASSUME NEW S \in SUBSET Repo, S # {}
  PROVE  Last(S) \in S
<1>. DEFINE T == {N - r : r \in S}
<1>1. N \in Nat /\ \A r \in S : r \in Nat /\ r <= N
  BY SyncAssumption DEF Repo
<1>2. T \subseteq Nat /\ T # {}
  BY <1>1
<1>3. PICK x \in T : \A y \in T : x <= y
  BY <1>2, LeastExists
<1>4. PICK r \in S : x = N - r
  BY <1>3
<1>5. \A s \in S : s <= r
  <2>. TAKE s \in S
  <2>1. N - s \in T
    OBVIOUS
  <2>2. N - r <= N - s
    BY <2>1, <1>3, <1>4
  <2>. QED BY <2>2, <1>1
<1>. QED BY <1>5 DEF Last

LEMMA AbsentNone ==
  /\ Absent \notin FileState /\ Absent \notin Source /\ Absent \notin Map
BY SyncAssumption

LEMMA DesiredType ==
  ASSUME TypeOK, NEW p \in Process, NEW r \in Repo, canonical[p] # Absent
  PROVE  Desired(p, r) \in FileState /\ Desired(p, r) # Absent
<1>1. canonical[p] \in Source
  BY DEF TypeOK
<1>2. Render(canonical[p]) \in Payload
  BY <1>1 DEF Render, Payload
<1>3. NewMode \in Mode /\ (prior[p][r] # Absent => prior[p][r].mode \in Mode)
  BY SyncAssumption DEF TypeOK, FileState
<1>4. Desired(p, r) \in FileState
  BY <1>2, <1>3 DEF Desired, FileState
<1>. QED BY <1>4, AbsentNone

LEMMA ForeignType ==
  ASSUME TypeOK
  PROVE  /\ Foreign \subseteq FileState \cup {Absent}
         /\ [payload |-> Render(source), mode |-> NewMode] \in FileState
<1>1. [header : {FALSE}, body : Alien] \subseteq Payload
  BY DEF Payload
<1>2. Foreign \subseteq FileState \cup {Absent}
  BY <1>1 DEF Foreign, FileState
<1>3. Render(source) \in Payload
  BY DEF TypeOK, Render, Payload
<1>. QED BY <1>2, <1>3, SyncAssumption DEF FileState
-------------------------------------------------------------------------------
\* Types

\* A loop that is running has a target left.
LEMMA FirstOf ==
  ASSUME TypeOK, Loops, NEW p \in Process, pc[p] \in {"read", "open", "stage"} \cup Replacing
  PROVE  todo[p] # {} /\ First(todo[p]) \in todo[p] /\ First(todo[p]) \in Repo
<1>1. todo[p] # {} /\ todo[p] \in SUBSET Repo
  BY DEF Loops, LoopOK, TypeOK
<1>. QED BY <1>1, FirstIn

LEMMA ThrowType ==
  ASSUME TypeOK, NEW p \in Process, Throw(p)
  PROVE  /\ pc' \in [Process -> Statement]
         /\ result' \in [Process -> {"none", "ok", "drift", "failed", "conflict", "interrupted"}]
BY DEF TypeOK, Throw, Over, Goto, Statement

LEMMA LoopType ==
  ASSUME TypeOK, NEW p \in Process, NEW body \in Statement, NEW next \in Statement,
         NEW again \in SUBSET Repo, Loop(p, body, next, again)
  PROVE  pc' \in [Process -> Statement] /\ todo' \in [Process -> SUBSET Repo]
<1>. DEFINE left == todo[p] \ {First(todo[p])}
<1>1. left \in SUBSET Repo
  BY DEF TypeOK
<1>2. \/ pc' = [pc EXCEPT ![p] = body] /\ todo' = [todo EXCEPT ![p] = left]
      \/ pc' = [pc EXCEPT ![p] = next] /\ todo' = [todo EXCEPT ![p] = again]
  BY DEF Loop, Goto
<1>. HIDE DEF left
<1>3. CASE pc' = [pc EXCEPT ![p] = body] /\ todo' = [todo EXCEPT ![p] = left]
  <2>1. pc' \in [Process -> Statement]
    BY <1>3 DEF TypeOK
  <2>2. todo' \in [Process -> SUBSET Repo]
    BY <1>1, <1>3 DEF TypeOK
  <2>. QED BY <2>1, <2>2
<1>4. CASE pc' = [pc EXCEPT ![p] = next] /\ todo' = [todo EXCEPT ![p] = again]
  <2>1. pc' \in [Process -> Statement]
    BY <1>4 DEF TypeOK
  <2>2. todo' \in [Process -> SUBSET Repo]
    BY <1>4 DEF TypeOK
  <2>. QED BY <2>1, <2>2
<1>. QED BY <1>2, <1>3, <1>4

LEMMA RestType ==
  ASSUME TypeOK, NEW p \in Process, Rest(p), UNCHANGED used \/ Faulty
  PROVE  TypeOK'
<1>1. used' \in [calls : 0..MaxCall, faults : 0..MaxFault, edits : 0..MaxEdit]
  BY SyncAssumption DEF TypeOK, Faulty
<1>2. Nobody \in [Repo -> FileState \cup {Absent}]
  BY DEF Nobody
<1>. QED BY <1>1, <1>2 DEF TypeOK, Rest, Goto, Statement, inputs

LEMMA StatementNames ==
  /\ {"idle", "unstage", "over", "source", "read", "presource", "premap", "open", "stage", "assert",
      "replace", "readback", "postsource", "postmap", "restore", "put", "relook", "unlink", "reread"}
       = Statement
BY DEF Statement, Reading, Forward, Backward

LEMMA RestoredType ==
  ASSUME TypeOK, NEW p \in Process, NEW failed \in BOOLEAN, Restored(p, failed),
         UNCHANGED <<file, history>>
  PROVE  TypeOK'
<1>1. Nobody \in [Repo -> FileState \cup {Absent}]
  BY DEF Nobody
<1>. QED BY <1>1, StatementNames DEF TypeOK, Restored, Goto, inputs, history

\* A statement of the handler that changes no local variable but the statement.
LEMMA KeepType ==
  ASSUME TypeOK, NEW p \in Process, NEW statement \in Statement, Keep(p, statement),
         UNCHANGED <<staged, wrote>>,
         \/ UNCHANGED <<file, alone, old>>
         \/ \E r \in Repo, content \in FileState \cup {Absent} : SetFile(p, r, content)
  PROVE  TypeOK'
<1>1. file' \in [Repo -> FileState \cup {Absent}] /\ alone' \in [Process -> BOOLEAN] /\ UNCHANGED old
  <2>1. CASE UNCHANGED <<file, alone, old>>
    BY <2>1 DEF TypeOK
  <2>2. CASE \E r \in Repo, content \in FileState \cup {Absent} : SetFile(p, r, content)
    <3>. PICK r \in Repo, content \in FileState \cup {Absent} : SetFile(p, r, content)
      BY <2>2
    <3>1. file' \in [Repo -> FileState \cup {Absent}] /\ UNCHANGED old
      BY DEF TypeOK, SetFile
    <3>2. alone' \in [Process -> BOOLEAN]
      BY Zenon DEF SetFile
    <3>. QED BY <3>1, <3>2
  <2>. QED BY <2>1, <2>2
<1>. QED BY <1>1 DEF TypeOK, Keep, Goto, inputs, locals

LEMMA TypeStep ==
  ASSUME TypeOK, Loops, NEW p \in Process, Step(p)
  PROVE  TypeOK'
<1>1. CASE Start(p)
  <2>. PICK names \in (SUBSET Repo) \ {{}}, write \in BOOLEAN :
         /\ call' = [call EXCEPT ![p] = [write |-> write, names |-> names]]
         /\ todo' = [todo EXCEPT ![p] = names]
    BY <1>1 DEF Start
  <2>1. [write |-> write, names |-> names] \in [write : BOOLEAN, names : SUBSET Repo]
    OBVIOUS
  <2>2. used' \in [calls : 0..MaxCall, faults : 0..MaxFault, edits : 0..MaxEdit]
    BY <1>1, SyncAssumption DEF Start, TypeOK
  <2>. QED BY <1>1, <2>1, <2>2, StatementNames DEF Start, TypeOK, inputs, Goto
<1>2. CASE ReadSource(p)
  BY <1>2, StatementNames DEF ReadSource, TypeOK, inputs, history, Goto
<1>3. CASE ReadTarget(p)
  <2>. DEFINE r == First(todo[p])
  <2>1. r \in Repo
    BY <1>3, FirstOf DEF ReadTarget
  <2>2. prior' \in [Process -> [Repo -> FileState \cup {Absent}]]
    <3>1. prior' = [prior EXCEPT ![p] = [prior[p] EXCEPT ![r] = file[r]]]
      BY <1>3 DEF ReadTarget
    <3>2. [prior[p] EXCEPT ![r] = file[r]] \in [Repo -> FileState \cup {Absent}]
      BY <2>1 DEF TypeOK
    <3>. QED BY <3>1, <3>2 DEF TypeOK
  <2>3. pc' \in [Process -> Statement] /\ todo' \in [Process -> SUBSET Repo]
    <3>1. Loop(p, "read", IF call[p].write THEN "presource" ELSE "premap", call[p].names)
      BY <1>3 DEF ReadTarget
    <3>2. call[p].names \in SUBSET Repo
      BY DEF TypeOK
    <3>. QED BY <3>1, <3>2, StatementNames, LoopType
  <2>. QED BY <1>3, <2>2, <2>3 DEF ReadTarget, TypeOK, inputs, history
<1>4. CASE CheckSource(p)
  BY <1>4, StatementNames, ThrowType DEF CheckSource, TypeOK, inputs, history, Goto
<1>5. CASE CheckMap(p)
  <2>1. /\ pc' \in [Process -> Statement]
        /\ result' \in [Process -> {"none", "ok", "drift", "failed", "conflict", "interrupted"}]
    BY <1>5, StatementNames, ThrowType DEF CheckMap, TypeOK, Over, Goto
  <2>. QED BY <1>5, <2>1 DEF CheckMap, TypeOK, inputs, history
<1>6. CASE Open(p)
  <2>1. CASE Loop(p, "open", "stage", call[p].names) /\ UNCHANGED result
    <3>1. call[p].names \in SUBSET Repo /\ {} \in SUBSET Repo
      BY DEF TypeOK
    <3>2. pc' \in [Process -> Statement] /\ todo' \in [Process -> SUBSET Repo]
      <4>1. "open" \in Statement /\ "stage" \in Statement
        BY StatementNames
      <4>2. "assert" \in Statement /\ "postsource" \in Statement
        BY StatementNames
      <4>. QED BY <2>1, <3>1, <4>1, <4>2, LoopType
    <3>. QED BY <1>6, <2>1, <3>2 DEF Open, TypeOK, inputs, history
  <2>2. CASE Throw(p) /\ UNCHANGED todo
    BY <1>6, <2>2, ThrowType DEF Open, TypeOK, inputs, history
  <2>. QED BY <1>6, <2>1, <2>2 DEF Open
<1>7. CASE Stage(p)
  <2>1. \A r \in Repo : Desired(p, r) \in FileState
    BY <1>7, DesiredType DEF Stage, Loops, LoopOK
  <2>. QED BY <1>7, <2>1, StatementNames DEF Stage, TypeOK, inputs, history, locals, Goto
<1>8. CASE Register(p)
  <2>1. First(todo[p]) \in Repo
    BY <1>8, FirstOf DEF Register, Replacing
  <2>2. CASE /\ replaced' = [replaced EXCEPT ![p] = replaced[p] \cup {First(todo[p])}]
             /\ Goto(p, "replace") /\ UNCHANGED result
    BY <1>8, <2>1, <2>2, StatementNames DEF Register, TypeOK, inputs, history, Goto
  <2>3. CASE Throw(p) /\ UNCHANGED replaced
    BY <1>8, <2>3, ThrowType DEF Register, TypeOK, inputs, history
  <2>. QED BY <1>8, <2>2, <2>3 DEF Register
<1>9. CASE Replace(p)
  <2>. DEFINE r == First(todo[p])
  <2>1. r \in Repo
    BY <1>9, FirstOf DEF Replace, Replacing
  <2>2. [staged[p] EXCEPT ![r] = Absent] \in [Repo -> FileState \cup {Absent}]
    BY <2>1 DEF TypeOK
  <2>3. staged[p][r] \in FileState \cup {Absent}
    BY <2>1 DEF TypeOK
  <2>4. /\ file' = [file EXCEPT ![r] = staged[p][r]] /\ wrote' = [wrote EXCEPT ![p] = wrote[p] \cup {r}]
        /\ staged' = [staged EXCEPT ![p] = [staged[p] EXCEPT ![r] = Absent]]
        /\ alone' = [q \in Process |-> alone[q] /\ (q = p \/ pc[q] = "idle")]
        /\ pc' = [pc EXCEPT ![p] = "readback"] /\ UNCHANGED <<inputs, todo, locals, old, used>>
    BY <1>9 DEF Replace, SetFile, Goto
  <2>. HIDE DEF r
  <2>. QED BY <2>1, <2>2, <2>3, <2>4, StatementNames DEF TypeOK, inputs, locals
<1>10. CASE ReadBack(p)
  <2>1. CASE Loop(p, "assert", "postsource", {}) /\ UNCHANGED result
    <3>1. call[p].names \in SUBSET Repo /\ {} \in SUBSET Repo
      BY DEF TypeOK
    <3>2. pc' \in [Process -> Statement] /\ todo' \in [Process -> SUBSET Repo]
      <4>1. "open" \in Statement /\ "stage" \in Statement
        BY StatementNames
      <4>2. "assert" \in Statement /\ "postsource" \in Statement
        BY StatementNames
      <4>. QED BY <2>1, <3>1, <4>1, <4>2, LoopType
    <3>. QED BY <1>10, <2>1, <3>2 DEF ReadBack, TypeOK, inputs, history
  <2>2. CASE Throw(p) /\ UNCHANGED todo
    BY <1>10, <2>2, ThrowType DEF ReadBack, TypeOK, inputs, history
  <2>. QED BY <1>10, <2>1, <2>2 DEF ReadBack
<1>11. CASE Unstage(p)
  <2>1. Nobody \in [Repo -> FileState \cup {Absent}]
    BY DEF Nobody
  <2>. QED BY <1>11, <2>1, StatementNames DEF Unstage, TypeOK, inputs, history, locals, Goto
<1>12. CASE Restore(p)
  <2>1. CASE replaced[p] = {}
    BY <1>12, <2>1, StatementNames DEF Restore, Over, Goto, TypeOK, inputs, history
  <2>2. CASE replaced[p] # {} /\ Restored(p, TRUE)
    BY <1>12, <2>2, RestoredType DEF Restore
  <2>3. CASE Keep(p, IF prior[p][Last(replaced[p])] = Absent THEN "relook" ELSE "put") /\ UNCHANGED staged
    BY <1>12, <2>3, StatementNames, KeepType DEF Restore, history
  <2>. QED BY <1>12, <2>1, <2>2, <2>3 DEF Restore
<1>13. CASE PutBack(p)
  <2>1. Last(replaced[p]) \in Repo
    BY <1>13, LastIn DEF PutBack, TypeOK, Loops, LoopOK, Backward
  <2>2. prior[p][Last(replaced[p])] \in FileState \cup {Absent}
    BY <2>1 DEF TypeOK
  <2>. QED BY <1>13, <2>1, <2>2, StatementNames, KeepType DEF PutBack
<1>14. CASE LookAgain(p)
  BY <1>14, StatementNames, RestoredType, KeepType DEF LookAgain, history
<1>15. CASE Unlink(p)
  <2>1. Last(replaced[p]) \in Repo
    BY <1>15, LastIn DEF Unlink, TypeOK, Loops, LoopOK, Backward
  <2>2. CASE Restored(p, TRUE) /\ UNCHANGED <<file, history>>
    BY <2>2, RestoredType
  <2>3. CASE /\ SetFile(p, Last(replaced[p]), Absent)
             /\ Keep(p, "reread") /\ UNCHANGED <<staged, wrote>>
    BY <2>1, <2>3, StatementNames, KeepType
  <2>. QED BY <1>15, <2>2, <2>3 DEF Unlink
<1>16. CASE Reread(p)
  BY <1>16, RestoredType DEF Reread
<1>17. CASE Exit(p)
  BY <1>17, RestType DEF Exit
<1>18. CASE Fail(p)
  <2>1. used' \in [calls : 0..MaxCall, faults : 0..MaxFault, edits : 0..MaxEdit]
    BY <1>18, SyncAssumption DEF TypeOK, Faulty, Fail
  <2>2. Nobody \in [Repo -> FileState \cup {Absent}]
    BY DEF Nobody
  <2>3. CASE pc[p] \in Backward /\ replaced[p] # {}
    <3>1. /\ pc' = [pc EXCEPT ![p] = "restore"]
          /\ replaced' = [replaced EXCEPT ![p] = replaced[p] \ {Last(replaced[p])}]
          /\ conflict' = [conflict EXCEPT ![p] = TRUE]
          /\ staged' = [staged EXCEPT ![p] = Nobody] /\ UNCHANGED result
          /\ UNCHANGED <<inputs, file, todo, call, canonical, snapshot, prior, history>>
      BY <1>18, <2>3 DEF Fail, Goto
    <3>. QED BY <2>1, <2>2, <3>1, StatementNames DEF TypeOK, inputs, history
  <2>4. CASE ~(pc[p] \in Backward /\ replaced[p] # {}) /\ pc[p] \in {"unstage", "restore"}
    <3>1. /\ pc' = [pc EXCEPT ![p] = "over"] /\ result' = [result EXCEPT ![p] = "interrupted"]
          /\ staged' = [staged EXCEPT ![p] = Nobody]
          /\ UNCHANGED <<replaced, conflict>>
          /\ UNCHANGED <<inputs, file, todo, call, canonical, snapshot, prior, history>>
      BY <1>18, <2>4 DEF Fail, Over, Goto
    <3>. QED BY <2>1, <2>2, <3>1, StatementNames DEF TypeOK, inputs, history
  <2>5. CASE Throw(p) /\ UNCHANGED <<staged, replaced, conflict>>
    BY <1>18, <2>1, <2>5, ThrowType DEF Fail, TypeOK, inputs, history
  <2>. QED BY <1>18, <2>3, <2>4, <2>5 DEF Fail
<1>19. CASE Crash(p)
  BY <1>19, RestType DEF Crash
<1>. QED BY <1>1, <1>2, <1>3, <1>4, <1>5, <1>6, <1>7, <1>8, <1>9, <1>10, <1>11, <1>12, <1>13,
            <1>14, <1>15, <1>16, <1>17, <1>18, <1>19 DEF Step

LEMMA TypeEdit ==
  ASSUME TypeOK, Edit
  PROVE  TypeOK'
<1>1. used' \in [calls : 0..MaxCall, faults : 0..MaxFault, edits : 0..MaxEdit]
  BY SyncAssumption DEF TypeOK, Edit
<1>2. CASE source' \in Source /\ UNCHANGED <<map, file, history>>
  BY <1>1, <1>2 DEF Edit, TypeOK, locals, history
<1>3. CASE map' \in Map /\ UNCHANGED <<source, file, history>>
  BY <1>1, <1>3 DEF Edit, TypeOK, locals, history
<1>4. CASE \E r \in Repo, content \in Foreign \cup {[payload |-> Render(source), mode |-> NewMode]} :
             /\ file' = [file EXCEPT ![r] = content]
             /\ alone' = [q \in Process |-> pc[q] = "idle"]
             /\ UNCHANGED <<inputs, wrote, old>>
  BY <1>1, <1>4, ForeignType DEF Edit, TypeOK, inputs, locals
<1>. QED BY <1>2, <1>3, <1>4 DEF Edit
-------------------------------------------------------------------------------
\* What the helpers do to the process that takes them

LEMMA LoopFacts ==
  ASSUME TypeOK, NEW p \in Process, NEW body, NEW next, NEW again,
         Loop(p, body, next, again), todo[p] # {}
  PROVE  /\ First(todo[p]) \in todo[p]
         /\ \/ /\ todo[p] \ {First(todo[p])} # {}
               /\ pc'[p] = body /\ todo'[p] = todo[p] \ {First(todo[p])}
            \/ /\ todo[p] = {First(todo[p])}
               /\ pc'[p] = next /\ todo'[p] = again
<1>1. First(todo[p]) \in todo[p]
  BY FirstIn DEF TypeOK
<1>. QED BY <1>1 DEF TypeOK, Loop, Goto

LEMMA ThrowFacts ==
  ASSUME TypeOK, NEW p \in Process, Throw(p)
  PROVE  \/ /\ pc[p] \in Forward /\ call[p].write
            /\ pc'[p] = "unstage" /\ result'[p] = result[p]
         \/ /\ ~(pc[p] \in Forward /\ call[p].write)
            /\ pc'[p] = "over" /\ result'[p] = "failed"
BY DEF TypeOK, Throw, Over, Goto

LEMMA RestoredFacts ==
  ASSUME TypeOK, NEW p \in Process, NEW failed, Restored(p, failed)
  PROVE  /\ pc'[p] = "restore" /\ replaced'[p] = replaced[p] \ {Last(replaced[p])}
         /\ conflict'[p] = (conflict[p] \/ failed) /\ staged'[p] = Nobody
         /\ todo'[p] = todo[p] /\ call'[p] = call[p] /\ canonical'[p] = canonical[p]
         /\ prior'[p] = prior[p] /\ result'[p] = result[p]
BY DEF TypeOK, Restored, Goto

LEMMA RestFacts ==
  ASSUME TypeOK, NEW p \in Process, Rest(p)
  PROVE  /\ pc'[p] = "idle" /\ todo'[p] = {} /\ replaced'[p] = {} /\ ~conflict'[p]
         /\ staged'[p] = Nobody /\ file' = file
BY DEF TypeOK, Rest, Goto

\* The last of the targets to put back is one of them.
LEMMA LastOf ==
  ASSUME TypeOK, NEW p \in Process, replaced[p] # {}
  PROVE  Last(replaced[p]) \in replaced[p] /\ Last(replaced[p]) \in Repo
BY LastIn DEF TypeOK
-------------------------------------------------------------------------------
\* A step leaves what the other processes have as it is; a target it writes ends the
\* claim of every other running call to be alone.

Stay(q) ==
  /\ pc'[q] = pc[q] /\ staged'[q] = staged[q] /\ call'[q] = call[q]
  /\ canonical'[q] = canonical[q] /\ prior'[q] = prior[q] /\ todo'[q] = todo[q]
  /\ replaced'[q] = replaced[q] /\ conflict'[q] = conflict[q] /\ result'[q] = result[q]
  /\ old'[q] = old[q]
  /\ alone'[q] => pc[q] = "idle" \/ (alone[q] /\ file' = file)

LEMMA OthersStay ==
  ASSUME TypeOK, NEW p \in Process, NEW q \in Process, q # p, Step(p)
  PROVE  Stay(q)
<1>1. CASE Start(p)
  BY <1>1 DEF Start, TypeOK, Goto, Stay
<1>2. CASE ReadSource(p) \/ ReadTarget(p) \/ Open(p) \/ ReadBack(p)
  BY <1>2 DEF ReadSource, ReadTarget, Open, ReadBack, Loop, Throw, Over, TypeOK, Goto, Stay, history
<1>3. CASE CheckSource(p) \/ CheckMap(p)
  BY <1>3 DEF CheckSource, CheckMap, Throw, Over, TypeOK, Goto, Stay, history
<1>4. CASE Stage(p) \/ Register(p) \/ Unstage(p)
  BY <1>4 DEF Stage, Register, Unstage, Throw, Over, TypeOK, Goto, Stay, history, locals
<1>5. CASE Replace(p)
  BY <1>5 DEF Replace, SetFile, TypeOK, Goto, Stay, locals
<1>6. CASE Restore(p)
  BY <1>6 DEF Restore, Restored, Keep, Over, TypeOK, Goto, Stay, history, locals
<1>7. CASE PutBack(p)
  BY <1>7 DEF PutBack, SetFile, Keep, TypeOK, Goto, Stay, locals
<1>8. CASE LookAgain(p) \/ Reread(p)
  BY <1>8 DEF LookAgain, Reread, Restored, Keep, TypeOK, Goto, Stay, history, locals
<1>9. CASE Unlink(p)
  BY <1>9 DEF Unlink, Restored, SetFile, Keep, TypeOK, Goto, Stay, history, locals
<1>10. CASE Exit(p) \/ Crash(p)
  BY <1>10 DEF Exit, Crash, Rest, TypeOK, Goto, Stay
<1>11. CASE Fail(p)
  BY <1>11 DEF Fail, Throw, Over, TypeOK, Goto, Stay, history
<1>. QED BY <1>1, <1>2, <1>3, <1>4, <1>5, <1>6, <1>7, <1>8, <1>9, <1>10, <1>11 DEF Step

LEMMA EditStays ==
  ASSUME TypeOK, Edit, NEW q \in Process
  PROVE  Stay(q)
<1>1. UNCHANGED <<staged, pc, todo, call, canonical, prior, replaced, conflict, result>>
  BY DEF Edit, locals
<1>2. old' = old /\ (alone'[q] => pc[q] = "idle" \/ (alone[q] /\ file' = file))
  <2>1. CASE UNCHANGED <<file, history>>
    BY <2>1 DEF history
  <2>2. CASE \E r \in Repo, content \in Foreign \cup {[payload |-> Render(source), mode |-> NewMode]} :
               /\ file' = [file EXCEPT ![r] = content]
               /\ alone' = [qq \in Process |-> pc[qq] = "idle"]
               /\ UNCHANGED <<inputs, wrote, old>>
    BY <2>2
  <2>. QED BY <2>1, <2>2 DEF Edit
<1>. QED BY <1>1, <1>2 DEF Stay

\* Undone and Truthful of one process.
UndoneOf(p) == (pc[p] = "over" /\ result[p] = "failed" /\ alone[p]) => file = old[p]

TruthfulOf(p) ==
  (pc[p] = "over" /\ alone[p]) =>
    /\ result[p] = "ok" => \A r \in call[p].names :
         /\ file[r] # Absent /\ file[r].payload = Render(canonical[p])
         /\ call[p].write => file[r] = Desired(p, r)
    /\ result[p] = "drift" => \E r \in call[p].names :
         file[r] = Absent \/ file[r].payload # Render(canonical[p])

InvOf(p) ==
  /\ LoopOK(p) /\ StagedOK(p) /\ (alone[p] => PriorOK(p)) /\ (alone[p] => FileOK(p))
  /\ UndoneOf(p) /\ TruthfulOf(p)

LEMMA InvParts ==
  /\ SyncInv <=> TypeOK /\ \A p \in Process : InvOf(p)
  /\ SyncInv' <=> TypeOK' /\ \A p \in Process : InvOf(p)'
<1>1. SyncInv <=> TypeOK /\ \A p \in Process : InvOf(p)
  BY DEF SyncInv, InvOf, Loops, StagedRight, PriorRight, FileRight, Undone, Truthful, UndoneOf,
         TruthfulOf
<1>2. SyncInv' <=> TypeOK' /\ \A p \in Process : InvOf(p)'
  BY DEF SyncInv, InvOf, Loops, StagedRight, PriorRight, FileRight, Undone, Truthful, UndoneOf,
         TruthfulOf
<1>. QED BY <1>1, <1>2

LEMMA StaySafe ==
  ASSUME TypeOK, TypeOK', NEW q \in Process, Stay(q), InvOf(q)
  PROVE  InvOf(q)'
<1>1. LoopOK(q)'
  BY DEF InvOf, Stay, LoopOK
<1>2. StagedOK(q)'
  BY DEF InvOf, Stay, StagedOK, Desired
<1>3. alone'[q] => PriorOK(q)' /\ FileOK(q)'
  <2>1. CASE alone[q] /\ file' = file
    <3>1. PriorOK(q)'
      BY <2>1 DEF InvOf, Stay, PriorOK
    <3>2. FileOK(q)'
      BY <2>1 DEF InvOf, Stay, FileOK, Mixed, Written, Desired, Unchanged
    <3>. QED BY <3>1, <3>2
  <2>2. CASE pc[q] = "idle"
    <3>1. PriorOK(q)'
      BY <2>2 DEF Stay, PriorOK, Forward, Backward
    <3>2. FileOK(q)'
      BY <2>2 DEF Stay, FileOK, Reading, Replacing, Checked, Backward
    <3>. QED BY <3>1, <3>2
  <2>. QED BY <2>1, <2>2 DEF Stay
<1>4. UndoneOf(q)'
  BY DEF InvOf, Stay, UndoneOf
<1>5. TruthfulOf(q)'
  BY DEF InvOf, Stay, TruthfulOf, Desired
<1>. QED BY <1>1, <1>2, <1>3, <1>4, <1>5 DEF InvOf
-------------------------------------------------------------------------------
\* What a step does to the process that takes it

Frame(p) ==
  /\ call'[p] = call[p] /\ canonical'[p] = canonical[p]
  /\ old'[p] = old[p] /\ alone'[p] = alone[p]

\* Only the statement, the loop and the result may change.
Light(p) ==
  /\ Frame(p) /\ file' = file /\ prior'[p] = prior[p] /\ staged'[p] = staged[p]
  /\ replaced'[p] = replaced[p] /\ conflict'[p] = conflict[p]

LEMMA StartFacts ==
  ASSUME TypeOK, NEW p \in Process, Start(p)
  PROVE  /\ pc[p] = "idle" /\ pc'[p] = "source"
         /\ todo'[p] # {} /\ todo'[p] = call'[p].names
         /\ old'[p] = file /\ file' = file /\ staged'[p] = staged[p]
         /\ replaced'[p] = replaced[p] /\ conflict'[p] = conflict[p]
<1>. PICK names \in (SUBSET Repo) \ {{}}, write \in BOOLEAN :
       /\ call' = [call EXCEPT ![p] = [write |-> write, names |-> names]]
       /\ todo' = [todo EXCEPT ![p] = names]
  BY DEF Start
<1>1. call'[p] = [write |-> write, names |-> names] /\ todo'[p] = names
  BY DEF TypeOK
<1>2. call'[p].names = names
  BY <1>1
<1>3. pc[p] = "idle" /\ pc'[p] = "source" /\ old'[p] = file
  BY DEF Start, TypeOK, Goto
<1>4. file' = file /\ staged' = staged /\ replaced' = replaced /\ conflict' = conflict
  BY DEF Start
<1>5. names # {}
  OBVIOUS
<1>. QED BY <1>1, <1>2, <1>3, <1>4, <1>5

LEMMA ReadSourceFacts ==
  ASSUME TypeOK, NEW p \in Process, ReadSource(p)
  PROVE  /\ pc[p] = "source" /\ pc'[p] = "read" /\ canonical'[p] # Absent
         /\ call'[p] = call[p] /\ todo'[p] = todo[p] /\ prior'[p] = prior[p]
         /\ staged'[p] = staged[p] /\ replaced'[p] = replaced[p] /\ conflict'[p] = conflict[p]
         /\ old'[p] = old[p] /\ alone'[p] = alone[p] /\ file' = file
<1>1. canonical'[p] = source /\ source # Absent
  BY AbsentNone DEF ReadSource, TypeOK
<1>. QED BY <1>1 DEF ReadSource, TypeOK, Goto, history

LEMMA ReadTargetFacts ==
  ASSUME TypeOK, Loops, NEW p \in Process, ReadTarget(p)
  PROVE  /\ pc[p] = "read" /\ First(todo[p]) \in todo[p] /\ First(todo[p]) \in Repo
         /\ prior'[p] = [prior[p] EXCEPT ![First(todo[p])] = file[First(todo[p])]]
         /\ \/ /\ todo[p] \ {First(todo[p])} # {}
               /\ pc'[p] = "read" /\ todo'[p] = todo[p] \ {First(todo[p])}
            \/ /\ todo[p] = {First(todo[p])}
               /\ pc'[p] \in {"presource", "premap"} /\ todo'[p] = call[p].names
         /\ Frame(p) /\ file' = file /\ staged'[p] = staged[p]
         /\ replaced'[p] = replaced[p] /\ conflict'[p] = conflict[p]
<1>1. pc[p] = "read" /\ todo[p] # {} /\ First(todo[p]) \in todo[p] /\ First(todo[p]) \in Repo
  BY FirstOf DEF ReadTarget
<1>2. Loop(p, "read", IF call[p].write THEN "presource" ELSE "premap", call[p].names)
  BY DEF ReadTarget
<1>3. \/ /\ todo[p] \ {First(todo[p])} # {}
         /\ pc'[p] = "read" /\ todo'[p] = todo[p] \ {First(todo[p])}
      \/ /\ todo[p] = {First(todo[p])}
         /\ pc'[p] \in {"presource", "premap"} /\ todo'[p] = call[p].names
  BY <1>1, <1>2, LoopFacts
<1>4. prior'[p] = [prior[p] EXCEPT ![First(todo[p])] = file[First(todo[p])]]
  BY DEF ReadTarget, TypeOK
<1>. QED BY <1>1, <1>3, <1>4 DEF ReadTarget, history, Frame

LEMMA CheckSourceFacts ==
  ASSUME TypeOK, NEW p \in Process, CheckSource(p)
  PROVE  /\ Light(p) /\ todo'[p] = todo[p]
         /\ \/ pc[p] = "presource" /\ pc'[p] = "premap"
            \/ pc[p] = "postsource" /\ pc'[p] = "postmap"
            \/ pc[p] = "presource" /\ pc'[p] = "over" /\ result'[p] = "failed"
            \/ /\ pc[p] = "postsource" /\ call[p].write /\ pc'[p] = "unstage"
            \/ /\ pc[p] = "postsource" /\ ~call[p].write /\ pc'[p] = "over" /\ result'[p] = "failed"
<1>1. Light(p) /\ todo'[p] = todo[p]
  BY DEF CheckSource, history, Light, Frame
<1>2. CASE Throw(p)
  BY <1>1, <1>2, ThrowFacts DEF CheckSource, Forward
<1>3. CASE Goto(p, IF pc[p] = "presource" THEN "premap" ELSE "postmap")
  BY <1>1, <1>3 DEF CheckSource, Goto, TypeOK
<1>. QED BY <1>2, <1>3 DEF CheckSource

LEMMA CheckMapFacts ==
  ASSUME TypeOK, NEW p \in Process, CheckMap(p)
  PROVE  /\ Light(p) /\ todo'[p] = todo[p]
         /\ \/ pc[p] = "premap" /\ call[p].write /\ pc'[p] = "open"
            \/ pc[p] = "premap" /\ ~call[p].write /\ pc'[p] = "postsource"
            \/ pc[p] = "premap" /\ pc'[p] = "over" /\ result'[p] = "failed"
            \/ /\ pc[p] = "postmap" /\ call[p].write /\ pc'[p] = "unstage"
            \/ /\ pc[p] = "postmap" /\ ~call[p].write /\ pc'[p] = "over" /\ result'[p] = "failed"
            \/ /\ pc[p] = "postmap" /\ pc'[p] = "over"
               /\ result'[p] = IF call[p].write \/ Drifted(p) = {} THEN "ok" ELSE "drift"
<1>1. Light(p) /\ todo'[p] = todo[p]
  BY DEF CheckMap, history, Light, Frame
<1>2. CASE Throw(p)
  BY <1>1, <1>2, ThrowFacts DEF CheckMap, Forward
<1>3. CASE pc[p] = "premap" /\ Goto(p, IF call[p].write THEN "open" ELSE "postsource")
  BY <1>1, <1>3 DEF Goto, TypeOK
<1>4. CASE pc[p] = "postmap" /\ Over(p, IF call[p].write \/ Drifted(p) = {} THEN "ok" ELSE "drift")
  BY <1>1, <1>4 DEF Over, Goto, TypeOK
<1>. QED BY <1>2, <1>3, <1>4 DEF CheckMap

LEMMA OpenFacts ==
  ASSUME TypeOK, Loops, NEW p \in Process, Open(p)
  PROVE  /\ Light(p) /\ pc[p] = "open" /\ call[p].write
         /\ \/ /\ todo[p] \ {First(todo[p])} # {} /\ First(todo[p]) \in todo[p]
               /\ pc'[p] = "open" /\ todo'[p] = todo[p] \ {First(todo[p])}
            \/ pc'[p] = "stage" /\ todo'[p] = call[p].names
            \/ pc'[p] = "unstage" /\ todo'[p] = todo[p]
<1>1. Light(p) /\ pc[p] = "open" /\ call[p].write /\ todo[p] # {}
  BY DEF Open, history, Light, Frame, Loops, LoopOK
<1>2. CASE Throw(p) /\ UNCHANGED todo
  BY <1>1, <1>2, ThrowFacts DEF Forward
<1>3. CASE Loop(p, "open", "stage", call[p].names)
  BY <1>1, <1>3, LoopFacts
<1>. QED BY <1>2, <1>3 DEF Open

LEMMA StageFacts ==
  ASSUME TypeOK, NEW p \in Process, Stage(p)
  PROVE  /\ pc[p] = "stage" /\ pc'[p] = "assert" /\ todo'[p] = todo[p]
         /\ staged'[p] = [r \in Repo |-> IF r \in call[p].names THEN Desired(p, r) ELSE Absent]
         /\ Frame(p) /\ file' = file /\ prior'[p] = prior[p]
         /\ replaced'[p] = replaced[p] /\ conflict'[p] = conflict[p]
BY DEF Stage, TypeOK, Goto, locals, history, Frame

LEMMA RegisterFacts ==
  ASSUME TypeOK, Loops, NEW p \in Process, Register(p)
  PROVE  /\ pc[p] = "assert" /\ call[p].write /\ First(todo[p]) \in todo[p]
         /\ Frame(p) /\ file' = file /\ prior'[p] = prior[p] /\ staged'[p] = staged[p]
         /\ conflict'[p] = conflict[p] /\ todo'[p] = todo[p]
         /\ \/ /\ pc'[p] = "replace" /\ Unchanged(p, First(todo[p]))
               /\ replaced'[p] = replaced[p] \cup {First(todo[p])}
            \/ pc'[p] = "unstage" /\ replaced'[p] = replaced[p]
<1>1. /\ pc[p] = "assert" /\ call[p].write /\ First(todo[p]) \in todo[p]
      /\ Frame(p) /\ file' = file /\ prior'[p] = prior[p] /\ staged'[p] = staged[p]
      /\ conflict'[p] = conflict[p] /\ todo'[p] = todo[p]
  BY FirstOf DEF Register, history, Frame, Loops, LoopOK, Replacing
<1>2. CASE Throw(p) /\ UNCHANGED replaced
  BY <1>1, <1>2, ThrowFacts DEF Forward
<1>3. CASE /\ Unchanged(p, First(todo[p]))
           /\ replaced' = [replaced EXCEPT ![p] = replaced[p] \cup {First(todo[p])}]
           /\ Goto(p, "replace")
  BY <1>1, <1>3 DEF Goto, TypeOK
<1>. QED BY <1>2, <1>3 DEF Register

LEMMA ReplaceFacts ==
  ASSUME TypeOK, Loops, NEW p \in Process, Replace(p)
  PROVE  /\ pc[p] = "replace" /\ pc'[p] = "readback" /\ todo'[p] = todo[p]
         /\ First(todo[p]) \in todo[p] /\ First(todo[p]) \in Repo
         /\ file' = [file EXCEPT ![First(todo[p])] = staged[p][First(todo[p])]]
         /\ staged'[p] = [staged[p] EXCEPT ![First(todo[p])] = Absent]
         /\ Frame(p) /\ prior'[p] = prior[p]
         /\ replaced'[p] = replaced[p] /\ conflict'[p] = conflict[p]
<1>1. pc[p] = "replace" /\ First(todo[p]) \in todo[p] /\ First(todo[p]) \in Repo
  BY FirstOf DEF Replace, Replacing
<1>2. staged'[p] = [staged[p] EXCEPT ![First(todo[p])] = Absent]
  BY DEF Replace, TypeOK
<1>3. alone'[p] = alone[p]
  BY DEF Replace, SetFile, TypeOK
<1>4. pc'[p] = "readback"
  BY DEF Replace, Goto, TypeOK
<1>. QED BY <1>1, <1>2, <1>3, <1>4 DEF Replace, SetFile, locals, Frame

LEMMA ReadBackFacts ==
  ASSUME TypeOK, Loops, NEW p \in Process, ReadBack(p)
  PROVE  /\ Light(p) /\ pc[p] = "readback" /\ call[p].write /\ First(todo[p]) \in todo[p]
         /\ \/ /\ file[First(todo[p])] = Desired(p, First(todo[p]))
               /\ todo[p] \ {First(todo[p])} # {}
               /\ pc'[p] = "assert" /\ todo'[p] = todo[p] \ {First(todo[p])}
            \/ /\ file[First(todo[p])] = Desired(p, First(todo[p]))
               /\ todo[p] = {First(todo[p])}
               /\ pc'[p] = "postsource" /\ todo'[p] = {}
            \/ pc'[p] = "unstage" /\ todo'[p] = todo[p]
<1>1. /\ Light(p) /\ pc[p] = "readback" /\ call[p].write /\ todo[p] # {}
      /\ First(todo[p]) \in todo[p]
  BY FirstOf DEF ReadBack, history, Light, Frame, Loops, LoopOK, Replacing
<1>2. CASE Throw(p) /\ UNCHANGED todo
  BY <1>1, <1>2, ThrowFacts DEF Forward
<1>3. CASE /\ file[First(todo[p])] = Desired(p, First(todo[p]))
           /\ Loop(p, "assert", "postsource", {})
  BY <1>1, <1>3, LoopFacts
<1>. QED BY <1>2, <1>3 DEF ReadBack

LEMMA UnstageFacts ==
  ASSUME TypeOK, NEW p \in Process, Unstage(p)
  PROVE  /\ pc[p] = "unstage" /\ pc'[p] = "restore" /\ staged'[p] = Nobody /\ todo'[p] = todo[p]
         /\ Frame(p) /\ file' = file /\ prior'[p] = prior[p]
         /\ replaced'[p] = replaced[p] /\ conflict'[p] = conflict[p]
BY DEF Unstage, TypeOK, Goto, locals, history, Frame

\* A restoration has ended: the target is no longer to be put back.
Ended(p, failed) ==
  /\ pc'[p] = "restore" /\ replaced'[p] = replaced[p] \ {Last(replaced[p])}
  /\ conflict'[p] = (conflict[p] \/ failed) /\ staged'[p] = Nobody
  /\ Frame(p) /\ prior'[p] = prior[p] /\ todo'[p] = todo[p] /\ file' = file

LEMMA EndedFacts ==
  ASSUME TypeOK, NEW p \in Process, NEW failed, Restored(p, failed), UNCHANGED <<file, history>>
  PROVE  Ended(p, failed)
BY RestoredFacts DEF Ended, Frame, history

LEMMA RestoreFacts ==
  ASSUME TypeOK, Loops, NEW p \in Process, Restore(p)
  PROVE  /\ pc[p] = "restore" /\ call[p].write
         /\ \/ /\ Light(p) /\ todo'[p] = todo[p] /\ pc'[p] = "over" /\ replaced[p] = {}
               /\ result'[p] = IF conflict[p] THEN "conflict" ELSE "failed"
            \/ replaced[p] # {} /\ Ended(p, TRUE)
            \/ /\ Light(p) /\ todo'[p] = todo[p] /\ replaced[p] # {}
               /\ pc'[p] = IF prior[p][Last(replaced[p])] = Absent THEN "relook" ELSE "put"
<1>1. pc[p] = "restore" /\ call[p].write
  BY DEF Restore, Loops, LoopOK, Backward
<1>2. CASE replaced[p] = {}
  BY <1>1, <1>2 DEF Restore, Over, Goto, TypeOK, history, Light, Frame
<1>3. CASE replaced[p] # {} /\ Restored(p, TRUE)
  BY <1>1, <1>3, EndedFacts DEF Restore
<1>4. CASE /\ replaced[p] # {} /\ UNCHANGED staged
           /\ Keep(p, IF prior[p][Last(replaced[p])] = Absent THEN "relook" ELSE "put")
  BY <1>1, <1>4 DEF Restore, Keep, Goto, TypeOK, locals, history, Light, Frame
<1>. QED BY <1>2, <1>3, <1>4 DEF Restore

\* The last registered target gets a content.
Writes(p, content) ==
  /\ replaced[p] # {} /\ call[p].write
  /\ pc'[p] = "reread" /\ file' = [file EXCEPT ![Last(replaced[p])] = content]
  /\ Frame(p) /\ prior'[p] = prior[p] /\ todo'[p] = todo[p] /\ staged'[p] = staged[p]
  /\ replaced'[p] = replaced[p] /\ conflict'[p] = conflict[p]

LEMMA PutBackFacts ==
  ASSUME TypeOK, Loops, NEW p \in Process, PutBack(p)
  PROVE  pc[p] = "put" /\ Writes(p, prior[p][Last(replaced[p])])
<1>1. pc[p] = "put" /\ replaced[p] # {} /\ call[p].write
  BY DEF PutBack, Loops, LoopOK, Backward
<1>2. pc'[p] = "reread" /\ alone'[p] = alone[p]
  BY DEF PutBack, SetFile, Keep, Goto, TypeOK
<1>. QED BY <1>1, <1>2 DEF PutBack, SetFile, Keep, locals, Writes, Frame

LEMMA LookAgainFacts ==
  ASSUME TypeOK, Loops, NEW p \in Process, LookAgain(p)
  PROVE  /\ pc[p] = "relook" /\ replaced[p] # {} /\ call[p].write
         /\ prior[p][Last(replaced[p])] = Absent
         /\ \/ file[Last(replaced[p])] = Absent /\ Ended(p, FALSE)
            \/ Light(p) /\ todo'[p] = todo[p] /\ pc'[p] = "unlink"
<1>1. /\ pc[p] = "relook" /\ replaced[p] # {} /\ call[p].write
      /\ prior[p][Last(replaced[p])] = Absent
  BY DEF LookAgain, Loops, LoopOK, Backward
<1>2. CASE file[Last(replaced[p])] = Absent
  BY <1>1, <1>2, EndedFacts DEF LookAgain
<1>3. CASE file[Last(replaced[p])] # Absent
  BY <1>1, <1>3 DEF LookAgain, Keep, Goto, TypeOK, locals, history, Light, Frame
<1>. QED BY <1>2, <1>3

LEMMA UnlinkFacts ==
  ASSUME TypeOK, Loops, NEW p \in Process, Unlink(p)
  PROVE  /\ pc[p] = "unlink" /\ replaced[p] # {} /\ call[p].write
         /\ prior[p][Last(replaced[p])] = Absent
         /\ Ended(p, TRUE) \/ Writes(p, Absent)
<1>1. /\ pc[p] = "unlink" /\ replaced[p] # {} /\ call[p].write
      /\ prior[p][Last(replaced[p])] = Absent
  BY DEF Unlink, Loops, LoopOK, Backward
<1>2. CASE file[Last(replaced[p])] = Absent
  BY <1>1, <1>2, EndedFacts DEF Unlink
<1>3. CASE file[Last(replaced[p])] # Absent
  BY <1>1, <1>3 DEF Unlink, SetFile, Keep, Goto, TypeOK, locals, Writes, Frame
<1>. QED BY <1>2, <1>3

LEMMA RereadFacts ==
  ASSUME TypeOK, Loops, NEW p \in Process, Reread(p)
  PROVE  /\ pc[p] = "reread" /\ replaced[p] # {} /\ call[p].write
         /\ Ended(p, ~Unchanged(p, Last(replaced[p])))
BY EndedFacts DEF Reread, Loops, LoopOK, Backward

LEMMA FailFacts ==
  ASSUME TypeOK, Loops, NEW p \in Process, Fail(p)
  PROVE  /\ pc[p] \notin {"idle", "over"}
         /\ \/ pc[p] \in Backward /\ replaced[p] # {} /\ call[p].write /\ Ended(p, TRUE)
            \/ /\ pc[p] \in {"unstage", "restore"} /\ pc'[p] = "over" /\ result'[p] = "interrupted"
               /\ Frame(p) /\ file' = file /\ prior'[p] = prior[p] /\ todo'[p] = todo[p]
               /\ staged'[p] = Nobody /\ replaced'[p] = replaced[p] /\ conflict'[p] = conflict[p]
            \/ /\ Light(p) /\ todo'[p] = todo[p] /\ pc[p] \in Forward /\ call[p].write
               /\ pc'[p] = "unstage"
            \/ /\ Light(p) /\ todo'[p] = todo[p]
               /\ pc[p] \in Reading \/ (pc[p] \in Checked /\ ~call[p].write)
               /\ pc'[p] = "over" /\ result'[p] = "failed"
<1>1. /\ pc[p] \notin {"idle", "over"} /\ Frame(p) /\ file' = file
      /\ prior'[p] = prior[p] /\ todo'[p] = todo[p]
  BY DEF Fail, history, Frame
<1>2. CASE pc[p] \in Backward /\ replaced[p] # {}
  <2>1. call[p].write
    BY <1>2 DEF Loops, LoopOK
  <2>2. /\ pc' = [pc EXCEPT ![p] = "restore"] /\ staged' = [staged EXCEPT ![p] = Nobody]
        /\ replaced' = [replaced EXCEPT ![p] = replaced[p] \ {Last(replaced[p])}]
        /\ conflict' = [conflict EXCEPT ![p] = TRUE]
    BY <1>2 DEF Fail, Goto
  <2>3. Ended(p, TRUE)
    BY <1>1, <2>2 DEF Ended, TypeOK
  <2>. QED BY <1>1, <1>2, <2>1, <2>3
<1>3. CASE ~(pc[p] \in Backward /\ replaced[p] # {}) /\ pc[p] \in {"unstage", "restore"}
  BY <1>1, <1>3 DEF Fail, Over, Goto, TypeOK
<1>4. CASE /\ ~(pc[p] \in Backward /\ replaced[p] # {}) /\ pc[p] \notin {"unstage", "restore"}
           /\ Throw(p) /\ UNCHANGED <<staged, replaced, conflict>>
  <2>1. pc[p] \in Reading \/ pc[p] \in Forward
    <3>1. pc[p] \in Backward => replaced[p] # {} \/ pc[p] = "restore"
      BY DEF Loops, LoopOK
    <3>. QED BY <1>1, <1>4, <3>1 DEF TypeOK, Statement
  <2>2. pc[p] \in Forward => call[p].write \/ pc[p] \in Checked
    BY DEF Loops, LoopOK, Forward, Replacing, Checked
  <2>3. Light(p)
    BY <1>1, <1>4 DEF Light
  <2>. QED BY <1>1, <1>4, <2>1, <2>2, <2>3, ThrowFacts
<1>. QED BY <1>2, <1>3, <1>4 DEF Fail
-------------------------------------------------------------------------------
\* A step keeps the invariant of the process that takes it

LEMMA LoopStep ==
  ASSUME TypeOK, TypeOK', Loops, NEW p \in Process, Step(p)
  PROVE  LoopOK(p)'
<1>1. CASE Start(p)
  BY <1>1, StartFacts DEF Loops, LoopOK, Light, Frame, Ended, Writes, Reading, Replacing, Checked, Forward, Backward
<1>2. CASE ReadSource(p)
  BY <1>2, ReadSourceFacts DEF Loops, LoopOK, Light, Frame, Ended, Writes, Reading, Replacing, Checked, Forward, Backward
<1>3. CASE ReadTarget(p)
  <2>1. /\ pc[p] = "read" /\ todo[p] # {} /\ todo[p] \subseteq call[p].names
        /\ replaced[p] = {} /\ ~conflict[p] /\ canonical[p] # Absent
    BY <1>3 DEF ReadTarget, Loops, LoopOK, Reading
  <2>2. /\ Frame(p) /\ replaced'[p] = {} /\ ~conflict'[p] /\ todo'[p] # {}
        /\ \/ pc'[p] = "read" /\ todo'[p] \subseteq call[p].names
           \/ pc'[p] \in {"presource", "premap"} /\ todo'[p] = call[p].names
    BY <1>3, <2>1, ReadTargetFacts
  <2>. QED BY <2>1, <2>2 DEF LoopOK, Frame, Reading, Replacing, Checked, Forward, Backward
<1>4. CASE CheckSource(p)
  BY <1>4, CheckSourceFacts DEF Loops, LoopOK, Light, Frame, Ended, Writes, Reading, Replacing, Checked, Forward, Backward
<1>5. CASE CheckMap(p)
  <2>1. /\ todo[p] \subseteq call[p].names /\ replaced[p] \subseteq call[p].names /\ ~conflict[p]
        /\ canonical[p] # Absent
        /\ pc[p] = "premap" => replaced[p] = {} /\ todo[p] = call[p].names /\ todo[p] # {}
    BY <1>5 DEF CheckMap, Loops, LoopOK, Reading, Forward
  <2>2. /\ Light(p) /\ todo'[p] = todo[p]
        /\ \/ pc[p] = "premap" /\ call[p].write /\ pc'[p] = "open"
           \/ pc[p] = "premap" /\ ~call[p].write /\ pc'[p] = "postsource"
           \/ pc'[p] = "over"
           \/ call[p].write /\ pc'[p] = "unstage"
    BY <1>5, CheckMapFacts
  <2>. QED BY <2>1, <2>2 DEF LoopOK, Light, Frame, Reading, Replacing, Checked, Forward, Backward
<1>6. CASE Open(p)
  BY <1>6, OpenFacts DEF Loops, LoopOK, Light, Frame, Ended, Writes, Reading, Replacing, Checked, Forward, Backward
<1>7. CASE Stage(p)
  <2>1. /\ pc[p] = "stage" /\ todo[p] # {} /\ todo[p] = call[p].names /\ call[p].write
        /\ replaced[p] = {} /\ ~conflict[p] /\ canonical[p] # Absent
    BY <1>7 DEF Stage, Loops, LoopOK, Forward
  <2>2. /\ Frame(p) /\ pc'[p] = "assert" /\ todo'[p] = todo[p]
        /\ replaced'[p] = {} /\ ~conflict'[p]
    BY <1>7, <2>1, StageFacts
  <2>3. replaced'[p] = call'[p].names \ todo'[p]
    BY <2>1, <2>2 DEF Frame
  <2>. QED BY <2>1, <2>2, <2>3 DEF LoopOK, Frame, Reading, Replacing, Checked, Forward, Backward
<1>8. CASE Register(p)
  BY <1>8, RegisterFacts DEF Loops, LoopOK, Light, Frame, Ended, Writes, Reading, Replacing, Checked, Forward, Backward
<1>9. CASE Replace(p)
  <2>1. /\ pc[p] = "replace" /\ todo[p] # {} /\ todo[p] \subseteq call[p].names /\ call[p].write
        /\ replaced[p] \subseteq call[p].names /\ ~conflict[p] /\ canonical[p] # Absent
        /\ replaced[p] = (call[p].names \ todo[p]) \cup {First(todo[p])}
    BY <1>9 DEF Replace, Loops, LoopOK, Replacing, Forward
  <2>2. /\ Frame(p) /\ pc'[p] = "readback" /\ todo'[p] = todo[p]
        /\ replaced'[p] = replaced[p] /\ ~conflict'[p]
    BY <1>9, <2>1, ReplaceFacts
  <2>. QED BY <2>1, <2>2 DEF LoopOK, Frame, Reading, Replacing, Checked, Forward, Backward
<1>10. CASE ReadBack(p)
  <2>1. /\ pc[p] = "readback" /\ todo[p] # {} /\ todo[p] \subseteq call[p].names /\ call[p].write
        /\ replaced[p] \subseteq call[p].names /\ ~conflict[p] /\ canonical[p] # Absent
        /\ replaced[p] = (call[p].names \ todo[p]) \cup {First(todo[p])}
    BY <1>10 DEF ReadBack, Loops, LoopOK, Replacing, Forward
  <2>. DEFINE t == First(todo[p])
  <2>2. /\ Light(p) /\ t \in todo[p]
        /\ \/ /\ todo[p] \ {t} # {} /\ pc'[p] = "assert" /\ todo'[p] = todo[p] \ {t}
           \/ todo[p] = {t} /\ pc'[p] = "postsource" /\ todo'[p] = {}
           \/ pc'[p] = "unstage" /\ todo'[p] = todo[p]
    BY <1>10, ReadBackFacts
  <2>. HIDE DEF t
  <2>3. replaced[p] = (call[p].names \ todo[p]) \cup {t}
    BY <2>1 DEF t
  <2>4. pc'[p] = "assert" => replaced[p] = call[p].names \ todo'[p]
    BY <2>1, <2>2, <2>3
  <2>5. pc'[p] = "postsource" => replaced[p] = call[p].names
    BY <2>1, <2>2, <2>3
  <2>6. todo'[p] \subseteq call[p].names /\ (pc'[p] = "assert" => todo'[p] # {})
    BY <2>1, <2>2
  <2>7. pc'[p] \in {"assert", "postsource", "unstage"}
    BY <2>2
  <2>. QED BY <2>1, <2>2, <2>4, <2>5, <2>6, <2>7
           DEF LoopOK, Light, Frame, Reading, Replacing, Checked, Forward, Backward
<1>11. CASE Unstage(p)
  BY <1>11, UnstageFacts DEF Loops, LoopOK, Light, Frame, Ended, Writes, Reading, Replacing, Checked, Forward, Backward
<1>12. CASE Restore(p)
  BY <1>12, RestoreFacts DEF Loops, LoopOK, Light, Frame, Ended, Writes, Reading, Replacing, Checked, Forward, Backward
<1>13. CASE PutBack(p)
  BY <1>13, PutBackFacts DEF Loops, LoopOK, Light, Frame, Ended, Writes, Reading, Replacing, Checked, Forward, Backward
<1>14. CASE LookAgain(p)
  BY <1>14, LookAgainFacts DEF Loops, LoopOK, Light, Frame, Ended, Writes, Reading, Replacing, Checked, Forward, Backward
<1>15. CASE Unlink(p)
  BY <1>15, UnlinkFacts DEF Loops, LoopOK, Light, Frame, Ended, Writes, Reading, Replacing, Checked, Forward, Backward
<1>16. CASE Reread(p)
  BY <1>16, RereadFacts DEF Loops, LoopOK, Light, Frame, Ended, Writes, Reading, Replacing, Checked, Forward, Backward
<1>17. CASE Exit(p)
  BY <1>17, RestFacts DEF Loops, LoopOK, Light, Frame, Ended, Writes, Reading, Replacing, Checked, Forward, Backward, Exit
<1>18. CASE Fail(p)
  BY <1>18, FailFacts DEF Loops, LoopOK, Light, Frame, Ended, Writes, Reading, Replacing, Checked, Forward, Backward
<1>19. CASE Crash(p)
  BY <1>19, RestFacts DEF Loops, LoopOK, Light, Frame, Ended, Writes, Reading, Replacing, Checked, Forward, Backward, Crash
<1>. QED BY <1>1, <1>2, <1>3, <1>4, <1>5, <1>6, <1>7, <1>8, <1>9, <1>10,
            <1>11, <1>12, <1>13, <1>14, <1>15, <1>16, <1>17, <1>18, <1>19 DEF Step

LEMMA StagedStep ==
  ASSUME TypeOK, TypeOK', Loops, NEW p \in Process, Step(p), StagedRight
  PROVE  StagedOK(p)'
<1>1. CASE Start(p)
  BY <1>1, StartFacts DEF Loops, LoopOK, StagedRight, StagedOK, Desired, Light, Frame, Ended, Writes, Reading, Replacing, Checked, Forward, Backward
<1>2. CASE ReadSource(p)
  BY <1>2, ReadSourceFacts DEF Loops, LoopOK, StagedRight, StagedOK, Desired, Light, Frame, Ended, Writes, Reading, Replacing, Checked, Forward, Backward
<1>3. CASE ReadTarget(p)
  <2>1. staged[p] = Nobody
    BY <1>3 DEF ReadTarget, StagedRight, StagedOK, Reading
  <2>2. staged'[p] = Nobody /\ pc'[p] \in Reading
    BY <1>3, <2>1, ReadTargetFacts DEF Reading
  <2>. QED BY <2>2 DEF StagedOK, Reading
<1>4. CASE CheckSource(p)
  BY <1>4, CheckSourceFacts DEF Loops, LoopOK, StagedRight, StagedOK, Desired, Light, Frame, Ended, Writes, Reading, Replacing, Checked, Forward, Backward
<1>5. CASE CheckMap(p)
  BY <1>5, CheckMapFacts DEF Loops, LoopOK, StagedRight, StagedOK, Desired, Light, Frame, Ended, Writes, Reading, Replacing, Checked, Forward, Backward
<1>6. CASE Open(p)
  BY <1>6, OpenFacts DEF Loops, LoopOK, StagedRight, StagedOK, Desired, Light, Frame, Ended, Writes, Reading, Replacing, Checked, Forward, Backward
<1>7. CASE Stage(p)
  <2>1. todo[p] = call[p].names
    BY <1>7 DEF Stage, Loops, LoopOK
  <2>2. /\ pc'[p] = "assert" /\ todo'[p] = todo[p]
        /\ canonical'[p] = canonical[p] /\ prior'[p] = prior[p]
        /\ staged'[p] = [r \in Repo |-> IF r \in call[p].names THEN Desired(p, r) ELSE Absent]
    BY <1>7, StageFacts DEF Frame
  <2>3. \A r \in Repo : staged'[p][r] = IF r \in todo'[p] THEN Desired(p, r) ELSE Absent
    BY <2>1, <2>2
  <2>4. \A r \in Repo : Desired(p, r)' = Desired(p, r)
    BY <2>2 DEF Desired
  <2>. QED BY <2>2, <2>3, <2>4 DEF StagedOK, Reading, Checked, Backward
<1>8. CASE Register(p)
  BY <1>8, RegisterFacts DEF Loops, LoopOK, StagedRight, StagedOK, Desired, Light, Frame, Ended, Writes, Reading, Replacing, Checked, Forward, Backward
<1>9. CASE Replace(p)
  <2>. DEFINE t == First(todo[p])
  <2>1. \A r \in Repo : staged[p][r] = IF r \in todo[p] THEN Desired(p, r) ELSE Absent
    BY <1>9 DEF Replace, StagedRight, StagedOK
  <2>2. /\ pc'[p] = "readback" /\ todo'[p] = todo[p] /\ t \in Repo
        /\ canonical'[p] = canonical[p] /\ prior'[p] = prior[p]
        /\ staged'[p] = [staged[p] EXCEPT ![t] = Absent]
    BY <1>9, ReplaceFacts DEF Frame
  <2>3. First(todo'[p]) = t
    BY <2>2
  <2>. HIDE DEF t
  <2>4. \A r \in Repo : staged'[p][r] = IF r \in todo'[p] \ {t} THEN Desired(p, r) ELSE Absent
    BY <2>1, <2>2 DEF TypeOK
  <2>5. \A r \in Repo : Desired(p, r)' = Desired(p, r)
    BY <2>2 DEF Desired
  <2>. QED BY <2>2, <2>3, <2>4, <2>5 DEF StagedOK, Reading, Checked, Backward
<1>10. CASE ReadBack(p)
  <2>. DEFINE t == First(todo[p])
  <2>1. \A r \in Repo : staged[p][r] = IF r \in todo[p] \ {t} THEN Desired(p, r) ELSE Absent
    BY <1>10 DEF ReadBack, StagedRight, StagedOK
  <2>2. /\ canonical'[p] = canonical[p] /\ prior'[p] = prior[p] /\ staged'[p] = staged[p]
        /\ \/ pc'[p] = "assert" /\ todo'[p] = todo[p] \ {t}
           \/ todo[p] = {t} /\ pc'[p] = "postsource"
           \/ pc'[p] = "unstage"
    BY <1>10, ReadBackFacts DEF Light, Frame
  <2>. HIDE DEF t
  <2>3. \A r \in Repo : Desired(p, r)' = Desired(p, r)
    BY <2>2 DEF Desired
  <2>4. CASE pc'[p] = "assert" /\ todo'[p] = todo[p] \ {t}
    BY <2>1, <2>2, <2>3, <2>4 DEF StagedOK, Reading, Checked, Backward
  <2>5. CASE todo[p] = {t} /\ pc'[p] = "postsource"
    <3>1. staged[p] = Nobody
      BY <2>1, <2>5 DEF Nobody, TypeOK
    <3>. QED BY <2>2, <2>5, <3>1 DEF StagedOK
  <2>6. CASE pc'[p] = "unstage"
    BY <2>6 DEF StagedOK, Reading, Checked, Backward
  <2>. QED BY <2>2, <2>4, <2>5, <2>6
<1>11. CASE Unstage(p)
  BY <1>11, UnstageFacts DEF Loops, LoopOK, StagedRight, StagedOK, Desired, Light, Frame, Ended, Writes, Reading, Replacing, Checked, Forward, Backward
<1>12. CASE Restore(p)
  BY <1>12, RestoreFacts DEF Loops, LoopOK, StagedRight, StagedOK, Desired, Light, Frame, Ended, Writes, Reading, Replacing, Checked, Forward, Backward
<1>13. CASE PutBack(p)
  BY <1>13, PutBackFacts DEF Loops, LoopOK, StagedRight, StagedOK, Desired, Light, Frame, Ended, Writes, Reading, Replacing, Checked, Forward, Backward
<1>14. CASE LookAgain(p)
  BY <1>14, LookAgainFacts DEF Loops, LoopOK, StagedRight, StagedOK, Desired, Light, Frame, Ended, Writes, Reading, Replacing, Checked, Forward, Backward
<1>15. CASE Unlink(p)
  BY <1>15, UnlinkFacts DEF Loops, LoopOK, StagedRight, StagedOK, Desired, Light, Frame, Ended, Writes, Reading, Replacing, Checked, Forward, Backward
<1>16. CASE Reread(p)
  BY <1>16, RereadFacts DEF Loops, LoopOK, StagedRight, StagedOK, Desired, Light, Frame, Ended, Writes, Reading, Replacing, Checked, Forward, Backward
<1>17. CASE Exit(p)
  BY <1>17, RestFacts DEF Loops, LoopOK, StagedRight, StagedOK, Desired, Light, Frame, Ended, Writes, Reading, Replacing, Checked, Forward, Backward, Exit
<1>18. CASE Fail(p)
  BY <1>18, FailFacts DEF Loops, LoopOK, StagedRight, StagedOK, Desired, Light, Frame, Ended, Writes, Reading, Replacing, Checked, Forward, Backward
<1>19. CASE Crash(p)
  BY <1>19, RestFacts DEF Loops, LoopOK, StagedRight, StagedOK, Desired, Light, Frame, Ended, Writes, Reading, Replacing, Checked, Forward, Backward, Crash
<1>. QED BY <1>1, <1>2, <1>3, <1>4, <1>5, <1>6, <1>7, <1>8, <1>9, <1>10,
            <1>11, <1>12, <1>13, <1>14, <1>15, <1>16, <1>17, <1>18, <1>19 DEF Step

LEMMA PriorStep ==
  ASSUME TypeOK, TypeOK', Loops, NEW p \in Process, Step(p), PriorRight, FileRight
  PROVE  alone'[p] => PriorOK(p)'
<1>1. CASE Start(p)
  BY <1>1, StartFacts DEF Loops, LoopOK, PriorRight, PriorOK, FileRight, FileOK, Light, Frame, Ended, Writes, Reading, Replacing, Checked, Forward, Backward
<1>2. CASE ReadSource(p)
  BY <1>2, ReadSourceFacts DEF Loops, LoopOK, PriorRight, PriorOK, FileRight, FileOK, Light, Frame, Ended, Writes, Reading, Replacing, Checked, Forward, Backward
<1>3. CASE ReadTarget(p)
  <2>. SUFFICES ASSUME alone'[p] PROVE PriorOK(p)'
    OBVIOUS
  <2>. DEFINE t == First(todo[p])
  <2>1. /\ pc[p] = "read" /\ t \in todo[p] /\ t \in Repo /\ Frame(p)
        /\ prior'[p] = [prior[p] EXCEPT ![t] = file[t]]
        /\ \/ pc'[p] = "read" /\ todo'[p] = todo[p] \ {t}
           \/ todo[p] = {t} /\ pc'[p] \in {"presource", "premap"} /\ todo'[p] = call[p].names
    BY <1>3, ReadTargetFacts
  <2>2. call[p].names \subseteq Repo /\ prior[p] \in [Repo -> FileState \cup {Absent}]
    BY DEF TypeOK
  <2>3. file = old[p] /\ \A r \in call[p].names \ todo[p] : prior[p][r] = old[p][r]
    BY <2>1 DEF Frame, FileRight, FileOK, PriorRight, PriorOK, Reading
  <2>. HIDE DEF t
  <2>4. \A r \in call[p].names : r \notin todo[p] \/ r = t => prior'[p][r] = old[p][r]
    BY <2>1, <2>2, <2>3
  <2>. QED BY <2>1, <2>4 DEF PriorOK, Frame, Forward, Backward
<1>4. CASE CheckSource(p)
  BY <1>4, CheckSourceFacts DEF Loops, LoopOK, PriorRight, PriorOK, FileRight, FileOK, Light, Frame, Ended, Writes, Reading, Replacing, Checked, Forward, Backward
<1>5. CASE CheckMap(p)
  BY <1>5, CheckMapFacts DEF Loops, LoopOK, PriorRight, PriorOK, FileRight, FileOK, Light, Frame, Ended, Writes, Reading, Replacing, Checked, Forward, Backward
<1>6. CASE Open(p)
  BY <1>6, OpenFacts DEF Loops, LoopOK, PriorRight, PriorOK, FileRight, FileOK, Light, Frame, Ended, Writes, Reading, Replacing, Checked, Forward, Backward
<1>7. CASE Stage(p)
  <2>1. pc[p] = "stage" /\ pc'[p] = "assert" /\ Frame(p) /\ prior'[p] = prior[p]
    BY <1>7, StageFacts
  <2>. QED BY <2>1 DEF PriorRight, PriorOK, Frame, Forward
<1>8. CASE Register(p)
  BY <1>8, RegisterFacts DEF Loops, LoopOK, PriorRight, PriorOK, FileRight, FileOK, Light, Frame, Ended, Writes, Reading, Replacing, Checked, Forward, Backward
<1>9. CASE Replace(p)
  <2>1. pc[p] = "replace" /\ pc'[p] = "readback" /\ Frame(p) /\ prior'[p] = prior[p]
    BY <1>9, ReplaceFacts
  <2>. QED BY <2>1 DEF PriorRight, PriorOK, Frame, Forward
<1>10. CASE ReadBack(p)
  BY <1>10, ReadBackFacts DEF Loops, LoopOK, PriorRight, PriorOK, FileRight, FileOK, Light, Frame, Ended, Writes, Reading, Replacing, Checked, Forward, Backward
<1>11. CASE Unstage(p)
  BY <1>11, UnstageFacts DEF Loops, LoopOK, PriorRight, PriorOK, FileRight, FileOK, Light, Frame, Ended, Writes, Reading, Replacing, Checked, Forward, Backward
<1>12. CASE Restore(p)
  BY <1>12, RestoreFacts DEF Loops, LoopOK, PriorRight, PriorOK, FileRight, FileOK, Light, Frame, Ended, Writes, Reading, Replacing, Checked, Forward, Backward
<1>13. CASE PutBack(p)
  BY <1>13, PutBackFacts DEF Loops, LoopOK, PriorRight, PriorOK, FileRight, FileOK, Light, Frame, Ended, Writes, Reading, Replacing, Checked, Forward, Backward
<1>14. CASE LookAgain(p)
  BY <1>14, LookAgainFacts DEF Loops, LoopOK, PriorRight, PriorOK, FileRight, FileOK, Light, Frame, Ended, Writes, Reading, Replacing, Checked, Forward, Backward
<1>15. CASE Unlink(p)
  BY <1>15, UnlinkFacts DEF Loops, LoopOK, PriorRight, PriorOK, FileRight, FileOK, Light, Frame, Ended, Writes, Reading, Replacing, Checked, Forward, Backward
<1>16. CASE Reread(p)
  BY <1>16, RereadFacts DEF Loops, LoopOK, PriorRight, PriorOK, FileRight, FileOK, Light, Frame, Ended, Writes, Reading, Replacing, Checked, Forward, Backward
<1>17. CASE Exit(p)
  BY <1>17, RestFacts DEF Loops, LoopOK, PriorRight, PriorOK, FileRight, FileOK, Light, Frame, Ended, Writes, Reading, Replacing, Checked, Forward, Backward, Exit
<1>18. CASE Fail(p)
  BY <1>18, FailFacts DEF Loops, LoopOK, PriorRight, PriorOK, FileRight, FileOK, Light, Frame, Ended, Writes, Reading, Replacing, Checked, Forward, Backward
<1>19. CASE Crash(p)
  BY <1>19, RestFacts DEF Loops, LoopOK, PriorRight, PriorOK, FileRight, FileOK, Light, Frame, Ended, Writes, Reading, Replacing, Checked, Forward, Backward, Crash
<1>. QED BY <1>1, <1>2, <1>3, <1>4, <1>5, <1>6, <1>7, <1>8, <1>9, <1>10,
            <1>11, <1>12, <1>13, <1>14, <1>15, <1>16, <1>17, <1>18, <1>19 DEF Step

\* The targets do not change, nor what the call remembers of them.
LEMMA MixedStays ==
  ASSUME NEW p \in Process, Mixed(p), Frame(p), file' = file, prior'[p] = prior[p],
         replaced'[p] = replaced[p], conflict'[p] = conflict[p]
  PROVE  Mixed(p)'
BY DEF Mixed, Frame, Desired

LEMMA LightFile ==
  ASSUME NEW p \in Process, Light(p)
  PROVE  /\ Mixed(p) => Mixed(p)'
         /\ Written(p, replaced[p]) => Written(p, replaced[p])'
<1>1. Mixed(p) => Mixed(p)'
  BY MixedStays DEF Light
<1>2. Written(p, replaced[p]) => Written(p, replaced[p])'
  BY DEF Light, Frame, Written, Desired
<1>. QED BY <1>1, <1>2

\* A target that is registered was read while the call was alone.
LEMMA PriorOld ==
  ASSUME TypeOK, Loops, NEW p \in Process, PriorOK(p), pc[p] \in Backward, replaced[p] # {}
  PROVE  prior[p][Last(replaced[p])] = old[p][Last(replaced[p])]
<1>1. Last(replaced[p]) \in call[p].names
  BY LastOf DEF Loops, LoopOK
<1>. QED BY <1>1 DEF PriorOK

LEMMA EndedFile ==
  ASSUME TypeOK, NEW p \in Process, Mixed(p), replaced[p] # {}, NEW failed, Ended(p, failed),
         failed \/ file[Last(replaced[p])] = old[p][Last(replaced[p])]
  PROVE  FileOK(p)'
<1>. DEFINE l == Last(replaced[p])
<1>1. /\ pc'[p] = "restore" /\ replaced'[p] = replaced[p] \ {l}
      /\ conflict'[p] = (conflict[p] \/ failed) /\ Frame(p) /\ prior'[p] = prior[p] /\ file' = file
  BY DEF Ended
<1>2. failed \/ file[l] = old[p][l]
  OBVIOUS
<1>. HIDE DEF l
<1>3. \A r \in Repo : Desired(p, r)' = Desired(p, r)
  BY <1>1 DEF Desired, Frame
<1>4. Mixed(p)'
  <2>1. CASE failed
    <3>1. conflict'[p]
      BY <1>1, <2>1
    <3>. QED BY <1>1, <1>3, <3>1 DEF Mixed, Frame
  <2>2. CASE file[l] = old[p][l]
    <3>1. conflict[p] => conflict'[p]
      BY <1>1
    <3>. QED BY <1>1, <1>3, <2>2, <3>1 DEF Mixed, Frame
  <2>. QED BY <1>2, <2>1, <2>2
<1>. QED BY <1>1, <1>4 DEF FileOK, Reading, Replacing, Checked, Backward

LEMMA WritesFile ==
  ASSUME TypeOK, Loops, NEW p \in Process, PriorOK(p), FileOK(p), pc[p] \in Backward,
         Writes(p, prior[p][Last(replaced[p])])
  PROVE  FileOK(p)'
<1>. DEFINE l == Last(replaced[p])
<1>1. /\ pc'[p] = "reread" /\ file' = [file EXCEPT ![l] = prior[p][l]] /\ Frame(p)
      /\ prior'[p] = prior[p] /\ replaced'[p] = replaced[p] /\ conflict'[p] = conflict[p]
      /\ replaced[p] # {}
  BY DEF Writes
<1>2. l \in replaced[p] /\ l \in Repo /\ prior[p][l] = old[p][l]
  BY <1>1, LastOf, PriorOld
<1>3. Last(replaced'[p]) = l
  BY <1>1
<1>4. Mixed(p) /\ file \in [Repo -> FileState \cup {Absent}]
  BY DEF FileOK, TypeOK
<1>. HIDE DEF l
<1>5. \A r \in Repo : Desired(p, r)' = Desired(p, r)
  BY <1>1 DEF Desired, Frame
<1>6. \A r \in Repo : file'[r] = IF r = l THEN old[p][l] ELSE file[r]
  BY <1>1, <1>2, <1>4
<1>7. Mixed(p)'
  BY <1>1, <1>2, <1>4, <1>5, <1>6 DEF Mixed, Frame
<1>8. Unchanged(p, Last(replaced[p]))'
  BY <1>1, <1>2, <1>3, <1>6 DEF Unchanged
<1>. QED BY <1>1, <1>7, <1>8 DEF FileOK, Reading, Replacing, Checked, Backward

LEMMA FileStep ==
  ASSUME TypeOK, TypeOK', Loops, NEW p \in Process, Step(p), StagedRight, PriorRight, FileRight
  PROVE  alone'[p] => FileOK(p)'
<1>1. CASE Start(p)
  BY <1>1, StartFacts DEF FileOK, Reading, Replacing, Checked, Backward
<1>2. CASE ReadSource(p)
  BY <1>2, ReadSourceFacts DEF FileRight, FileOK, Light, Frame, Reading, Replacing, Checked, Forward, Backward
<1>3. CASE ReadTarget(p)
  <2>1. pc[p] = "read" /\ pc'[p] \in Reading /\ Frame(p) /\ file' = file
    BY <1>3, ReadTargetFacts DEF Reading
  <2>. QED BY <2>1 DEF FileRight, FileOK, Frame, Reading, Replacing, Checked, Backward
<1>4. CASE CheckSource(p)
  <2>1. CASE pc'[p] = "over"
    BY <2>1 DEF FileOK, Reading, Replacing, Checked, Backward
  <2>2. CASE pc[p] = "presource" /\ pc'[p] = "premap"
    BY <1>4, <2>2, CheckSourceFacts DEF FileRight, FileOK, Light, Frame, Reading, Replacing, Checked, Backward
  <2>3. CASE pc[p] = "postsource" /\ pc'[p] \in {"postmap", "unstage"}
    <3>. SUFFICES ASSUME alone'[p] PROVE FileOK(p)'
      OBVIOUS
    <3>1. Light(p) /\ alone[p]
      BY <1>4, CheckSourceFacts DEF Light, Frame
    <3>2. /\ Mixed(p) /\ (call[p].write => Written(p, replaced[p]))
          /\ ~call[p].write => file = old[p]
      BY <2>3, <3>1 DEF FileRight, FileOK, Checked
    <3>3. /\ Mixed(p)' /\ (call'[p].write => Written(p, replaced[p])')
          /\ ~call'[p].write => file' = old'[p]
      BY <3>1, <3>2, LightFile DEF Light, Frame
    <3>. QED BY <2>3, <3>3 DEF FileOK, Reading, Replacing, Checked, Backward
  <2>. QED BY <1>4, <2>1, <2>2, <2>3, CheckSourceFacts
<1>5. CASE CheckMap(p)
  <2>1. CASE pc'[p] = "over"
    BY <2>1 DEF FileOK, Reading, Replacing, Checked, Backward
  <2>2. CASE pc[p] = "premap" /\ pc'[p] = "open"
    BY <1>5, <2>2, CheckMapFacts DEF FileRight, FileOK, Light, Frame, Reading, Replacing, Checked, Backward
  <2>3. CASE pc[p] = "premap" /\ ~call[p].write /\ pc'[p] = "postsource"
    <3>1. Light(p) /\ replaced[p] = {}
      BY <1>5, <2>3, CheckMapFacts DEF Loops, LoopOK, Reading
    <3>2. alone[p] => file = old[p] /\ Mixed(p)
      BY <2>3, <3>1 DEF FileRight, FileOK, Mixed, Reading
    <3>. QED BY <2>3, <3>1, <3>2, LightFile DEF FileOK, Light, Frame, Reading, Replacing, Checked, Backward
  <2>4. CASE pc[p] = "postmap" /\ pc'[p] = "unstage"
    <3>1. Light(p)
      BY <1>5, CheckMapFacts
    <3>. QED BY <2>4, <3>1, LightFile DEF FileRight, FileOK, Light, Frame, Reading, Replacing, Checked, Backward
  <2>. QED BY <1>5, <2>1, <2>2, <2>3, <2>4, CheckMapFacts
<1>6. CASE Open(p)
  <2>1. Light(p) /\ pc[p] = "open" /\ pc'[p] \in {"open", "stage", "unstage"} /\ replaced[p] = {}
    BY <1>6, OpenFacts DEF Loops, LoopOK
  <2>2. alone[p] => file = old[p] /\ Mixed(p)
    BY <2>1 DEF FileRight, FileOK, Mixed
  <2>. QED BY <2>1, <2>2, LightFile DEF FileOK, Light, Frame, Reading, Replacing, Checked, Backward
<1>7. CASE Stage(p)
  <2>1. /\ pc[p] = "stage" /\ pc'[p] = "assert" /\ replaced'[p] = {} /\ Frame(p) /\ file' = file
    BY <1>7, StageFacts DEF Loops, LoopOK
  <2>2. alone[p] => file' = old'[p]
    BY <2>1 DEF FileRight, FileOK, Frame
  <2>3. alone[p] => Mixed(p)' /\ Written(p, {})'
    BY <2>1, <2>2 DEF Mixed, Written
  <2>. QED BY <2>1, <2>3 DEF FileOK, Frame, Written, Reading, Replacing, Checked, Backward
<1>8. CASE Register(p)
  <2>. SUFFICES ASSUME alone'[p] PROVE FileOK(p)'
    OBVIOUS
  <2>. DEFINE t == First(todo[p])
  <2>1. /\ pc[p] = "assert" /\ t \in todo[p] /\ Frame(p) /\ file' = file /\ prior'[p] = prior[p]
        /\ conflict'[p] = conflict[p] /\ todo'[p] = todo[p]
        /\ \/ pc'[p] = "replace" /\ replaced'[p] = replaced[p] \cup {t}
           \/ pc'[p] = "unstage" /\ replaced'[p] = replaced[p]
    BY <1>8, RegisterFacts
  <2>2. replaced[p] = call[p].names \ todo[p] /\ ~conflict[p] /\ replaced[p] \subseteq Repo
    BY <2>1 DEF Loops, LoopOK, Forward, TypeOK
  <2>3. Mixed(p) /\ Written(p, replaced[p])
    BY <2>1 DEF FileRight, FileOK, Frame, Replacing
  <2>4. First(todo'[p]) = t
    BY <2>1
  <2>. HIDE DEF t
  <2>5. \A r \in Repo : Desired(p, r)' = Desired(p, r)
    BY <2>1 DEF Desired, Frame
  <2>6. Mixed(p)'
    BY <2>1, <2>2, <2>3, <2>5 DEF Mixed, Frame
  <2>7. pc'[p] = "replace" => \A r \in replaced'[p] \ {t} : file'[r] = Desired(p, r)'
    BY <2>1, <2>2, <2>3, <2>5 DEF Written
  <2>8. pc'[p] \in {"replace", "unstage"}
    BY <2>1
  <2>. QED BY <2>4, <2>6, <2>7, <2>8 DEF FileOK, Reading, Replacing, Checked, Backward, Written
<1>9. CASE Replace(p)
  <2>. SUFFICES ASSUME alone'[p] PROVE FileOK(p)'
    OBVIOUS
  <2>. DEFINE t == First(todo[p])
  <2>1. /\ pc[p] = "replace" /\ pc'[p] = "readback" /\ t \in todo[p] /\ t \in Repo /\ Frame(p)
        /\ file' = [file EXCEPT ![t] = staged[p][t]] /\ todo'[p] = todo[p]
        /\ prior'[p] = prior[p] /\ replaced'[p] = replaced[p] /\ conflict'[p] = conflict[p]
    BY <1>9, ReplaceFacts
  <2>2. t \in replaced[p] /\ replaced[p] \subseteq Repo /\ file \in [Repo -> FileState \cup {Absent}]
    BY <2>1 DEF Loops, LoopOK, TypeOK
  <2>3. Mixed(p) /\ Written(p, replaced[p] \ {t})
    BY <2>1 DEF FileRight, FileOK, Frame, Replacing
  <2>4. First(todo'[p]) = t
    BY <2>1
  <2>5. staged[p][t] = Desired(p, t)
    BY <2>1 DEF StagedRight, StagedOK
  <2>. HIDE DEF t
  <2>6. \A r \in Repo : Desired(p, r)' = Desired(p, r)
    BY <2>1 DEF Desired, Frame
  <2>7. \A r \in Repo : file'[r] = IF r = t THEN Desired(p, t) ELSE file[r]
    BY <2>1, <2>2, <2>5
  <2>8. Mixed(p)'
    BY <2>1, <2>2, <2>3, <2>6, <2>7 DEF Mixed, Frame
  <2>9. \A r \in replaced'[p] \ {t} : file'[r] = Desired(p, r)'
    BY <2>1, <2>2, <2>3, <2>6, <2>7 DEF Written
  <2>. QED BY <2>1, <2>4, <2>8, <2>9 DEF FileOK, Reading, Replacing, Checked, Backward, Written
<1>10. CASE ReadBack(p)
  <2>. SUFFICES ASSUME alone'[p] PROVE FileOK(p)'
    OBVIOUS
  <2>. DEFINE t == First(todo[p])
  <2>1. /\ pc[p] = "readback" /\ call[p].write /\ Light(p)
        /\ \/ pc'[p] \in {"assert", "postsource"} /\ file[t] = Desired(p, t)
           \/ pc'[p] = "unstage"
    BY <1>10, ReadBackFacts
  <2>2. Mixed(p) /\ Written(p, replaced[p] \ {t})
    BY <2>1 DEF FileRight, FileOK, Light, Frame, Replacing
  <2>. HIDE DEF t
  <2>3. pc'[p] \in {"assert", "postsource"} => Written(p, replaced[p])
    BY <2>1, <2>2 DEF Written
  <2>4. call'[p].write
    BY <2>1 DEF Light, Frame
  <2>5. Mixed(p)'
    BY <2>1, <2>2, LightFile
  <2>6. pc'[p] \in {"assert", "postsource"} => Written(p, replaced[p])'
    BY <2>1, <2>3, LightFile
  <2>7. pc'[p] \in {"assert", "postsource", "unstage"}
    BY <2>1
  <2>. QED BY <2>4, <2>5, <2>6, <2>7 DEF FileOK, Reading, Replacing, Checked, Backward
<1>11. CASE Unstage(p)
  <2>. SUFFICES ASSUME alone'[p] PROVE FileOK(p)'
    OBVIOUS
  <2>1. /\ pc[p] = "unstage" /\ pc'[p] = "restore" /\ Frame(p) /\ file' = file
        /\ prior'[p] = prior[p] /\ replaced'[p] = replaced[p] /\ conflict'[p] = conflict[p]
    BY <1>11, UnstageFacts
  <2>2. Mixed(p)
    BY <2>1 DEF FileRight, FileOK, Frame
  <2>. QED BY <2>1, <2>2, MixedStays DEF FileOK, Reading, Replacing, Checked, Backward
<1>12. CASE Restore(p)
  <2>. SUFFICES ASSUME alone'[p] PROVE FileOK(p)'
    OBVIOUS
  <2>1. CASE pc'[p] = "over"
    BY <2>1 DEF FileOK, Reading, Replacing, Checked, Backward
  <2>2. CASE replaced[p] # {} /\ Ended(p, TRUE)
    BY <1>12, <2>2, EndedFile DEF Restore, FileRight, FileOK, Ended, Frame, Backward
  <2>3. CASE Light(p) /\ pc'[p] \in {"relook", "put"}
    BY <1>12, <2>3, LightFile DEF Restore, FileRight, FileOK, Light, Frame, Reading, Replacing, Checked, Backward
  <2>. QED BY <1>12, <2>1, <2>2, <2>3, RestoreFacts
<1>13. CASE PutBack(p)
  <2>. SUFFICES ASSUME alone'[p] PROVE FileOK(p)'
    OBVIOUS
  <2>1. pc[p] = "put" /\ Writes(p, prior[p][Last(replaced[p])])
    BY <1>13, PutBackFacts
  <2>. QED BY <2>1, WritesFile DEF Backward, FileRight, PriorRight, Writes, Frame
<1>14. CASE LookAgain(p)
  <2>. SUFFICES ASSUME alone'[p] PROVE FileOK(p)'
    OBVIOUS
  <2>1. CASE file[Last(replaced[p])] = Absent /\ Ended(p, FALSE)
    <3>1. /\ pc[p] = "relook" /\ replaced[p] # {} /\ alone[p]
          /\ prior[p][Last(replaced[p])] = Absent
      BY <1>14, <2>1, LookAgainFacts DEF Ended, Frame
    <3>2. prior[p][Last(replaced[p])] = old[p][Last(replaced[p])]
      BY <3>1, PriorOld DEF Backward, PriorRight
    <3>3. Mixed(p)
      BY <3>1 DEF FileRight, FileOK, Backward
    <3>. QED BY <2>1, <3>1, <3>2, <3>3, EndedFile
  <2>2. CASE Light(p) /\ pc'[p] = "unlink"
    BY <1>14, <2>2, LightFile DEF LookAgain, FileRight, FileOK, Light, Frame, Reading, Replacing, Checked, Backward
  <2>. QED BY <1>14, <2>1, <2>2, LookAgainFacts
<1>15. CASE Unlink(p)
  <2>. SUFFICES ASSUME alone'[p] PROVE FileOK(p)'
    OBVIOUS
  <2>1. pc[p] = "unlink" /\ replaced[p] # {} /\ prior[p][Last(replaced[p])] = Absent
    BY <1>15, UnlinkFacts
  <2>2. CASE Ended(p, TRUE)
    BY <2>1, <2>2, EndedFile DEF FileRight, FileOK, Ended, Frame, Backward
  <2>3. CASE Writes(p, Absent)
    BY <2>1, <2>3, WritesFile DEF Backward, FileRight, PriorRight, Writes, Frame
  <2>. QED BY <1>15, <2>2, <2>3, UnlinkFacts
<1>16. CASE Reread(p)
  <2>. SUFFICES ASSUME alone'[p] PROVE FileOK(p)'
    OBVIOUS
  <2>1. /\ pc[p] = "reread" /\ replaced[p] # {} /\ Ended(p, ~Unchanged(p, Last(replaced[p])))
    BY <1>16, RereadFacts
  <2>2. alone[p] /\ Mixed(p) /\ Unchanged(p, Last(replaced[p]))
    BY <2>1 DEF Ended, Frame, FileRight, FileOK, Backward
  <2>3. prior[p][Last(replaced[p])] = old[p][Last(replaced[p])]
    BY <2>1, <2>2, PriorOld DEF Backward, PriorRight
  <2>4. file[Last(replaced[p])] = old[p][Last(replaced[p])]
    BY <2>2, <2>3 DEF Unchanged
  <2>. QED BY <2>1, <2>2, <2>4, EndedFile
<1>17. CASE Exit(p)
  BY <1>17, RestFacts DEF FileRight, FileOK, Light, Frame, Reading, Replacing, Checked, Forward, Backward, Exit
<1>18. CASE Fail(p)
  <2>. SUFFICES ASSUME alone'[p] PROVE FileOK(p)'
    OBVIOUS
  <2>1. CASE pc[p] \in Backward /\ replaced[p] # {} /\ Ended(p, TRUE)
    BY <2>1, EndedFile DEF FileRight, FileOK, Ended, Frame
  <2>2. CASE pc'[p] = "over"
    BY <2>2 DEF FileOK, Reading, Replacing, Checked, Backward
  <2>3. CASE Light(p) /\ pc[p] \in Forward /\ call[p].write /\ pc'[p] = "unstage"
    <3>1. Mixed(p)
      <4>1. CASE pc[p] \in {"open", "stage"}
        <5>1. replaced[p] = {} /\ file = old[p]
          BY <2>3, <4>1 DEF Loops, LoopOK, FileRight, FileOK, Light, Frame
        <5>. QED BY <5>1 DEF Mixed
      <4>2. CASE pc[p] \in Replacing \cup Checked
        BY <2>3, <4>2 DEF FileRight, FileOK, Light, Frame
      <4>. QED BY <2>3, <4>1, <4>2 DEF Forward, Replacing, Checked
    <3>. QED BY <2>3, <3>1, LightFile DEF FileOK, Reading, Replacing, Checked, Backward
  <2>. QED BY <1>18, <2>1, <2>2, <2>3, FailFacts
<1>19. CASE Crash(p)
  BY <1>19, RestFacts DEF FileRight, FileOK, Light, Frame, Reading, Replacing, Checked, Forward, Backward, Crash
<1>. QED BY <1>1, <1>2, <1>3, <1>4, <1>5, <1>6, <1>7, <1>8, <1>9, <1>10,
            <1>11, <1>12, <1>13, <1>14, <1>15, <1>16, <1>17, <1>18, <1>19 DEF Step

LEMMA UndoneStep ==
  ASSUME TypeOK, TypeOK', Loops, NEW p \in Process, Step(p), FileRight
  PROVE  UndoneOf(p)'
<1>1. CASE Start(p)
  BY <1>1, StartFacts DEF Loops, LoopOK, FileRight, FileOK, UndoneOf, Light, Frame, Ended, Writes, Reading, Replacing, Checked, Forward, Backward
<1>2. CASE ReadSource(p)
  BY <1>2, ReadSourceFacts DEF Loops, LoopOK, FileRight, FileOK, UndoneOf, Light, Frame, Ended, Writes, Reading, Replacing, Checked, Forward, Backward
<1>3. CASE ReadTarget(p)
  BY <1>3, ReadTargetFacts DEF Loops, LoopOK, FileRight, FileOK, UndoneOf, Light, Frame, Ended, Writes, Reading, Replacing, Checked, Forward, Backward
<1>4. CASE CheckSource(p)
  <2>. SUFFICES ASSUME pc'[p] = "over", result'[p] = "failed", alone'[p] PROVE file' = old'[p]
    BY DEF UndoneOf
  <2>1. Light(p) /\ (pc[p] \in Reading \/ (pc[p] \in Checked /\ ~call[p].write))
    BY <1>4, CheckSourceFacts DEF Ended, Reading, Checked
  <2>2. file = old[p]
    BY <2>1 DEF FileRight, FileOK, Light, Frame
  <2>. QED BY <2>1, <2>2 DEF Light, Frame
<1>5. CASE CheckMap(p)
  <2>. SUFFICES ASSUME pc'[p] = "over", result'[p] = "failed", alone'[p] PROVE file' = old'[p]
    BY DEF UndoneOf
  <2>1. Light(p) /\ (pc[p] \in Reading \/ (pc[p] \in Checked /\ ~call[p].write))
    BY <1>5, CheckMapFacts DEF Ended, Reading, Checked
  <2>2. file = old[p]
    BY <2>1 DEF FileRight, FileOK, Light, Frame
  <2>. QED BY <2>1, <2>2 DEF Light, Frame
<1>6. CASE Open(p)
  BY <1>6, OpenFacts DEF Loops, LoopOK, FileRight, FileOK, UndoneOf, Light, Frame, Ended, Writes, Reading, Replacing, Checked, Forward, Backward
<1>7. CASE Stage(p)
  BY <1>7, StageFacts DEF Loops, LoopOK, FileRight, FileOK, UndoneOf, Light, Frame, Ended, Writes, Reading, Replacing, Checked, Forward, Backward
<1>8. CASE Register(p)
  BY <1>8, RegisterFacts DEF Loops, LoopOK, FileRight, FileOK, UndoneOf, Light, Frame, Ended, Writes, Reading, Replacing, Checked, Forward, Backward
<1>9. CASE Replace(p)
  BY <1>9, ReplaceFacts DEF Loops, LoopOK, FileRight, FileOK, UndoneOf, Light, Frame, Ended, Writes, Reading, Replacing, Checked, Forward, Backward
<1>10. CASE ReadBack(p)
  BY <1>10, ReadBackFacts DEF Loops, LoopOK, FileRight, FileOK, UndoneOf, Light, Frame, Ended, Writes, Reading, Replacing, Checked, Forward, Backward
<1>11. CASE Unstage(p)
  BY <1>11, UnstageFacts DEF Loops, LoopOK, FileRight, FileOK, UndoneOf, Light, Frame, Ended, Writes, Reading, Replacing, Checked, Forward, Backward
<1>12. CASE Restore(p)
  <2>. SUFFICES ASSUME pc'[p] = "over", result'[p] = "failed", alone'[p] PROVE file' = old'[p]
    BY DEF UndoneOf
  <2>1. pc[p] = "restore" /\ Light(p) /\ replaced[p] = {} /\ ~conflict[p]
    BY <1>12, RestoreFacts DEF Ended
  <2>2. Mixed(p)
    BY <2>1 DEF FileRight, FileOK, Light, Frame, Backward
  <2>3. \A r \in Repo : file[r] = old[p][r]
    BY <2>1, <2>2 DEF Mixed
  <2>4. file = old[p]
    BY <2>3 DEF TypeOK
  <2>. QED BY <2>1, <2>4 DEF Light, Frame
<1>13. CASE PutBack(p)
  BY <1>13, PutBackFacts DEF Loops, LoopOK, FileRight, FileOK, UndoneOf, Light, Frame, Ended, Writes, Reading, Replacing, Checked, Forward, Backward
<1>14. CASE LookAgain(p)
  BY <1>14, LookAgainFacts DEF Loops, LoopOK, FileRight, FileOK, UndoneOf, Light, Frame, Ended, Writes, Reading, Replacing, Checked, Forward, Backward
<1>15. CASE Unlink(p)
  BY <1>15, UnlinkFacts DEF Loops, LoopOK, FileRight, FileOK, UndoneOf, Light, Frame, Ended, Writes, Reading, Replacing, Checked, Forward, Backward
<1>16. CASE Reread(p)
  BY <1>16, RereadFacts DEF Loops, LoopOK, FileRight, FileOK, UndoneOf, Light, Frame, Ended, Writes, Reading, Replacing, Checked, Forward, Backward
<1>17. CASE Exit(p)
  BY <1>17, RestFacts DEF Loops, LoopOK, FileRight, FileOK, UndoneOf, Light, Frame, Ended, Writes, Reading, Replacing, Checked, Forward, Backward, Exit
<1>18. CASE Fail(p)
  <2>. SUFFICES ASSUME pc'[p] = "over", result'[p] = "failed", alone'[p] PROVE file' = old'[p]
    BY DEF UndoneOf
  <2>1. Light(p) /\ (pc[p] \in Reading \/ (pc[p] \in Checked /\ ~call[p].write))
    BY <1>18, FailFacts DEF Ended, Reading, Checked
  <2>2. file = old[p]
    BY <2>1 DEF FileRight, FileOK, Light, Frame
  <2>. QED BY <2>1, <2>2 DEF Light, Frame
<1>19. CASE Crash(p)
  BY <1>19, RestFacts DEF Loops, LoopOK, FileRight, FileOK, UndoneOf, Light, Frame, Ended, Writes, Reading, Replacing, Checked, Forward, Backward, Crash
<1>. QED BY <1>1, <1>2, <1>3, <1>4, <1>5, <1>6, <1>7, <1>8, <1>9, <1>10,
            <1>11, <1>12, <1>13, <1>14, <1>15, <1>16, <1>17, <1>18, <1>19 DEF Step

LEMMA TruthfulStep ==
  ASSUME TypeOK, TypeOK', Loops, NEW p \in Process, Step(p), PriorRight, FileRight
  PROVE  TruthfulOf(p)'
<1>1. CASE Start(p)
  BY <1>1, StartFacts DEF Loops, LoopOK, TruthfulOf, Light, Frame, Ended, Writes, Reading, Replacing, Checked, Forward, Backward
<1>2. CASE ReadSource(p)
  BY <1>2, ReadSourceFacts DEF Loops, LoopOK, TruthfulOf, Light, Frame, Ended, Writes, Reading, Replacing, Checked, Forward, Backward
<1>3. CASE ReadTarget(p)
  BY <1>3, ReadTargetFacts DEF Loops, LoopOK, TruthfulOf, Light, Frame, Ended, Writes, Reading, Replacing, Checked, Forward, Backward
<1>4. CASE CheckSource(p)
  BY <1>4, CheckSourceFacts DEF Loops, LoopOK, TruthfulOf, Light, Frame, Ended, Writes, Reading, Replacing, Checked, Forward, Backward
<1>5. CASE CheckMap(p)
  <2>. SUFFICES ASSUME pc'[p] = "over", alone'[p], result'[p] # "failed" PROVE TruthfulOf(p)'
    BY DEF TruthfulOf
  <2>1. /\ Light(p) /\ pc[p] = "postmap"
        /\ result'[p] = IF call[p].write \/ Drifted(p) = {} THEN "ok" ELSE "drift"
    BY <1>5, CheckMapFacts
  <2>2. alone[p] /\ call'[p] = call[p] /\ canonical'[p] = canonical[p] /\ file' = file /\ call[p].names \subseteq Repo
    BY <2>1 DEF Light, Frame, TypeOK
  <2>3. \A r \in call[p].names : prior[p][r] = old[p][r]
    BY <2>1, <2>2 DEF PriorRight, PriorOK, Forward
  <2>4. \A r \in Repo : Desired(p, r)' = Desired(p, r)
    BY <2>1 DEF Desired, Light, Frame
  <2>5. CASE call[p].write
    <3>1. \A r \in call[p].names : file[r] = Desired(p, r)
      BY <2>1, <2>2, <2>5 DEF FileRight, FileOK, Written, Loops, LoopOK, Checked
    <3>2. \A r \in call[p].names : Desired(p, r) # Absent /\ Desired(p, r).payload = Render(canonical[p])
      <4>1. canonical[p] # Absent
        BY <2>1 DEF Loops, LoopOK
      <4>2. \A r \in call[p].names : Desired(p, r) # Absent
        BY <2>2, <4>1, DesiredType
      <4>3. \A r \in call[p].names : Desired(p, r).payload = Render(canonical[p])
        BY DEF Desired
      <4>. QED BY <4>2, <4>3
    <3>3. Render(canonical[p])' = Render(canonical[p])
      BY <2>2 DEF Render
    <3>. QED BY <2>1, <2>2, <2>4, <2>5, <3>1, <3>2, <3>3 DEF TruthfulOf
  <2>6. CASE ~call[p].write
    <3>1. file = old[p]
      BY <2>1, <2>2, <2>6 DEF FileRight, FileOK, Checked
    <3>2. Render(canonical[p])' = Render(canonical[p])
      BY <2>2 DEF Render
    <3>3. Drifted(p) = {r \in call[p].names : file[r] = Absent \/ file[r].payload # Render(canonical[p])}
      BY <2>3, <3>1 DEF Drifted
    <3>. QED BY <2>1, <2>2, <2>6, <3>2, <3>3 DEF TruthfulOf
  <2>. QED BY <2>5, <2>6
<1>6. CASE Open(p)
  BY <1>6, OpenFacts DEF Loops, LoopOK, TruthfulOf, Light, Frame, Ended, Writes, Reading, Replacing, Checked, Forward, Backward
<1>7. CASE Stage(p)
  BY <1>7, StageFacts DEF Loops, LoopOK, TruthfulOf, Light, Frame, Ended, Writes, Reading, Replacing, Checked, Forward, Backward
<1>8. CASE Register(p)
  BY <1>8, RegisterFacts DEF Loops, LoopOK, TruthfulOf, Light, Frame, Ended, Writes, Reading, Replacing, Checked, Forward, Backward
<1>9. CASE Replace(p)
  BY <1>9, ReplaceFacts DEF Loops, LoopOK, TruthfulOf, Light, Frame, Ended, Writes, Reading, Replacing, Checked, Forward, Backward
<1>10. CASE ReadBack(p)
  BY <1>10, ReadBackFacts DEF Loops, LoopOK, TruthfulOf, Light, Frame, Ended, Writes, Reading, Replacing, Checked, Forward, Backward
<1>11. CASE Unstage(p)
  BY <1>11, UnstageFacts DEF Loops, LoopOK, TruthfulOf, Light, Frame, Ended, Writes, Reading, Replacing, Checked, Forward, Backward
<1>12. CASE Restore(p)
  BY <1>12, RestoreFacts DEF Loops, LoopOK, TruthfulOf, Light, Frame, Ended, Writes, Reading, Replacing, Checked, Forward, Backward
<1>13. CASE PutBack(p)
  BY <1>13, PutBackFacts DEF Loops, LoopOK, TruthfulOf, Light, Frame, Ended, Writes, Reading, Replacing, Checked, Forward, Backward
<1>14. CASE LookAgain(p)
  BY <1>14, LookAgainFacts DEF Loops, LoopOK, TruthfulOf, Light, Frame, Ended, Writes, Reading, Replacing, Checked, Forward, Backward
<1>15. CASE Unlink(p)
  BY <1>15, UnlinkFacts DEF Loops, LoopOK, TruthfulOf, Light, Frame, Ended, Writes, Reading, Replacing, Checked, Forward, Backward
<1>16. CASE Reread(p)
  BY <1>16, RereadFacts DEF Loops, LoopOK, TruthfulOf, Light, Frame, Ended, Writes, Reading, Replacing, Checked, Forward, Backward
<1>17. CASE Exit(p)
  BY <1>17, RestFacts DEF Loops, LoopOK, TruthfulOf, Light, Frame, Ended, Writes, Reading, Replacing, Checked, Forward, Backward, Exit
<1>18. CASE Fail(p)
  BY <1>18, FailFacts DEF Loops, LoopOK, TruthfulOf, Light, Frame, Ended, Writes, Reading, Replacing, Checked, Forward, Backward
<1>19. CASE Crash(p)
  BY <1>19, RestFacts DEF Loops, LoopOK, TruthfulOf, Light, Frame, Ended, Writes, Reading, Replacing, Checked, Forward, Backward, Crash
<1>. QED BY <1>1, <1>2, <1>3, <1>4, <1>5, <1>6, <1>7, <1>8, <1>9, <1>10,
            <1>11, <1>12, <1>13, <1>14, <1>15, <1>16, <1>17, <1>18, <1>19 DEF Step
-------------------------------------------------------------------------------
\* The theorems

LEMMA InitInv ==
  ASSUME Init
  PROVE  SyncInv
<1>1. Foreign \subseteq FileState \cup {Absent}
  BY DEF Foreign, FileState, Payload
<1>2. used \in [calls : 0..MaxCall, faults : 0..MaxFault, edits : 0..MaxEdit]
  BY SyncAssumption DEF Init
<1>3. Nobody \in [Repo -> FileState \cup {Absent}]
  BY DEF Nobody
<1>4. TypeOK
  BY <1>1, <1>2, <1>3 DEF Init, TypeOK, Statement
<1>5. ASSUME NEW p \in Process PROVE InvOf(p)
  <2>1. /\ pc[p] = "idle" /\ todo[p] = {} /\ replaced[p] = {} /\ ~conflict[p]
        /\ staged[p] = Nobody
    BY DEF Init
  <2>. QED BY <2>1 DEF InvOf, LoopOK, StagedOK, PriorOK, FileOK, UndoneOf, TruthfulOf,
              Reading, Replacing, Checked, Forward, Backward
<1>. QED BY <1>4, <1>5, InvParts

LEMMA StepInv ==
  ASSUME SyncInv, NEW p \in Process, Step(p)
  PROVE  SyncInv'
<1>1. TypeOK /\ Loops /\ StagedRight /\ PriorRight /\ FileRight
  BY DEF SyncInv
<1>2. TypeOK'
  BY <1>1, TypeStep
<1>3. InvOf(p)'
  <2>1. LoopOK(p)'
    BY <1>1, <1>2, LoopStep
  <2>2. StagedOK(p)'
    BY <1>1, <1>2, StagedStep
  <2>3. alone'[p] => PriorOK(p)'
    BY <1>1, <1>2, PriorStep
  <2>4. alone'[p] => FileOK(p)'
    BY <1>1, <1>2, FileStep
  <2>5. UndoneOf(p)'
    BY <1>1, <1>2, UndoneStep
  <2>6. TruthfulOf(p)'
    BY <1>1, <1>2, TruthfulStep
  <2>. QED BY <2>1, <2>2, <2>3, <2>4, <2>5, <2>6 DEF InvOf
<1>4. ASSUME NEW q \in Process, q # p PROVE InvOf(q)'
  <2>1. Stay(q)
    BY <1>1, <1>4, OthersStay
  <2>2. InvOf(q)
    BY InvParts
  <2>. QED BY <1>1, <1>2, <2>1, <2>2, StaySafe
<1>5. \A q \in Process : InvOf(q)'
  BY <1>3, <1>4
<1>. QED BY <1>2, <1>5, InvParts

LEMMA EditInv ==
  ASSUME SyncInv, Edit
  PROVE  SyncInv'
<1>1. TypeOK
  BY DEF SyncInv
<1>2. TypeOK'
  BY <1>1, TypeEdit
<1>3. ASSUME NEW q \in Process PROVE InvOf(q)'
  <2>1. Stay(q)
    BY <1>1, EditStays
  <2>2. InvOf(q)
    BY InvParts
  <2>. QED BY <1>1, <1>2, <2>1, <2>2, StaySafe
<1>. QED BY <1>2, <1>3, InvParts

LEMMA NextInv ==
  ASSUME SyncInv, [Next]_vars
  PROVE  SyncInv'
<1>1. CASE \E p \in Process : Step(p)
  BY <1>1, StepInv
<1>2. CASE Edit
  BY <1>2, EditInv
<1>3. CASE UNCHANGED vars
  <2>1. TypeOK /\ TypeOK'
    BY <1>3 DEF SyncInv, TypeOK, vars, inputs, locals, history
  <2>2. ASSUME NEW q \in Process PROVE InvOf(q)'
    <3>1. Stay(q)
      BY <1>3 DEF Stay, vars, inputs, locals, history
    <3>2. InvOf(q)
      BY InvParts
    <3>. QED BY <2>1, <3>1, <3>2, StaySafe
  <2>. QED BY <2>1, <2>2, InvParts
<1>. QED BY <1>1, <1>2, <1>3 DEF Next

\* The inductive invariant: what the variables may hold, what each call has left to do
\* and to put back, and, while nobody interferes, what every target holds.
THEOREM SyncInvariance == Spec => []SyncInv
<1>1. Init => SyncInv
  BY InitInv
<1>2. SyncInv /\ [Next]_vars => SyncInv'
  BY NextInv
<1>. QED BY <1>1, <1>2, PTL DEF Spec

\* Whatever system call of a writing call fails or is interrupted, if nobody else wrote a
\* target meanwhile and the call reports a plain failure, every target is back.
THEOREM FailuresUndone == Spec => []Undone
<1>1. SyncInv => Undone
  BY DEF SyncInv
<1>. QED BY <1>1, SyncInvariance, PTL

\* A call nobody interfered with reports the truth about the targets.
THEOREM ReportsTrue == Spec => []Truthful
<1>1. SyncInv => Truthful
  BY DEF SyncInv
<1>. QED BY <1>1, SyncInvariance, PTL
===============================================================================
