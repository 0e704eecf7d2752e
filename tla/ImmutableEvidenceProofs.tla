------------------------ MODULE ImmutableEvidenceProofs ------------------------
(***************************************************************************)
(* Immutable evidence, for any number of processes, snapshots, files and   *)
(* inodes: publication by racing calls that crash is a register written    *)
(* once, calls report the truth, and clean up after each other.            *)
(***************************************************************************)
EXTENDS EvidenceInvariant, TLAPS

LEMMA Distinct ==
  /\ Base \notin Revision /\ Receipt \notin Snapshot
  /\ Nothing \notin Bytes /\ Nothing \notin Dir /\ Nothing \notin Temp /\ Nothing \notin Content
  /\ "free" \notin Snapshot /\ "left" \notin Snapshot /\ "free" \notin Process /\ "left" \notin Process
  /\ \A p \in Process : p \notin Snapshot
  /\ Base \in Snapshot /\ Revision \subseteq Snapshot
  /\ MaxCall \in Nat /\ MaxCrash \in Nat /\ MaxLoss \in Nat
BY EvidenceAssumption DEF Snapshot

LEMMA HollowIs == Hollow \notin Content /\ Hollow \in [File -> Bytes \cup {Nothing}]
<1>1. PICK f \in File : TRUE
  BY EvidenceAssumption
<1>2. Hollow[f] \notin Bytes
  BY Distinct DEF Hollow
<1>. QED BY <1>1, <1>2 DEF Hollow, Content

LEMMA NewDirIs ==
  ASSUME Fresh # {}
  PROVE  NewDir \in Dir /\ at[NewDir] = "free" /\ \A p \in Process : dir[p] # NewDir
BY DEF NewDir, Fresh, At

LEMMA NewTempIs ==
  ASSUME \E t \in Temp : temp[t].kind = "new"
  PROVE  NewTemp \in Temp /\ temp[NewTemp].kind = "new"
BY DEF NewTemp

\* What is at a name is what the one directory there has.
LEMMA PublishedIs ==
  ASSUME OneDir, NEW n \in Snapshot, NEW d \in Dir, at[d] = n
  PROVE  Published(n) = IF files[d] # Hollow THEN files[d] ELSE Nothing
<1>1. \A e \in At(n) : e = d
  BY Distinct DEF OneDir, At
<1>2. d \in At(n)
  BY DEF At
<1>. QED BY <1>1, <1>2 DEF Published

LEMMA PublishedNot ==
  ASSUME NEW n, At(n) = {}
  PROVE  Published(n) = Nothing
BY DEF Published

LEMMA RegisterIs ==
  /\ Register[Receipt] = receipt
  /\ \A n \in Snapshot : Register[n] = Published(n)
BY Distinct DEF Register
-------------------------------------------------------------------------------
\* What a step does to the process that takes it

Mem(p) ==
  /\ call'[p] = call[p] /\ role'[p] = role[p] /\ dir'[p] = dir[p] /\ old'[p] = old[p]
  /\ own'[p] = own[p] /\ ok'[p] = ok[p]

Over(p) == pc'[p] = "idle" /\ own'[p] = Nothing

Told(p, success) ==
  confirmed' = IF success THEN confirmed \cup {<<call[p].key, call[p].want>>} ELSE confirmed

Ended(p, success) ==
  \/ At(p) = {} /\ Over(p) /\ Told(p, success)
  \/ /\ At(p) # {} /\ pc'[p] = "cleanup" /\ ok'[p] = success /\ UNCHANGED confirmed
     /\ call'[p] = call[p] /\ role'[p] = role[p] /\ dir'[p] = dir[p] /\ own'[p] = own[p]

Onward(p) ==
  \/ Following(p) = "end" /\ Ended(p, TRUE)
  \/ Following(p) # "end" /\ pc'[p] = Following(p) /\ Mem(p) /\ UNCHANGED confirmed

Still == UNCHANGED <<at, files, receipt, temp>>
NoLoss == UNCHANGED lost /\ used'.crashes = used.crashes

LEMMA ReturnFacts ==
  ASSUME LocalsOK, NEW p \in Process, NEW success, Return(p, success)
  PROVE  Over(p) /\ Told(p, success)
BY DEF LocalsOK, Return, Reset, Goto, Over, Told

LEMMA EndFacts ==
  ASSUME LocalsOK, NEW p \in Process, NEW success, End(p, success)
  PROVE  Ended(p, success)
BY ReturnFacts DEF LocalsOK, End, Goto, Ended

LEMMA ContinueFacts ==
  ASSUME LocalsOK, NEW p \in Process, Continue(p)
  PROVE  Onward(p)
<1>1. CASE Following(p) = "end"
  BY <1>1, EndFacts DEF Continue, Onward
<1>2. CASE Following(p) # "end"
  <2>1. pc'[p] = Following(p)
    BY <1>2 DEF LocalsOK, Continue, Goto
  <2>. QED BY <1>2, <2>1 DEF Continue, Onward, locals, Mem
<1>. QED BY <1>1, <1>2

LEMMA PublishFacts ==
  ASSUME TypeOK, NEW p \in Process, Publish(p)
  PROVE  /\ pc[p] = "idle" /\ pc'[p] = "parent" /\ Still /\ NoLoss /\ UNCHANGED confirmed
         /\ call'[p].key \in Snapshot /\ call'[p].want \in Content
         /\ own'[p] = own[p] /\ dir'[p] = dir[p]
BY DEF TypeOK, LocalsOK, Publish, Start, Goto, disk, Still, NoLoss

LEMMA OpenParentFacts ==
  ASSUME TypeOK, NEW p \in Process, OpenParent(p)
  PROVE  /\ pc[p] = "parent" /\ pc'[p] = "look" /\ Mem(p) /\ NoLoss
         /\ UNCHANGED <<files, receipt, temp, confirmed>>
         /\ \/ UNCHANGED at
            \/ /\ At(Base) = {} /\ NewDir \in Dir /\ at[NewDir] = "free" /\ call[p].key # Base
               /\ \A q \in Process : dir[q] # NewDir
               /\ at' = [at EXCEPT ![NewDir] = Base]
BY NewDirIs DEF TypeOK, LocalsOK, OpenParent, Goto, locals, history, Mem, NoLoss

LEMMA LookFacts ==
  ASSUME TypeOK, NEW p \in Process, Look(p)
  PROVE  /\ pc[p] = "look" /\ Still /\ NoLoss /\ UNCHANGED confirmed
         /\ call'[p] = call[p] /\ role'[p] = role[p] /\ own'[p] = own[p]
         /\ \/ pc'[p] = "mkdir" /\ dir'[p] = dir[p]
            \/ pc'[p] = "check" /\ dir'[p] \in Dir /\ at[dir'[p]] = call[p].key
BY DEF TypeOK, LocalsOK, Look, Goto, At, disk, history, Still, NoLoss

LEMMA MakeStagingFacts ==
  ASSUME TypeOK, NEW p \in Process, MakeStaging(p)
  PROVE  /\ pc[p] = "mkdir" /\ pc'[p] = "write" /\ NoLoss
         /\ UNCHANGED <<files, receipt, temp, confirmed>>
         /\ NewDir \in Dir /\ at[NewDir] = "free" /\ \A q \in Process : dir[q] # NewDir
         /\ at' = [at EXCEPT ![NewDir] = p] /\ dir'[p] = NewDir
         /\ call'[p] = call[p] /\ role'[p] = role[p] /\ own'[p] = own[p]
BY NewDirIs DEF TypeOK, LocalsOK, MakeStaging, Goto, history, NoLoss

LEMMA WriteFileFacts ==
  ASSUME TypeOK, NEW p \in Process, WriteFile(p)
  PROVE  /\ pc[p] = "write" /\ Mem(p) /\ NoLoss /\ UNCHANGED <<at, receipt, temp, confirmed>>
         /\ \/ /\ pc'[p] = "write"
               /\ \E f \in File : Put(dir[p], f, call[p].want[f])
            \/ pc'[p] = "seal" /\ UNCHANGED files
BY DEF TypeOK, LocalsOK, WriteFile, Goto, locals, history, Mem, NoLoss

LEMMA SealFacts ==
  ASSUME TypeOK, NEW p \in Process, Seal(p)
  PROVE  /\ pc[p] = "seal" /\ Still /\ NoLoss
         /\ \/ /\ files[dir[p]] = call[p].want /\ pc'[p] = "rename" /\ Mem(p) /\ UNCHANGED confirmed
            \/ Ended(p, FALSE)
BY EndFacts DEF TypeOK, LocalsOK, Seal, Matches, Goto, locals, disk, Mem, Still, NoLoss

LEMMA RenameFacts ==
  ASSUME TypeOK, NEW p \in Process, Rename(p)
  PROVE  /\ pc[p] = "rename" /\ NoLoss /\ UNCHANGED <<files, receipt, temp, confirmed>>
         /\ call'[p] = call[p] /\ dir'[p] = dir[p] /\ own'[p] = own[p]
         /\ \/ /\ At(call[p].key) = {} /\ at' = [at EXCEPT ![dir[p]] = call[p].key]
               /\ pc'[p] = "placed" /\ role'[p] = "winner"
            \/ pc'[p] = "open" /\ role'[p] = "loser" /\ UNCHANGED at
BY DEF TypeOK, LocalsOK, Rename, Goto, history, NoLoss

LEMMA OpenWinnerFacts ==
  ASSUME TypeOK, NEW p \in Process, OpenWinner(p)
  PROVE  /\ pc[p] = "open" /\ Still /\ NoLoss
         /\ \/ Ended(p, FALSE)
            \/ /\ pc'[p] = "check" /\ dir'[p] \in Dir /\ at[dir'[p]] = call[p].key
               /\ call'[p] = call[p] /\ role'[p] = role[p] /\ own'[p] = own[p] /\ UNCHANGED confirmed
BY EndFacts DEF TypeOK, LocalsOK, OpenWinner, Goto, At, disk, Still, NoLoss

LEMMA CheckBytesFacts ==
  ASSUME TypeOK, NEW p \in Process, CheckBytes(p)
  PROVE  /\ pc[p] \in {"check", "recheck"} /\ Still /\ NoLoss
         /\ (files[dir[p]] = call[p].want /\ Onward(p)) \/ Ended(p, FALSE)
BY ContinueFacts, EndFacts DEF TypeOK, CheckBytes, Matches, disk, Still, NoLoss

LEMMA CheckPlaceFacts ==
  ASSUME TypeOK, NEW p \in Process, CheckPlace(p)
  PROVE  /\ pc[p] \in {"placed", "place", "replace"} /\ Still /\ NoLoss
         /\ (at[dir[p]] = call[p].key /\ Onward(p)) \/ Ended(p, FALSE)
BY ContinueFacts, EndFacts DEF TypeOK, CheckPlace, disk, Still, NoLoss

LEMMA CleanupFacts ==
  ASSUME TypeOK, NEW p \in Process, Cleanup(p)
  PROVE  /\ pc[p] = "cleanup" /\ NoLoss /\ UNCHANGED <<receipt, temp>>
         /\ \E d \in Dir :
              /\ at[d] = p
              /\ \/ /\ \E f \in File : Put(d, f, Nothing)
                    /\ UNCHANGED <<at, confirmed>> /\ pc'[p] = pc[p] /\ Mem(p)
                 \/ /\ files[d] = Hollow /\ at' = [at EXCEPT ![d] = "free"] /\ UNCHANGED files
                    /\ Over(p) /\ Told(p, ok[p])
<1>1. /\ pc[p] = "cleanup" /\ NoLoss /\ UNCHANGED <<receipt, temp>>
      /\ \E d \in Dir : at[d] = p /\ Remove(p, d)
  BY DEF Cleanup, At, NoLoss
<1>2. PICK d \in Dir : at[d] = p /\ Remove(p, d)
  BY <1>1
<1>3. CASE /\ \E f \in File : files[d][f] # Nothing /\ Put(d, f, Nothing)
           /\ UNCHANGED <<at, pc, locals, confirmed>>
  BY <1>1, <1>2, <1>3 DEF locals, Mem
<1>4. CASE /\ files[d] = Hollow /\ at' = [at EXCEPT ![d] = "free"]
           /\ Return(p, ok[p]) /\ UNCHANGED files
  BY <1>1, <1>2, <1>4, ReturnFacts DEF TypeOK
<1>. QED BY <1>2, <1>3, <1>4 DEF Remove

LEMMA WriteFacts ==
  ASSUME TypeOK, NEW p \in Process, Write(p)
  PROVE  /\ pc[p] = "idle" /\ pc'[p] = "scan" /\ Still /\ NoLoss /\ UNCHANGED confirmed
         /\ call'[p].key = Receipt /\ call'[p].want \in Bytes
         /\ own'[p] = own[p] /\ dir'[p] = dir[p]
BY DEF TypeOK, LocalsOK, Write, Start, Goto, disk, Still, NoLoss

LEMMA ScanFacts ==
  ASSUME TypeOK, NEW p \in Process, Scan(p)
  PROVE  /\ pc[p] = "scan" /\ pc'[p] = "recover" /\ Still /\ NoLoss /\ UNCHANGED confirmed /\ Mem(p)
BY DEF TypeOK, LocalsOK, Scan, Goto, disk, history, Still, NoLoss, Mem

LEMMA RecoverFacts ==
  ASSUME TypeOK, NEW p \in Process, Recover(p)
  PROVE  /\ pc[p] = "recover" /\ Still /\ NoLoss
         /\ \/ pc'[p] \in {"create", "recover"} /\ Mem(p) /\ UNCHANGED confirmed
            \/ Over(p) /\ Told(p, FALSE)
            \/ /\ pc'[p] = "bury" /\ call'[p] = call[p] /\ own'[p] = own[p] /\ ok'[p] = ok[p]
               /\ old'[p].file \in Temp /\ UNCHANGED confirmed
<1>1. pc[p] = "recover" /\ Still /\ NoLoss
  BY DEF Recover, disk, Still, NoLoss
<1>2. CASE Goto(p, "create") /\ UNCHANGED <<locals, confirmed>>
  BY <1>1, <1>2 DEF Goto, TypeOK, LocalsOK, locals, Mem
<1>3. CASE \E name \in todo[p] :
             IF ~Named(name, "rollback")
               THEN /\ todo' = [todo EXCEPT ![p] = todo[p] \ {name}]
                    /\ UNCHANGED <<pc, call, role, dir, old, own, ok, confirmed>>
             ELSE IF temp[name.file].bytes # call[p].want THEN Return(p, FALSE)
             ELSE /\ todo' = [todo EXCEPT ![p] = todo[p] \ {name}]
                  /\ old' = [old EXCEPT ![p] = name] /\ Goto(p, "bury")
                  /\ UNCHANGED <<call, role, dir, own, ok, confirmed>>
  <2>1. PICK name \in todo[p] :
          \/ UNCHANGED <<pc, call, role, dir, old, own, ok, confirmed>>
          \/ Return(p, FALSE)
          \/ /\ old' = [old EXCEPT ![p] = name] /\ Goto(p, "bury")
             /\ UNCHANGED <<call, role, dir, own, ok, confirmed>>
    BY <1>3
  <2>2. name.file \in Temp
    BY DEF TypeOK, LocalsOK
  <2>3. CASE UNCHANGED <<pc, call, role, dir, old, own, ok, confirmed>>
    BY <1>1, <2>3 DEF Mem
  <2>4. CASE Return(p, FALSE)
    BY <1>1, <2>4, ReturnFacts DEF TypeOK
  <2>5. CASE /\ old' = [old EXCEPT ![p] = name] /\ Goto(p, "bury")
             /\ UNCHANGED <<call, role, dir, own, ok, confirmed>>
    BY <1>1, <2>2, <2>5 DEF Goto, TypeOK, LocalsOK
  <2>. QED BY <2>1, <2>3, <2>4, <2>5
<1>. QED BY <1>2, <1>3 DEF Recover

\* Temporary file t gets another name or other bytes.
Becomes(t, kind, turn, bytes) ==
  /\ t \in Temp /\ Become(t, kind, turn, bytes)
  /\ temp'[t] = [kind |-> kind, turn |-> turn, bytes |-> bytes]
  /\ \A u \in Temp : u # t => temp'[u] = temp[u]

LEMMA BecomeFacts ==
  ASSUME TypeOK, NEW t \in Temp, NEW kind, NEW turn, NEW bytes, Become(t, kind, turn, bytes)
  PROVE  Becomes(t, kind, turn, bytes)
BY DEF TypeOK, DiskOK, Become, Becomes

LEMMA CreateFacts ==
  ASSUME TypeOK, NEW p \in Process, Create(p)
  PROVE  /\ pc[p] = "create" /\ pc'[p] = "fill" /\ NoLoss /\ UNCHANGED <<at, files, receipt, confirmed>>
         /\ temp[NewTemp].kind = "new" /\ Becomes(NewTemp, "tmp", 0, Nothing) /\ own'[p] = NewTemp
         /\ call'[p] = call[p]
BY NewTempIs, BecomeFacts DEF TypeOK, LocalsOK, Create, Goto, history, NoLoss

LEMMA FillFacts ==
  ASSUME TypeOK, Owned, NEW p \in Process, Fill(p)
  PROVE  /\ pc[p] = "fill" /\ pc'[p] = "link" /\ NoLoss /\ UNCHANGED <<at, files, receipt, confirmed>>
         /\ Mem(p) /\ Becomes(own[p], "tmp", 0, call[p].want)
<1>1. own[p] \in Temp
  BY DEF TypeOK, LocalsOK, Owned, OwnedOK, Fill
<1>. QED BY <1>1, BecomeFacts DEF TypeOK, LocalsOK, Fill, Goto, locals, history, NoLoss, Mem

LEMMA LinkFacts ==
  ASSUME TypeOK, Owned, NEW p \in Process, Link(p)
  PROVE  /\ pc[p] = "link" /\ NoLoss /\ UNCHANGED <<at, files>>
         /\ \/ /\ receipt = Nothing /\ receipt' = call[p].want
               /\ Becomes(own[p], "gone", 0, Nothing) /\ Over(p) /\ Told(p, TRUE)
            \/ pc'[p] = "compare" /\ Mem(p) /\ UNCHANGED <<receipt, temp, confirmed>>
<1>1. own[p] \in Temp /\ temp[own[p]].bytes = call[p].want
  BY DEF TypeOK, LocalsOK, Owned, OwnedOK, Link
<1>2. pc[p] = "link" /\ NoLoss /\ UNCHANGED <<at, files>>
  BY DEF Link, NoLoss
<1>3. CASE receipt = Nothing
  BY <1>1, <1>2, <1>3, BecomeFacts, ReturnFacts DEF Link, TypeOK
<1>4. CASE receipt # Nothing
  BY <1>2, <1>4 DEF Link, Goto, locals, TypeOK, LocalsOK, Mem
<1>. QED BY <1>3, <1>4

LEMMA CompareFacts ==
  ASSUME TypeOK, NEW p \in Process, Compare(p)
  PROVE  /\ pc[p] = "compare" /\ pc'[p] = "bury" /\ Still /\ NoLoss /\ UNCHANGED confirmed
         /\ ok'[p] = (receipt = call[p].want) /\ old'[p] = [file |-> own[p], turn |-> 0]
         /\ call'[p] = call[p] /\ own'[p] = own[p]
BY DEF TypeOK, LocalsOK, Compare, Goto, disk, history, Still, NoLoss

LEMMA UnlinkFacts ==
  ASSUME TypeOK, Owned, NEW p \in Process, Unlink(p)
  PROVE  /\ pc[p] = "unlink" /\ NoLoss /\ UNCHANGED <<at, files, receipt>>
         /\ Becomes(old[p].file, "gone", 0, Nothing)
         /\ \/ own[p] = Nothing /\ own'[p] = Nothing /\ pc'[p] = "recover" /\ call'[p] = call[p] /\ UNCHANGED confirmed
            \/ own[p] # Nothing /\ Over(p) /\ Told(p, ok[p])
<1>1. old[p].file \in Temp
  BY DEF TypeOK, LocalsOK, Name, Owned, OwnedOK, Unlink, Removing
<1>2. pc[p] = "unlink" /\ NoLoss /\ UNCHANGED <<at, files, receipt>> /\ Becomes(old[p].file, "gone", 0, Nothing)
  BY <1>1, BecomeFacts DEF Unlink, NoLoss
<1>3. CASE own[p] = Nothing
  BY <1>2, <1>3 DEF Unlink, Goto, TypeOK, LocalsOK
<1>4. CASE own[p] # Nothing
  BY <1>2, <1>4, ReturnFacts DEF Unlink, TypeOK
<1>. QED BY <1>3, <1>4

LEMMA CrashFacts ==
  ASSUME TypeOK, NEW p \in Process, Crash(p)
  PROVE  /\ Over(p) /\ UNCHANGED <<files, receipt, temp, confirmed, lost>>
         /\ at' = [d \in Dir |-> IF at[d] = p THEN "left" ELSE at[d]]
         /\ used'.crashes # 0
BY DEF TypeOK, LocalsOK, HistoryOK, Crash, Reset, Goto, Over

-------------------------------------------------------------------------------
\* Every step is one process's, or a removal by somebody else.
Act(p) == PublishStep(p) \/ WriteStep(p) \/ Crash(p)

LEMMA NextIsAct == Next => (\E p \in Process : Act(p)) \/ Loss
BY DEF Next, Act

Stay(q) == pc'[q] = pc[q] /\ Mem(q)

LEMMA OthersStay ==
  ASSUME TypeOK, NEW p \in Process, NEW q \in Process, q # p, Act(p)
  PROVE  Stay(q)
<1>. LocalsOK
  BY DEF TypeOK
<1>0. ASSUME Reset(p)
      PROVE  Stay(q)
  BY <1>0 DEF LocalsOK, Reset, Goto, Stay, Mem
<1>1. ASSUME NEW success, Return(p, success)
      PROVE  Stay(q)
  BY <1>0, <1>1 DEF Return
<1>2. ASSUME NEW success, End(p, success)
      PROVE  Stay(q)
  BY <1>1, <1>2 DEF LocalsOK, End, Goto, Stay, Mem
<1>3. ASSUME Continue(p)
      PROVE  Stay(q)
  BY <1>2, <1>3 DEF LocalsOK, Continue, Goto, locals, Stay, Mem
<1>4. CASE Publish(p) \/ Write(p)
  BY <1>4 DEF LocalsOK, Publish, Write, Start, Goto, Stay, Mem
<1>5. CASE OpenParent(p) \/ Look(p) \/ MakeStaging(p) \/ WriteFile(p) \/ Rename(p)
  BY <1>5 DEF LocalsOK, OpenParent, Look, MakeStaging, WriteFile, Rename, Goto, locals, Stay, Mem
<1>6. CASE Seal(p) \/ CheckBytes(p) \/ CheckPlace(p)
  BY <1>2, <1>3, <1>6 DEF LocalsOK, Seal, CheckBytes, CheckPlace, Goto, locals, Stay, Mem
<1>7. CASE OpenWinner(p)
  BY <1>2, <1>7 DEF LocalsOK, OpenWinner, Goto, Stay, Mem
<1>8. CASE Cleanup(p)
  BY <1>1, <1>8 DEF Cleanup, Remove, locals, Stay, Mem
<1>9. CASE Scan(p) \/ Create(p) \/ Fill(p) \/ Compare(p)
  BY <1>9 DEF LocalsOK, Scan, Create, Fill, Compare, Goto, locals, Stay, Mem
<1>10. CASE Recover(p)
  BY <1>1, <1>10 DEF LocalsOK, Recover, Goto, locals, Stay, Mem
<1>11. CASE Link(p)
  BY <1>1, <1>11 DEF LocalsOK, Link, Goto, locals, Stay, Mem
<1>12. ASSUME NEW from, NEW k, NEW turn, NEW next, MoveOn(p, from, k, turn, next)
       PROVE  Stay(q)
  BY <1>1, <1>12 DEF LocalsOK, MoveOn, Goto, Stay, Mem
<1>13. CASE Bury(p) \/ Retire(p) \/ Hide(p)
  BY <1>12, <1>13 DEF Bury, Retire, Hide
<1>14. CASE Unlink(p)
  BY <1>1, <1>14 DEF LocalsOK, Unlink, Goto, Stay, Mem
<1>15. CASE Crash(p)
  BY <1>0, <1>15 DEF Crash
<1>. QED BY <1>4, <1>5, <1>6, <1>7, <1>8, <1>9, <1>10, <1>11, <1>13, <1>14, <1>15
         DEF Act, PublishStep, WriteStep

LEMMA LossFacts ==
  ASSUME Loss, NEW q \in Process
  PROVE  /\ Stay(q) /\ UNCHANGED <<temp, confirmed>> /\ used'.crashes = used.crashes
         /\ lost \subseteq lost'
BY DEF Loss, locals, Stay, Mem
-------------------------------------------------------------------------------
\* The directories

\* A new directory for name n.
Makes(n) ==
  /\ At(n) = {} /\ NewDir \in Dir /\ at[NewDir] = "free" /\ (\A q \in Process : dir[q] # NewDir)
  /\ at' = [at EXCEPT ![NewDir] = n] /\ UNCHANGED files

\* What a call does to the directories: a new one, a file in its own, its own gets the
\* name it publishes, is removed piece by piece, or left behind.
DirChange(p) ==
  \/ UNCHANGED <<at, files>>
  \/ Makes(Base) \/ Makes(p)
  \/ /\ dir[p] \in Dir /\ at[dir[p]] = p /\ UNCHANGED at /\ pc[p] = "write"
     /\ \E f \in File : Put(dir[p], f, call[p].want[f])
  \/ /\ dir[p] \in Dir /\ at[dir[p]] = p /\ files[dir[p]] = call[p].want /\ call[p].want \in Content
     /\ call[p].key \in Snapshot /\ At(call[p].key) = {}
     /\ at' = [at EXCEPT ![dir[p]] = call[p].key] /\ UNCHANGED files
  \/ \E d \in Dir : at[d] = p /\ UNCHANGED at /\ \E f \in File : Put(d, f, Nothing)
  \/ \E d \in Dir : at[d] = p /\ files[d] = Hollow /\ at' = [at EXCEPT ![d] = "free"] /\ UNCHANGED files
  \/ /\ at' = [d \in Dir |-> IF at[d] = p THEN "left" ELSE at[d]] /\ UNCHANGED files
     /\ used'.crashes # 0

LEMMA DirChanges ==
  ASSUME EvidenceInv, NEW p \in Process, Act(p)
  PROVE  DirChange(p)
<1>. TypeOK /\ LocalsOK /\ StagedOK(p) /\ CallOK(p)
  BY DEF EvidenceInv, TypeOK, Staged, Calls
<1>1. CASE UNCHANGED <<at, files>>
  BY <1>1 DEF DirChange
<1>2. CASE OpenParent(p)
  BY <1>2, OpenParentFacts DEF DirChange, Makes
<1>3. CASE MakeStaging(p)
  <2>1. At(p) = {}
    BY <1>3, MakeStagingFacts DEF StagedOK, Staging, Looking
  <2>. QED BY <1>3, <2>1, MakeStagingFacts DEF DirChange, Makes
<1>4. CASE WriteFile(p)
  <2>1. dir[p] \in Dir /\ at[dir[p]] = p
    BY <1>4, WriteFileFacts DEF StagedOK, Staging, LocalsOK
  <2>. QED BY <1>4, <2>1, WriteFileFacts DEF DirChange
<1>5. CASE Rename(p)
  <2>1. dir[p] \in Dir /\ at[dir[p]] = p /\ files[dir[p]] = call[p].want
    BY <1>5, RenameFacts DEF StagedOK, Staging, LocalsOK
  <2>2. call[p].key \in Snapshot /\ call[p].want \in Content
    BY <1>5, RenameFacts DEF CallOK, PublishStatements, Staging
  <2>. QED BY <1>5, <2>1, <2>2, RenameFacts DEF DirChange
<1>6. CASE Cleanup(p)
  BY <1>6, CleanupFacts DEF DirChange
<1>7. CASE Crash(p)
  BY <1>7, CrashFacts DEF DirChange
<1>8. CASE Publish(p) \/ Look(p) \/ Seal(p) \/ OpenWinner(p) \/ CheckBytes(p) \/ CheckPlace(p)
  BY <1>1, <1>8, PublishFacts, LookFacts, SealFacts, OpenWinnerFacts, CheckBytesFacts, CheckPlaceFacts
     DEF Still
<1>9. CASE Write(p) \/ Scan(p) \/ Recover(p) \/ Create(p) \/ Fill(p) \/ Link(p) \/ Compare(p)
  BY <1>1, <1>9 DEF Write, Start, Scan, Recover, Create, Fill, Link, Compare, disk
<1>10. CASE Bury(p) \/ Retire(p) \/ Hide(p) \/ Unlink(p)
  BY <1>1, <1>10 DEF Bury, Retire, Hide, MoveOn, Unlink
<1>. QED BY <1>2, <1>3, <1>4, <1>5, <1>6, <1>7, <1>8, <1>9, <1>10 DEF Act, PublishStep, WriteStep

\* No call touches what has another's name, or a snapshot's.
LEMMA ForeignDirs ==
  ASSUME EvidenceInv, NEW p \in Process, DirChange(p), NEW d \in Dir
  PROVE  /\ at[d] \notin {p, "free"} => at'[d] = at[d] /\ files'[d] = files[d]
         /\ at[d] \in {p, "free"} => at'[d] \in {at[d], p, "free", "left"} \cup Snapshot
         /\ (at[d] = "free" /\ at'[d] # "free") => \A q \in Process : dir[q] # d
         /\ at[d] = "free" => files'[d] = files[d]
<1>. /\ at \in [Dir -> Snapshot \cup Process \cup {"left", "free"}]
     /\ files \in [Dir -> [File -> Bytes \cup {Nothing}]]
  BY DEF EvidenceInv, TypeOK, DiskOK
<1>1. CASE UNCHANGED <<at, files>>
  BY <1>1
<1>2. CASE Makes(Base) \/ Makes(p)
  BY <1>2, Distinct DEF Makes
<1>3. CASE /\ dir[p] \in Dir /\ at[dir[p]] = p /\ UNCHANGED at
           /\ \E f \in File : Put(dir[p], f, call[p].want[f])
  BY <1>3, Distinct DEF Put
<1>4. CASE /\ dir[p] \in Dir /\ at[dir[p]] = p /\ call[p].key \in Snapshot
           /\ at' = [at EXCEPT ![dir[p]] = call[p].key] /\ UNCHANGED files
  BY <1>4, Distinct
<1>5. CASE \E e \in Dir : at[e] = p /\ UNCHANGED at /\ \E f \in File : Put(e, f, Nothing)
  BY <1>5, Distinct DEF Put
<1>6. CASE \E e \in Dir : at[e] = p /\ files[e] = Hollow /\ at' = [at EXCEPT ![e] = "free"] /\ UNCHANGED files
  BY <1>6, Distinct
<1>7. CASE at' = [e \in Dir |-> IF at[e] = p THEN "left" ELSE at[e]] /\ UNCHANGED files
  BY <1>7, Distinct
<1>. QED BY <1>1, <1>2, <1>3, <1>4, <1>5, <1>6, <1>7 DEF DirChange

LEMMA OthersDirs ==
  ASSUME EvidenceInv, NEW p \in Process, DirChange(p), NEW q \in Process, q # p
  PROVE  /\ At(q)' = At(q)
         /\ \A d \in Dir : at[d] = q => at'[d] = q /\ files'[d] = files[d]
<1>1. \A d \in Dir : at[d] = q => at'[d] = q /\ files'[d] = files[d]
  BY ForeignDirs, Distinct
<1>2. \A d \in Dir : at'[d] = q => at[d] = q
  BY ForeignDirs, Distinct
<1>. QED BY <1>1, <1>2 DEF At

LEMMA OneDirStep ==
  ASSUME EvidenceInv, NEW p \in Process, DirChange(p)
  PROVE  OneDir'
<1>. /\ at \in [Dir -> Snapshot \cup Process \cup {"left", "free"}] /\ OneDir
  BY DEF EvidenceInv, TypeOK, DiskOK
<1>1. CASE UNCHANGED at
  BY <1>1 DEF OneDir
<1>2. ASSUME NEW n, NEW d \in Dir, At(n) = {}, at' = [at EXCEPT ![d] = n]
      PROVE  OneDir'
  BY <1>2 DEF OneDir, At
<1>3. ASSUME NEW d \in Dir, at' = [at EXCEPT ![d] = "free"]
      PROVE  OneDir'
  BY <1>3 DEF OneDir
<1>4. CASE at' = [e \in Dir |-> IF at[e] = p THEN "left" ELSE at[e]]
  BY <1>4 DEF OneDir
<1>. QED BY <1>1, <1>2, <1>3, <1>4 DEF DirChange, Makes

LEMMA WholeStep ==
  ASSUME EvidenceInv, NEW p \in Process, DirChange(p)
  PROVE  Whole'
<1>. /\ at \in [Dir -> Snapshot \cup Process \cup {"left", "free"}] /\ Whole
     /\ files \in [Dir -> [File -> Bytes \cup {Nothing}]]
  BY DEF EvidenceInv, TypeOK, DiskOK
<1>1. CASE UNCHANGED <<at, files>>
  BY <1>1 DEF Whole
<1>2. CASE Makes(Base) \/ Makes(p)
  BY <1>2, Distinct DEF Makes, Whole
<1>3. ASSUME NEW d \in Dir, at[d] = p, UNCHANGED at,
             \A e \in Dir : e # d => files'[e] = files[e]
      PROVE  Whole'
  BY <1>3, Distinct DEF Whole
<1>4. ASSUME NEW d \in Dir, NEW f, NEW b, Put(d, f, b)
      PROVE  \A e \in Dir : e # d => files'[e] = files[e]
  BY <1>4 DEF Put
<1>5. CASE /\ dir[p] \in Dir /\ at[dir[p]] = p /\ files[dir[p]] = call[p].want /\ call[p].want \in Content
           /\ call[p].key \in Snapshot
           /\ at' = [at EXCEPT ![dir[p]] = call[p].key] /\ UNCHANGED files
  BY <1>5, Distinct DEF Whole
<1>6. CASE \E e \in Dir : at[e] = p /\ files[e] = Hollow /\ at' = [at EXCEPT ![e] = "free"] /\ UNCHANGED files
  BY <1>6, Distinct DEF Whole
<1>7. CASE at' = [e \in Dir |-> IF at[e] = p THEN "left" ELSE at[e]] /\ UNCHANGED files
  BY <1>7, Distinct DEF Whole
<1>. QED BY <1>1, <1>2, <1>3, <1>4, <1>5, <1>6, <1>7 DEF DirChange

\* What is published stays as it is.
LEMMA PublishedKept ==
  ASSUME EvidenceInv, NEW p \in Process, DirChange(p), OneDir',
         NEW n \in Snapshot, Published(n) # Nothing
  PROVE  Published(n)' = Published(n)
<1>1. OneDir
  BY DEF EvidenceInv
<1>2. PICK d \in Dir : at[d] = n
  BY PublishedNot DEF At
<1>3. at'[d] = n /\ files'[d] = files[d]
  BY <1>2, ForeignDirs, Distinct
<1>4. Published(n) = IF files[d] # Hollow THEN files[d] ELSE Nothing
  BY <1>1, <1>2, PublishedIs
<1>5. Published(n)' = IF files'[d] # Hollow THEN files'[d] ELSE Nothing
  <2>1. \A e \in At(n)' : e = d
    BY <1>2, <1>3, Distinct DEF OneDir, At
  <2>2. d \in At(n)'
    BY <1>2, <1>3 DEF At
  <2>. QED BY <2>1, <2>2 DEF Published
<1>. QED BY <1>3, <1>4, <1>5

\* What is at a name after a step of a call was there before, or is what it publishes.
LEMMA PublishedFrom ==
  ASSUME EvidenceInv, NEW p \in Process, DirChange(p), OneDir', NEW n \in Snapshot
  PROVE  Published(n)' = Published(n) \/ (n = call[p].key /\ Published(n)' \in Content /\ call[p].key \in Snapshot
                                          /\ \A m \in Snapshot : m # n => Published(m)' = Published(m))
<1>. /\ at \in [Dir -> Snapshot \cup Process \cup {"left", "free"}] /\ OneDir
     /\ files \in [Dir -> [File -> Bytes \cup {Nothing}]] /\ Whole
  BY DEF EvidenceInv, TypeOK, DiskOK
<1>1. ASSUME NEW m \in Snapshot, At(m)' = At(m), \A d \in At(m) : files'[d] = files[d]
      PROVE  Published(m)' = Published(m)
  <2>1. CASE At(m) = {}
    BY <1>1, <2>1 DEF Published
  <2>2. CASE At(m) # {}
    <3>1. PICK d \in Dir : at[d] = m
      BY <2>2 DEF At
    <3>2. At(m) = {d}
      BY <3>1, Distinct DEF At, OneDir
    <3>. QED BY <1>1, <3>2 DEF Published
  <2>. QED BY <2>1, <2>2
<1>2. CASE UNCHANGED <<at, files>>
  BY <1>2 DEF Published, At
<1>3. CASE Makes(Base)
  <2>1. CASE n = Base
    <3>1. At(n)' = {NewDir} /\ files'[NewDir] = Hollow
      BY <1>3, <2>1 DEF Makes, At, Whole
    <3>2. Published(n)' = Nothing
      BY <3>1 DEF Published, Hollow
    <3>. QED BY <1>3, <2>1, <3>2, PublishedNot DEF Makes
  <2>2. CASE n # Base
    <3>1. At(n)' = At(n) /\ UNCHANGED files
      BY <1>3, <2>2, Distinct DEF Makes, At
    <3>. QED BY <1>1, <3>1
  <2>. QED BY <2>1, <2>2
<1>4. CASE Makes(p)
  <2>1. At(n)' = At(n) /\ UNCHANGED files
    BY <1>4, Distinct DEF Makes, At
  <2>. QED BY <1>1, <2>1
<1>5. ASSUME NEW d \in Dir, at[d] = p, UNCHANGED at, NEW f, NEW b, Put(d, f, b)
      PROVE  Published(n)' = Published(n)
  <2>1. At(n)' = At(n) /\ \A e \in At(n) : files'[e] = files[e]
    BY <1>5, Distinct DEF At, Put
  <2>. QED BY <1>1, <2>1
<1>6. CASE /\ dir[p] \in Dir /\ at[dir[p]] = p /\ files[dir[p]] = call[p].want /\ call[p].want \in Content
           /\ call[p].key \in Snapshot /\ At(call[p].key) = {}
           /\ at' = [at EXCEPT ![dir[p]] = call[p].key] /\ UNCHANGED files
  <2>1. ASSUME NEW m \in Snapshot, m # call[p].key
        PROVE  Published(m)' = Published(m)
    <3>1. At(m)' = At(m)
      BY <1>6, <2>1, Distinct DEF At
    <3>. QED BY <1>1, <1>6, <3>1
  <2>3. files'[dir[p]] = call[p].want /\ files'[dir[p]] # Hollow
    BY <1>6, HollowIs
  <2>4. CASE n = call[p].key
    <3>1. At(n)' = {dir[p]}
      BY <1>6, <2>4, Distinct DEF At
    <3>2. Published(n)' = call[p].want
      BY <2>3, <3>1 DEF Published
    <3>. QED BY <1>6, <2>1, <2>4, <3>2
  <2>. QED BY <2>1, <2>4
<1>7. CASE \E e \in Dir : at[e] = p /\ files[e] = Hollow /\ at' = [at EXCEPT ![e] = "free"] /\ UNCHANGED files
  <2>1. At(n)' = At(n) /\ UNCHANGED files
    BY <1>7, Distinct DEF At
  <2>. QED BY <1>1, <2>1
<1>8. CASE at' = [e \in Dir |-> IF at[e] = p THEN "left" ELSE at[e]] /\ UNCHANGED files
  <2>1. At(n)' = At(n) /\ UNCHANGED files
    BY <1>8, Distinct DEF At
  <2>. QED BY <1>1, <2>1
<1>. QED BY <1>2, <1>3, <1>4, <1>5, <1>6, <1>7, <1>8 DEF DirChange

-------------------------------------------------------------------------------
\* Temporary files

Origin(p) == IF own[p] = Nothing THEN "rollback" ELSE "tmp"

\* It has moved its old entry on, or found it taken.
MovedOn(p, from, kind, turn, next) ==
  \/ /\ Named(old[p], from) /\ Becomes(old[p].file, kind, turn, temp[old[p].file].bytes)
     /\ old'[p] = [file |-> old[p].file, turn |-> turn] /\ pc'[p] = next
     /\ call'[p] = call[p] /\ own'[p] = own[p] /\ ok'[p] = ok[p] /\ UNCHANGED confirmed
  \/ ~Named(old[p], from) /\ Over(p) /\ Told(p, FALSE) /\ UNCHANGED temp

LEMMA BuryFacts ==
  ASSUME TypeOK, Owned, NEW p \in Process, Bury(p)
  PROVE  /\ pc[p] = "bury" /\ NoLoss /\ UNCHANGED <<at, files, receipt>>
         /\ MovedOn(p, Origin(p), "delete", old[p].turn, "retire")
<1>1. pc[p] = "bury" /\ MoveOn(p, Origin(p), "delete", old[p].turn, "retire")
  BY DEF Bury, Origin
<1>2. old[p].file \in Temp
  BY <1>1 DEF TypeOK, LocalsOK, Name, Owned, OwnedOK, Removing
<1>3. NoLoss /\ UNCHANGED <<at, files, receipt>>
  BY <1>1 DEF MoveOn, NoLoss
<1>4. CASE Named(old[p], Origin(p))
  <2>1. Becomes(old[p].file, "delete", old[p].turn, temp[old[p].file].bytes)
    BY <1>1, <1>2, <1>4 DEF MoveOn, Become, Becomes, TypeOK, DiskOK
  <2>. QED BY <1>1, <1>3, <1>4, <2>1 DEF MoveOn, Goto, TypeOK, LocalsOK, MovedOn
<1>5. CASE ~Named(old[p], Origin(p))
  BY <1>1, <1>3, <1>5, ReturnFacts DEF MoveOn, TypeOK, MovedOn
<1>. QED BY <1>1, <1>3, <1>4, <1>5

LEMMA RetireFacts ==
  ASSUME TypeOK, Owned, NEW p \in Process, Retire(p)
  PROVE  /\ pc[p] = "retire" /\ NoLoss /\ UNCHANGED <<at, files, receipt>>
         /\ MovedOn(p, "delete", "rollback", old[p].turn + 1, "hide")
<1>1. pc[p] = "retire" /\ MoveOn(p, "delete", "rollback", old[p].turn + 1, "hide")
  BY DEF Retire
<1>2. old[p].file \in Temp
  BY <1>1 DEF TypeOK, LocalsOK, Name, Owned, OwnedOK, Removing
<1>3. NoLoss /\ UNCHANGED <<at, files, receipt>>
  BY <1>1 DEF MoveOn, NoLoss
<1>4. CASE Named(old[p], "delete")
  <2>1. Becomes(old[p].file, "rollback", old[p].turn + 1, temp[old[p].file].bytes)
    BY <1>1, <1>2, <1>4 DEF MoveOn, Become, Becomes, TypeOK, DiskOK
  <2>. QED BY <1>1, <1>3, <1>4, <2>1 DEF MoveOn, Goto, TypeOK, LocalsOK, MovedOn
<1>5. CASE ~Named(old[p], "delete")
  BY <1>1, <1>3, <1>5, ReturnFacts DEF MoveOn, TypeOK, MovedOn
<1>. QED BY <1>1, <1>3, <1>4, <1>5

LEMMA HideFacts ==
  ASSUME TypeOK, Owned, NEW p \in Process, Hide(p)
  PROVE  /\ pc[p] = "hide" /\ NoLoss /\ UNCHANGED <<at, files, receipt>>
         /\ MovedOn(p, "rollback", "private", old[p].turn, "unlink")
<1>1. pc[p] = "hide" /\ MoveOn(p, "rollback", "private", old[p].turn, "unlink")
  BY DEF Hide
<1>2. old[p].file \in Temp
  BY <1>1 DEF TypeOK, LocalsOK, Name, Owned, OwnedOK, Removing
<1>3. NoLoss /\ UNCHANGED <<at, files, receipt>>
  BY <1>1 DEF MoveOn, NoLoss
<1>4. CASE Named(old[p], "rollback")
  <2>1. Becomes(old[p].file, "private", old[p].turn, temp[old[p].file].bytes)
    BY <1>1, <1>2, <1>4 DEF MoveOn, Become, Becomes, TypeOK, DiskOK
  <2>. QED BY <1>1, <1>3, <1>4, <2>1 DEF MoveOn, Goto, TypeOK, LocalsOK, MovedOn
<1>5. CASE ~Named(old[p], "rollback")
  BY <1>1, <1>3, <1>5, ReturnFacts DEF MoveOn, TypeOK, MovedOn
<1>. QED BY <1>1, <1>3, <1>4, <1>5

TempChange(p) ==
  \/ UNCHANGED temp
  \/ pc[p] = "create" /\ temp[NewTemp].kind = "new" /\ Becomes(NewTemp, "tmp", 0, Nothing)
  \/ pc[p] = "fill" /\ Becomes(own[p], "tmp", 0, call[p].want)
  \/ pc[p] = "link" /\ Becomes(own[p], "gone", 0, Nothing)
  \/ /\ pc[p] = "bury" /\ Named(old[p], Origin(p))
     /\ Becomes(old[p].file, "delete", old[p].turn, temp[old[p].file].bytes)
  \/ /\ pc[p] = "retire" /\ Becomes(old[p].file, "rollback", old[p].turn + 1, temp[old[p].file].bytes)
  \/ /\ pc[p] = "hide" /\ Named(old[p], "rollback")
     /\ Becomes(old[p].file, "private", old[p].turn, temp[old[p].file].bytes)
  \/ pc[p] = "unlink" /\ Becomes(old[p].file, "gone", 0, Nothing)

LEMMA TempChanges ==
  ASSUME TypeOK, Owned, NEW p \in Process, Act(p)
  PROVE  TempChange(p)
<1>1. CASE Publish(p) \/ OpenParent(p) \/ Look(p) \/ MakeStaging(p) \/ WriteFile(p) \/ Seal(p)
  BY <1>1, PublishFacts, OpenParentFacts, LookFacts, MakeStagingFacts, WriteFileFacts, SealFacts
     DEF Still, TempChange
<1>2. CASE Rename(p) \/ OpenWinner(p) \/ CheckBytes(p) \/ CheckPlace(p) \/ Cleanup(p)
  BY <1>2, RenameFacts, OpenWinnerFacts, CheckBytesFacts, CheckPlaceFacts, CleanupFacts
     DEF Still, TempChange
<1>3. CASE Write(p) \/ Scan(p) \/ Recover(p) \/ Compare(p) \/ Crash(p)
  BY <1>3, WriteFacts, ScanFacts, RecoverFacts, CompareFacts, CrashFacts DEF Still, TempChange
<1>4. CASE Create(p) \/ Fill(p) \/ Link(p)
  BY <1>4, CreateFacts, FillFacts, LinkFacts DEF TempChange
<1>5. CASE Bury(p) \/ Retire(p) \/ Hide(p)
  BY <1>5, BuryFacts, RetireFacts, HideFacts DEF MovedOn, TempChange
<1>6. CASE Unlink(p)
  BY <1>6, UnlinkFacts DEF TempChange
<1>. QED BY <1>1, <1>2, <1>3, <1>4, <1>5, <1>6 DEF Act, PublishStep, WriteStep

\* The kind of name of the file that a step changes tells whose it is.
LEMMA ForeignTemps ==
  ASSUME TypeOK, Owned, Handled, Apart, NEW p \in Process, TempChange(p), NEW q \in Process, q # p
  PROVE  /\ (own[q] # Nothing /\ temp[own[q]].kind = "tmp") => temp'[own[q]] = temp[own[q]]
         /\ (pc[q] \in {"retire", "unlink"} /\ old[q].file # Nothing) =>
              temp'[old[q].file] = temp[old[q].file]
<1>. LocalsOK /\ OwnedOK(p) /\ HandledOK(p) /\ OwnedOK(q) /\ HandledOK(q)
  BY DEF TypeOK, Owned, Handled
<1>1. own[q] # Nothing => own[q] \in Temp
  BY DEF LocalsOK
<1>2. old[q].file # Nothing => old[q].file \in Temp
  BY DEF LocalsOK, Name
<1>3. pc[q] \in {"retire", "unlink"} => temp[old[q].file].kind \in {"delete", "private"}
  BY DEF HandledOK, Named
<1>4. CASE UNCHANGED temp
  BY <1>4
<1>5. CASE pc[p] = "create" /\ temp[NewTemp].kind = "new" /\ Becomes(NewTemp, "tmp", 0, Nothing)
  BY <1>1, <1>2, <1>3, <1>5 DEF Becomes
<1>6. ASSUME pc[p] \in {"fill", "link"}, NEW k, NEW turn, NEW b, Becomes(own[p], k, turn, b)
      PROVE  /\ own[q] # Nothing => temp'[own[q]] = temp[own[q]]
             /\ (pc[q] \in {"retire", "unlink"} /\ old[q].file # Nothing) =>
                  temp'[old[q].file] = temp[old[q].file]
  <2>1. own[p] # Nothing /\ temp[own[p]].kind = "tmp"
    BY <1>6 DEF OwnedOK
  <2>2. own[p] # own[q]
    BY <2>1 DEF Apart
  <2>. QED BY <1>1, <1>2, <1>3, <1>6, <2>1, <2>2 DEF Becomes
<1>7. CASE /\ pc[p] = "bury" /\ Named(old[p], Origin(p))
           /\ Becomes(old[p].file, "delete", old[p].turn, temp[old[p].file].bytes)
  <2>1. temp[old[p].file].kind \in {"rollback", "tmp"}
        /\ (temp[old[p].file].kind = "tmp" => own[p] # Nothing /\ old[p].file = own[p])
    BY <1>7 DEF Named, Origin, HandledOK
  <2>2. own[p] # Nothing => own[p] # own[q]
    BY DEF Apart
  <2>. QED BY <1>1, <1>2, <1>3, <1>7, <2>1, <2>2 DEF Becomes
<1>8. ASSUME pc[p] \in {"retire", "unlink"}, NEW k, NEW turn, NEW b, Becomes(old[p].file, k, turn, b)
      PROVE  /\ (own[q] # Nothing /\ temp[own[q]].kind = "tmp") => temp'[own[q]] = temp[own[q]]
             /\ (pc[q] \in {"retire", "unlink"} /\ old[q].file # Nothing) =>
                  temp'[old[q].file] = temp[old[q].file]
  <2>1. temp[old[p].file].kind \in {"delete", "private"}
    BY <1>8 DEF HandledOK, Named
  <2>2. pc[q] \in {"retire", "unlink"} => old[p].file # old[q].file
    BY <1>8 DEF Apart
  <2>. QED BY <1>1, <1>2, <1>8, <2>1, <2>2 DEF Becomes
<1>9. CASE /\ pc[p] = "hide" /\ Named(old[p], "rollback")
           /\ Becomes(old[p].file, "private", old[p].turn, temp[old[p].file].bytes)
  BY <1>1, <1>2, <1>3, <1>9 DEF Becomes, Named
<1>. QED BY <1>4, <1>5, <1>6, <1>7, <1>8, <1>9 DEF TempChange

LEMMA NewNever ==
  ASSUME TypeOK, NEW p \in Process, TempChange(p), NEW t \in Temp, temp[t].kind # "new"
  PROVE  temp'[t].kind # "new"
BY DEF TempChange, Becomes

LEMMA ReceiptChange ==
  ASSUME TypeOK, Owned, NEW p \in Process, Act(p)
  PROVE  \/ UNCHANGED receipt
         \/ receipt = Nothing /\ pc[p] = "link" /\ receipt' = call[p].want /\ UNCHANGED <<at, files>>
<1>1. CASE Link(p)
  BY <1>1, LinkFacts
<1>2. CASE ~Link(p)
  <2>1. CASE PublishStep(p)
    BY <2>1, PublishFacts, OpenParentFacts, LookFacts, MakeStagingFacts, WriteFileFacts, SealFacts,
       RenameFacts, OpenWinnerFacts, CheckBytesFacts, CheckPlaceFacts, CleanupFacts
       DEF PublishStep, Still
  <2>2. CASE Write(p) \/ Scan(p) \/ Recover(p) \/ Compare(p) \/ Crash(p) \/ Create(p) \/ Fill(p)
    BY <2>2, WriteFacts, ScanFacts, RecoverFacts, CompareFacts, CrashFacts, CreateFacts, FillFacts
       DEF Still
  <2>3. CASE Bury(p) \/ Retire(p) \/ Hide(p) \/ Unlink(p)
    BY <2>3, BuryFacts, RetireFacts, HideFacts, UnlinkFacts
  <2>. QED BY <1>2, <2>1, <2>2, <2>3 DEF Act, WriteStep
<1>. QED BY <1>1, <1>2

\* No step of a call replaces or removes what is published.
LEMMA RegisterKept ==
  ASSUME EvidenceInv, NEW p \in Process, Act(p), NEW n \in Snapshot \cup {Receipt},
         Register[n] # Nothing
  PROVE  Register'[n] = Register[n]
<1>1. DirChange(p) /\ TypeOK /\ Owned
  BY DirChanges DEF EvidenceInv
<1>2. OneDir'
  BY <1>1, OneDirStep
<1>3. CASE n \in Snapshot
  <2>1. Published(n)' = Published(n)
    BY <1>1, <1>2, <1>3, PublishedKept, RegisterIs
  <2>2. Register'[n] = Published(n)'
    BY <1>3, Distinct DEF Register
  <2>. QED BY <1>3, <2>1, <2>2, RegisterIs
<1>4. CASE n = Receipt
  <2>1. receipt' = receipt
    BY <1>1, <1>4, ReceiptChange, RegisterIs
  <2>2. Register'[Receipt] = receipt'
    BY Distinct DEF Register
  <2>. QED BY <1>4, <2>1, <2>2, RegisterIs
<1>. QED BY <1>3, <1>4

\* A removal by somebody else empties one name.
Emptied(m) ==
  /\ lost' = lost \cup {m} /\ Register'[m] = Nothing
  /\ \A n \in (Snapshot \cup {Receipt}) \ {m} : Register'[n] = Register[n]
  /\ \A d \in Dir : at[d] # m => at'[d] = at[d] /\ files'[d] = files[d]

LEMMA LossEffect ==
  ASSUME TypeOK, OneDir, Loss
  PROVE  \E m \in Snapshot \cup {Receipt} : Emptied(m)
<1>. /\ at \in [Dir -> Snapshot \cup Process \cup {"left", "free"}]
     /\ files \in [Dir -> [File -> Bytes \cup {Nothing}]]
  BY DEF TypeOK, DiskOK
<1>0. /\ Register'[Receipt] = receipt' /\ Register[Receipt] = receipt
      /\ \A n \in Snapshot : Register'[n] = Published(n)' /\ Register[n] = Published(n)
  BY Distinct DEF Register
<1>1. CASE \E m \in Snapshot : \E d \in At(m) :
             /\ at' = [at EXCEPT ![d] = "free"] /\ files' = [files EXCEPT ![d] = Hollow]
             /\ lost' = lost \cup {m} /\ UNCHANGED receipt
  <2>1. PICK m \in Snapshot, d \in Dir :
             /\ at[d] = m /\ at' = [at EXCEPT ![d] = "free"] /\ files' = [files EXCEPT ![d] = Hollow]
             /\ lost' = lost \cup {m} /\ UNCHANGED receipt
    BY <1>1 DEF At
  <2>2. \A e \in Dir : at[e] # m => at'[e] = at[e] /\ files'[e] = files[e]
    BY <2>1
  <2>3. At(m)' = {}
    BY <2>1, Distinct DEF At, OneDir
  <2>4. Register'[m] = Nothing
    BY <1>0, <2>3 DEF Published
  <2>5. ASSUME NEW n \in Snapshot, n # m
        PROVE  Published(n)' = Published(n)
    <3>1. At(n)' = At(n)
      BY <2>1, <2>5, Distinct DEF At
    <3>2. CASE At(n) = {}
      BY <3>1, <3>2 DEF Published
    <3>3. CASE At(n) # {}
      <4>1. PICK e \in Dir : at[e] = n
        BY <3>3 DEF At
      <4>2. At(n) = {e}
        BY <2>5, <4>1, Distinct DEF At, OneDir
      <4>. QED BY <2>2, <2>5, <3>1, <4>1, <4>2 DEF Published
    <3>. QED BY <3>2, <3>3
  <2>. QED BY <1>0, <2>1, <2>2, <2>4, <2>5 DEF Emptied
<1>2. CASE receipt' = Nothing /\ lost' = lost \cup {Receipt} /\ UNCHANGED <<at, files>>
  <2>1. \A n \in Snapshot : Published(n)' = Published(n)
    BY <1>2 DEF Published, At
  <2>. QED BY <1>0, <1>2, <2>1 DEF Emptied
<1>. QED BY <1>1, <1>2 DEF Loss

-------------------------------------------------------------------------------
\* What calls know

LEMMA StatementKinds ==
  /\ \A s \in PublishStatements : s \notin WriteStatements /\ s # "idle"
  /\ \A s \in WriteStatements : s # "idle"
BY DEF PublishStatements, WriteStatements, Staging, Looking, Removing

LEMMA FollowingIs ==
  ASSUME NEW p \in Process, pc[p] \in Looking
  PROVE  /\ Following(p) = "end" => pc[p] = "replace" \/ (pc[p] = "recheck" /\ role[p] # "finder")
         /\ Following(p) # "end" =>
              \/ pc[p] = "placed" /\ Following(p) = "check"
              \/ pc[p] = "check" /\ Following(p) = "place"
              \/ pc[p] = "place" /\ Following(p) = "recheck"
              \/ pc[p] = "recheck" /\ role[p] = "finder" /\ Following(p) = "replace"
<1>1. CASE pc[p] = "placed"
  BY <1>1 DEF Following
<1>2. CASE pc[p] = "check"
  BY <1>2 DEF Following
<1>3. CASE pc[p] = "place"
  BY <1>3 DEF Following
<1>4. CASE pc[p] = "recheck"
  BY <1>4 DEF Following
<1>5. CASE pc[p] = "replace"
  BY <1>5 DEF Following
<1>. QED BY <1>1, <1>2, <1>3, <1>4, <1>5 DEF Looking

\* A step within a check: on to the next one, or to an end.
Checking(p) == CheckBytes(p) \/ CheckPlace(p)

\* Who ends well has seen its bytes at its name.
LEMMA ChecksTrue ==
  ASSUME EvidenceInv, NEW p \in Process, pc[p] \in Looking, Following(p) = "end",
         pc[p] \in {"check", "recheck"} => files[dir[p]] = call[p].want,
         pc[p] \in {"placed", "place", "replace"} => at[dir[p]] = call[p].key
  PROVE  call[p].key \in lost \/ Register[call[p].key] = call[p].want
<1>1. OneDir /\ SeenOK(p) /\ CallOK(p) /\ LocalsOK
  BY DEF EvidenceInv, Seen, Calls, TypeOK
<1>2. /\ dir[p] \in Dir /\ call[p].key \in Snapshot /\ call[p].want \in Content
      /\ call[p].key \in lost \/ at[dir[p]] = call[p].key
  BY <1>1 DEF SeenOK, CallOK, LocalsOK, PublishStatements
<1>3. pc[p] = "replace" \/ pc[p] = "recheck"
  BY FollowingIs
<1>4. call[p].key \in lost \/ (at[dir[p]] = call[p].key /\ files[dir[p]] = call[p].want)
  BY <1>1, <1>2, <1>3 DEF SeenOK
<1>5. ASSUME at[dir[p]] = call[p].key, files[dir[p]] = call[p].want
      PROVE  Register[call[p].key] = call[p].want
  BY <1>1, <1>2, <1>5, PublishedIs, RegisterIs, HollowIs
<1>. QED BY <1>4, <1>5

LEMMA CheckingFacts ==
  ASSUME EvidenceInv, NEW p \in Process, Checking(p)
  PROVE  /\ pc[p] \in Looking /\ Still /\ NoLoss
         /\ \/ /\ Ended(p, TRUE)
               /\ call[p].key \in lost \/ Register[call[p].key] = call[p].want
            \/ Ended(p, FALSE)
            \/ /\ pc'[p] \in Looking /\ Mem(p) /\ UNCHANGED confirmed
               /\ pc'[p] = "place" => files[dir[p]] = call[p].want
               /\ pc'[p] \in {"recheck", "replace"} => pc[p] \in {"place", "recheck"}
<1>. TypeOK
  BY DEF EvidenceInv
<1>1. /\ pc[p] \in Looking /\ Still /\ NoLoss
      /\ Onward(p) \/ Ended(p, FALSE)
      /\ ~Ended(p, FALSE) =>
           /\ pc[p] \in {"check", "recheck"} => files[dir[p]] = call[p].want
           /\ pc[p] \in {"placed", "place", "replace"} => at[dir[p]] = call[p].key
  <2>1. CASE CheckBytes(p)
    BY <2>1, CheckBytesFacts DEF Looking
  <2>2. CASE CheckPlace(p)
    BY <2>2, CheckPlaceFacts DEF Looking
  <2>. QED BY <2>1, <2>2 DEF Checking
<1>2. CASE Ended(p, FALSE)
  BY <1>1, <1>2
<1>3. CASE ~Ended(p, FALSE) /\ Following(p) = "end"
  BY <1>1, <1>3, ChecksTrue DEF Onward
<1>4. CASE ~Ended(p, FALSE) /\ Following(p) # "end"
  BY <1>1, <1>4, FollowingIs DEF Onward, Looking
<1>. QED BY <1>2, <1>3, <1>4

LEMMA ActCases ==
  ASSUME NEW p \in Process, Act(p)
  PROVE  \/ Publish(p) \/ OpenParent(p) \/ Look(p) \/ MakeStaging(p) \/ WriteFile(p) \/ Seal(p)
         \/ Rename(p) \/ OpenWinner(p) \/ Checking(p) \/ Cleanup(p)
         \/ Write(p) \/ Scan(p) \/ Recover(p) \/ Create(p) \/ Fill(p) \/ Link(p) \/ Compare(p)
         \/ Bury(p) \/ Retire(p) \/ Hide(p) \/ Unlink(p)
         \/ Crash(p)
BY DEF Act, PublishStep, WriteStep, Checking

LEMMA StillRegister ==
  ASSUME Still
  PROVE  Register' = Register
BY DEF Still, Register, Published, At

\* Whatever a call reports as published is so.
LEMMA Truthful ==
  ASSUME EvidenceInv, NEW p \in Process, Act(p)
  PROVE  /\ UNCHANGED lost
         /\ \/ UNCHANGED confirmed
            \/ /\ pc[p] \in PublishStatements \cup WriteStatements
               /\ confirmed' = confirmed \cup {<<call[p].key, call[p].want>>}
               /\ call[p].key \in lost \/ Register'[call[p].key] = call[p].want
<1>. /\ TypeOK /\ Owned /\ SeenOK(p) /\ CallOK(p) /\ OwnedOK(p)
  BY DEF EvidenceInv, Seen, Calls, Owned
<1>1. CASE Publish(p) \/ OpenParent(p) \/ Look(p) \/ MakeStaging(p) \/ WriteFile(p) \/ Rename(p)
  BY <1>1, PublishFacts, OpenParentFacts, LookFacts, MakeStagingFacts, WriteFileFacts, RenameFacts
     DEF NoLoss
<1>2. CASE Seal(p) \/ OpenWinner(p)
  BY <1>2, SealFacts, OpenWinnerFacts DEF NoLoss, Ended, Told
<1>3. CASE Checking(p)
  <2>1. pc[p] \in PublishStatements
    BY <1>3, CheckingFacts DEF PublishStatements
  <2>. QED BY <1>3, <2>1, CheckingFacts, StillRegister DEF NoLoss, Ended, Told
<1>4. CASE Cleanup(p)
  <2>1. /\ pc[p] = "cleanup" /\ NoLoss /\ pc[p] \in PublishStatements
        /\ UNCHANGED confirmed \/ Told(p, ok[p])
    BY <1>4, CleanupFacts DEF PublishStatements
  <2>2. call[p].key \in Snapshot /\ call[p].want \in Content
    BY <2>1 DEF CallOK
  <2>3. ok[p] => call[p].key \in lost \/ Register[call[p].key] = call[p].want
    BY <2>1 DEF SeenOK
  <2>4. ok[p] => call[p].key \in lost \/ Register'[call[p].key] = call[p].want
    BY <2>2, <2>3, Distinct, RegisterKept
  <2>. QED BY <2>1, <2>4 DEF NoLoss, Told
<1>5. CASE Write(p) \/ Scan(p) \/ Create(p) \/ Fill(p) \/ Compare(p)
  BY <1>5, WriteFacts, ScanFacts, CreateFacts, FillFacts, CompareFacts DEF NoLoss
<1>6. CASE Recover(p)
  BY <1>6, RecoverFacts DEF NoLoss, Told
<1>7. CASE Link(p)
  <2>1. pc[p] \in WriteStatements /\ pc[p] = "link"
    BY <1>7, LinkFacts DEF WriteStatements
  <2>2. call[p].key = Receipt
    BY <2>1 DEF CallOK
  <2>3. Register'[Receipt] = receipt'
    BY Distinct DEF Register
  <2>. QED BY <1>7, <2>1, <2>2, <2>3, LinkFacts DEF NoLoss, Told
<1>8. CASE Bury(p) \/ Retire(p) \/ Hide(p)
  BY <1>8, BuryFacts, RetireFacts, HideFacts DEF MovedOn, NoLoss, Told
<1>9. CASE Unlink(p)
  <2>1. pc[p] \in WriteStatements /\ pc[p] \in Removing /\ NoLoss /\ receipt' = receipt
    BY <1>9, UnlinkFacts DEF WriteStatements, Removing
  <2>2. call[p].key = Receipt
    BY <2>1 DEF CallOK
  <2>3. Register'[Receipt] = receipt'
    BY Distinct DEF Register
  <2>4. (own[p] # Nothing /\ ok[p]) => Receipt \in lost \/ receipt = call[p].want
    BY <2>1 DEF SeenOK
  <2>. QED BY <1>9, <2>1, <2>2, <2>3, <2>4, UnlinkFacts DEF NoLoss, Told
<1>10. CASE Crash(p)
  BY <1>10, CrashFacts
<1>. QED BY <1>1, <1>2, <1>3, <1>4, <1>5, <1>6, <1>7, <1>8, <1>9, <1>10, ActCases

LEMMA ConfirmedStep ==
  ASSUME EvidenceInv, NEW p \in Process, Act(p)
  PROVE  Confirmed'
<1>1. \A c \in confirmed : c[1] \in lost \/ (c[1] \in Snapshot \cup {Receipt} /\ Register[c[1]] = c[2] /\ c[2] # Nothing)
  BY DEF EvidenceInv, Confirmed, TypeOK, HistoryOK
<1>2. \A c \in confirmed : c[1] \in lost \/ Register'[c[1]] = c[2]
  BY <1>1, RegisterKept
<1>. QED BY <1>2, Truthful DEF Confirmed
-------------------------------------------------------------------------------
\* Each part of the invariant, for the process that takes the step

LEMMA CallStep ==
  ASSUME EvidenceInv, NEW p \in Process, Act(p)
  PROVE  CallOK(p)'
<1>. TypeOK /\ Owned /\ CallOK(p)
  BY DEF EvidenceInv, Calls
<1>0. ASSUME pc'[p] = "idle"
      PROVE  CallOK(p)'
  BY <1>0, StatementKinds DEF CallOK
<1>1. ASSUME pc[p] \in PublishStatements, pc'[p] \in PublishStatements, call'[p] = call[p]
      PROVE  CallOK(p)'
  BY <1>1, StatementKinds DEF CallOK
<1>2. ASSUME pc[p] \in WriteStatements, pc'[p] \in WriteStatements, call'[p] = call[p]
      PROVE  CallOK(p)'
  BY <1>2, StatementKinds DEF CallOK
<1>3. ASSUME NEW success, Ended(p, success), pc[p] \in PublishStatements
      PROVE  CallOK(p)'
  BY <1>0, <1>1, <1>3 DEF Ended, Over, PublishStatements
<1>4. CASE Publish(p)
  BY <1>4, PublishFacts, StatementKinds DEF CallOK, PublishStatements
<1>5. CASE OpenParent(p) \/ Look(p) \/ MakeStaging(p) \/ WriteFile(p) \/ Rename(p)
  BY <1>1, <1>5, OpenParentFacts, LookFacts, MakeStagingFacts, WriteFileFacts, RenameFacts
     DEF PublishStatements, Staging, Looking, Mem
<1>6. CASE Seal(p) \/ OpenWinner(p)
  BY <1>1, <1>3, <1>6, SealFacts, OpenWinnerFacts DEF PublishStatements, Staging, Looking, Mem
<1>7. CASE Checking(p)
  BY <1>1, <1>3, <1>7, CheckingFacts DEF PublishStatements, Mem
<1>8. CASE Cleanup(p)
  BY <1>0, <1>1, <1>8, CleanupFacts DEF PublishStatements, Mem, Over
<1>9. CASE Write(p)
  BY <1>9, WriteFacts, StatementKinds DEF CallOK, WriteStatements
<1>10. CASE Scan(p) \/ Create(p) \/ Fill(p) \/ Compare(p)
  BY <1>2, <1>10, ScanFacts, CreateFacts, FillFacts, CompareFacts DEF WriteStatements, Removing, Mem
<1>11. CASE Recover(p) \/ Link(p)
  BY <1>0, <1>2, <1>11, RecoverFacts, LinkFacts DEF WriteStatements, Removing, Mem, Over
<1>12. CASE Bury(p) \/ Retire(p) \/ Hide(p) \/ Unlink(p)
  BY <1>0, <1>2, <1>12, BuryFacts, RetireFacts, HideFacts, UnlinkFacts
     DEF MovedOn, WriteStatements, Removing, Over
<1>13. CASE Crash(p)
  BY <1>0, <1>13, CrashFacts DEF Over
<1>. QED BY <1>4, <1>5, <1>6, <1>7, <1>8, <1>9, <1>10, <1>11, <1>12, <1>13, ActCases

LEMMA NoneStaged ==
  ASSUME EvidenceInv, NEW p \in Process,
         pc[p] \in {"idle", "parent", "look", "mkdir"} \cup WriteStatements
  PROVE  At(p) = {}
BY DEF EvidenceInv, Staged, StagedOK, Staging, Looking, WriteStatements, Removing

LEMMA StagedStep ==
  ASSUME EvidenceInv, NEW p \in Process, Act(p)
  PROVE  StagedOK(p)'
<1>. /\ TypeOK /\ Owned /\ StagedOK(p) /\ OneDir /\ Whole
     /\ at \in [Dir -> Snapshot \cup Process \cup {"left", "free"}]
     /\ files \in [Dir -> [File -> Bytes \cup {Nothing}]] /\ dir[p] \in Dir \cup {Nothing}
  BY DEF EvidenceInv, Staged, TypeOK, DiskOK, LocalsOK
<1>0. ASSUME At(p)' = {}, pc'[p] \notin Staging \cup {"open", "cleanup"}
      PROVE  StagedOK(p)'
  BY <1>0 DEF StagedOK, Staging
<1>1. ASSUME UNCHANGED at
      PROVE  At(p)' = At(p)
  BY <1>1 DEF At
<1>2. ASSUME NEW success, Ended(p, success), UNCHANGED at
      PROVE  StagedOK(p)'
  BY <1>1, <1>2 DEF StagedOK, Ended, Over, Staging, Looking
<1>3. ASSUME UNCHANGED at, pc[p] \in {"idle", "parent", "look", "mkdir"} \cup WriteStatements,
             pc'[p] \notin Staging \cup {"open", "cleanup"}
      PROVE  StagedOK(p)'
  BY <1>0, <1>1, <1>3, NoneStaged
<1>4. CASE Publish(p) \/ Look(p)
  BY <1>3, <1>4, PublishFacts, LookFacts DEF Still, Staging
<1>5. CASE OpenParent(p)
  <2>1. pc'[p] = "look" /\ At(p) = {} /\ (at' = at \/ at' = [at EXCEPT ![NewDir] = Base])
    BY <1>5, OpenParentFacts, NoneStaged
  <2>2. At(p)' = {}
    BY <2>1, Distinct DEF At
  <2>. QED BY <1>0, <2>1, <2>2 DEF Staging
<1>6. CASE MakeStaging(p)
  <2>1. /\ NewDir \in Dir /\ at'[NewDir] = p /\ dir'[p] = NewDir /\ pc'[p] = "write"
        /\ files' = files /\ files[NewDir] = Hollow
    BY <1>6, MakeStagingFacts DEF Whole
  <2>2. \A f \in File : files'[dir'[p]][f] = Nothing
    BY <2>1 DEF Hollow
  <2>. QED BY <2>1, <2>2, Distinct DEF StagedOK, Staging, Looking
<1>7. CASE WriteFile(p)
  <2>1. /\ pc[p] = "write" /\ dir[p] \in Dir /\ at[dir[p]] = p /\ dir'[p] = dir[p] /\ call'[p] = call[p]
        /\ at' = at /\ pc'[p] \in {"write", "seal"}
        /\ \A f \in File : files[dir[p]][f] \in {Nothing, call[p].want[f]}
    BY <1>7, WriteFileFacts, Distinct DEF StagedOK, Staging, Mem
  <2>2. pc'[p] = "write" => \A f \in File : files'[dir[p]][f] \in {Nothing, call[p].want[f]}
    <3>1. CASE UNCHANGED files
      BY <2>1, <3>1
    <3>2. CASE \E f \in File : Put(dir[p], f, call[p].want[f])
      <4>1. PICK f \in File : Put(dir[p], f, call[p].want[f])
        BY <3>2
      <4>2. files[dir[p]] \in [File -> Bytes \cup {Nothing}]
        BY <2>1
      <4>3. files'[dir[p]] = [files[dir[p]] EXCEPT ![f] = call[p].want[f]]
        BY <2>1, <4>1 DEF Put
      <4>. QED BY <2>1, <4>2, <4>3
    <3>. QED BY <1>7, <3>1, <3>2, WriteFileFacts
  <2>. QED BY <2>1, <2>2, Distinct DEF StagedOK, Staging
<1>8. CASE Seal(p)
  <2>1. CASE /\ files[dir[p]] = call[p].want /\ pc'[p] = "rename" /\ Mem(p) /\ Still
    <3>1. dir[p] # Nothing /\ at[dir[p]] = p
      BY <1>8, SealFacts DEF StagedOK, Staging
    <3>. QED BY <2>1, <3>1 DEF StagedOK, Staging, Mem, Still
  <2>. QED BY <1>2, <1>8, <2>1, SealFacts DEF Still
<1>9. CASE Rename(p)
  <2>1. dir[p] \in Dir /\ at[dir[p]] = p /\ call[p].key \in Snapshot
    BY <1>9, RenameFacts DEF StagedOK, Staging, EvidenceInv, Calls, CallOK, PublishStatements
  <2>2. CASE /\ At(call[p].key) = {} /\ at' = [at EXCEPT ![dir[p]] = call[p].key]
             /\ pc'[p] = "placed"
    <3>1. At(p)' = {}
      BY <2>1, <2>2, Distinct DEF At, OneDir
    <3>. QED BY <1>0, <2>2, <3>1 DEF Staging
  <2>3. CASE pc'[p] = "open" /\ role'[p] = "loser" /\ UNCHANGED at
    BY <2>3 DEF StagedOK, Staging, Looking
  <2>. QED BY <1>9, <2>2, <2>3, RenameFacts
<1>10. CASE OpenWinner(p)
  <2>1. CASE /\ pc'[p] = "check" /\ role'[p] = role[p] /\ Still
    <3>1. role[p] = "loser"
      BY <1>10, OpenWinnerFacts DEF StagedOK
    <3>. QED BY <1>1, <2>1, <3>1 DEF StagedOK, Staging, Looking, Still
  <2>. QED BY <1>2, <1>10, <2>1, OpenWinnerFacts DEF Still
<1>11. CASE Checking(p)
  <2>1. CASE pc[p] \in Looking /\ pc'[p] \in Looking /\ Mem(p) /\ Still
    BY <1>1, <2>1 DEF StagedOK, Staging, Looking, Still, Mem
  <2>. QED BY <1>2, <1>11, <2>1, CheckingFacts DEF Still
<1>12. CASE Cleanup(p)
  <2>1. PICK d \in Dir :
          /\ at[d] = p
          /\ \/ at' = at /\ pc'[p] = pc[p]
             \/ at' = [at EXCEPT ![d] = "free"] /\ Over(p)
    BY <1>12, CleanupFacts
  <2>2. pc[p] = "cleanup"
    BY <1>12, CleanupFacts
  <2>3. CASE at' = at /\ pc'[p] = pc[p]
    BY <1>1, <2>2, <2>3 DEF StagedOK, Staging, Looking
  <2>4. CASE at' = [at EXCEPT ![d] = "free"] /\ Over(p)
    <3>1. At(p)' = {}
      BY <2>1, <2>4, Distinct DEF At, OneDir
    <3>. QED BY <1>0, <2>4, <3>1 DEF Over, Staging
  <2>. QED BY <2>1, <2>3, <2>4
<1>13. CASE Write(p) \/ Scan(p) \/ Recover(p) \/ Create(p) \/ Fill(p) \/ Link(p) \/ Compare(p)
  <2>1. at' = at /\ pc[p] \in {"idle"} \cup WriteStatements
    BY <1>13, WriteFacts, ScanFacts, RecoverFacts, CreateFacts, FillFacts, LinkFacts, CompareFacts
       DEF Still, WriteStatements
  <2>2. pc'[p] \notin Staging \cup {"open", "cleanup"}
    BY <1>13, WriteFacts, ScanFacts, RecoverFacts, CreateFacts, FillFacts, LinkFacts, CompareFacts
       DEF Over, Staging
  <2>. QED BY <1>3, <2>1, <2>2
<1>14. CASE Bury(p) \/ Retire(p) \/ Hide(p) \/ Unlink(p)
  BY <1>3, <1>14, BuryFacts, RetireFacts, HideFacts, UnlinkFacts
     DEF MovedOn, Over, WriteStatements, Removing, Staging
<1>15. CASE Crash(p)
  <2>1. At(p)' = {}
    BY <1>15, CrashFacts, Distinct DEF At
  <2>. QED BY <1>0, <1>15, <2>1, CrashFacts DEF Over, Staging
<1>. QED BY <1>4, <1>5, <1>6, <1>7, <1>8, <1>9, <1>10, <1>11, <1>12, <1>13, <1>14, <1>15, ActCases

LEMMA SeenStep ==
  ASSUME EvidenceInv, NEW p \in Process, Act(p)
  PROVE  SeenOK(p)'
<1>. /\ TypeOK /\ Owned /\ SeenOK(p) /\ CallOK(p) /\ OwnedOK(p) /\ StagedOK(p)
     /\ at \in [Dir -> Snapshot \cup Process \cup {"left", "free"}]
  BY DEF EvidenceInv, Seen, Calls, Owned, Staged, TypeOK, DiskOK
<1>0. ASSUME pc'[p] \notin Looking \cup Removing \cup {"cleanup"}
      PROVE  SeenOK(p)'
  BY <1>0 DEF SeenOK, Looking
<1>1. UNCHANGED lost
  BY Truthful
<1>2. ASSUME Ended(p, FALSE)
      PROVE  SeenOK(p)'
  <2>1. CASE Over(p)
    BY <1>0, <2>1 DEF Over, Looking, Removing
  <2>2. CASE pc'[p] = "cleanup" /\ ~ok'[p]
    BY <2>2 DEF SeenOK, Looking, Removing
  <2>. QED BY <1>2, <2>1, <2>2 DEF Ended
<1>3. CASE Publish(p) \/ OpenParent(p) \/ MakeStaging(p) \/ WriteFile(p)
  BY <1>0, <1>3, PublishFacts, OpenParentFacts, MakeStagingFacts, WriteFileFacts
     DEF Looking, Removing
<1>4. ASSUME pc'[p] = "check", dir'[p] \in Dir, at[dir'[p]] = call[p].key, call'[p] = call[p], Still
      PROVE  SeenOK(p)'
  BY <1>4, Distinct DEF SeenOK, Looking, Removing, Still
<1>5. CASE Look(p)
  BY <1>0, <1>4, <1>5, LookFacts DEF Looking, Removing
<1>6. CASE OpenWinner(p)
  BY <1>2, <1>4, <1>6, OpenWinnerFacts
<1>7. CASE Seal(p)
  BY <1>0, <1>2, <1>7, SealFacts DEF Looking, Removing
<1>8. CASE Rename(p)
  <2>1. dir[p] \in Dir
    BY <1>8, RenameFacts DEF StagedOK, Staging, TypeOK, LocalsOK
  <2>2. CASE /\ at' = [at EXCEPT ![dir[p]] = call[p].key] /\ pc'[p] = "placed"
             /\ call'[p] = call[p] /\ dir'[p] = dir[p]
    BY <2>1, <2>2, Distinct DEF SeenOK, Looking, Removing
  <2>3. CASE pc'[p] = "open"
    BY <1>0, <2>3 DEF Looking, Removing
  <2>. QED BY <1>8, <2>2, <2>3, RenameFacts
<1>9. CASE Checking(p)
  <2>1. CASE Ended(p, TRUE) /\ Still /\ (call[p].key \in lost \/ Register[call[p].key] = call[p].want)
    <3>1. CASE Over(p)
      BY <1>0, <3>1 DEF Over, Looking, Removing
    <3>2. CASE pc'[p] = "cleanup" /\ call'[p] = call[p]
      BY <1>1, <2>1, <3>2, StillRegister DEF SeenOK, Looking, Removing
    <3>. QED BY <2>1, <3>1, <3>2 DEF Ended
  <2>2. CASE /\ pc[p] \in Looking /\ pc'[p] \in Looking /\ Mem(p) /\ Still
             /\ pc'[p] = "place" => files[dir[p]] = call[p].want
             /\ pc'[p] \in {"recheck", "replace"} => pc[p] \in {"place", "recheck"}
    <3>1. dir'[p] # Nothing /\ (call'[p].key \in lost' \/ at'[dir'[p]] = call'[p].key)
      BY <1>1, <2>2 DEF SeenOK, Mem, Still
    <3>2. pc'[p] \in {"place", "recheck", "replace"} =>
            call'[p].key \in lost' \/ files'[dir'[p]] = call'[p].want
      BY <1>1, <2>2 DEF SeenOK, Mem, Still
    <3>3. pc'[p] # "cleanup" /\ pc'[p] \notin Removing
      BY <2>2 DEF Looking, Removing
    <3>. QED BY <3>1, <3>2, <3>3 DEF SeenOK
  <2>. QED BY <1>2, <1>9, <2>1, <2>2, CheckingFacts
<1>10. CASE Cleanup(p)
  <2>1. CASE Over(p)
    BY <1>0, <2>1 DEF Over, Looking, Removing
  <2>2. CASE pc[p] = "cleanup" /\ pc'[p] = pc[p] /\ Mem(p)
    <3>1. call[p].key \in Snapshot /\ call[p].want \in Content
      BY <2>2 DEF CallOK, PublishStatements
    <3>2. ok[p] => call[p].key \in lost \/ Register[call[p].key] = call[p].want
      BY <2>2 DEF SeenOK
    <3>3. ok[p] => call[p].key \in lost \/ Register'[call[p].key] = call[p].want
      BY <3>1, <3>2, Distinct, RegisterKept
    <3>. QED BY <1>1, <2>2, <3>3 DEF SeenOK, Looking, Removing, Mem
  <2>. QED BY <1>10, <2>1, <2>2, CleanupFacts
<1>11. CASE Write(p) \/ Scan(p) \/ Create(p) \/ Fill(p) \/ Link(p)
  BY <1>0, <1>11, WriteFacts, ScanFacts, CreateFacts, FillFacts, LinkFacts
     DEF Over, Looking, Removing
<1>12. CASE Recover(p)
  <2>1. own[p] = Nothing
    BY <1>12, RecoverFacts DEF OwnedOK, Handling, Removing
  <2>2. CASE pc'[p] = "bury" /\ own'[p] = own[p]
    BY <2>1, <2>2 DEF SeenOK, Looking, Removing
  <2>3. CASE pc'[p] \in {"create", "recover"} \/ Over(p)
    BY <1>0, <2>3 DEF Over, Looking, Removing
  <2>. QED BY <1>12, <2>2, <2>3, RecoverFacts
<1>13. CASE Compare(p)
  <2>1. /\ pc'[p] = "bury" /\ receipt' = receipt /\ ok'[p] = (receipt = call[p].want) /\ call'[p] = call[p]
    BY <1>13, CompareFacts DEF Still
  <2>. QED BY <2>1 DEF SeenOK, Looking, Removing
<1>14. CASE Bury(p) \/ Retire(p) \/ Hide(p)
  <2>1. /\ pc[p] \in Removing /\ receipt' = receipt
        /\ \/ Over(p)
           \/ /\ pc'[p] \in {"retire", "hide", "unlink"}
              /\ call'[p] = call[p] /\ own'[p] = own[p] /\ ok'[p] = ok[p]
    BY <1>14, BuryFacts, RetireFacts, HideFacts DEF MovedOn, Removing
  <2>2. CASE Over(p)
    BY <1>0, <2>2 DEF Over, Looking, Removing
  <2>3. CASE /\ pc'[p] \in {"retire", "hide", "unlink"}
             /\ call'[p] = call[p] /\ own'[p] = own[p] /\ ok'[p] = ok[p]
    BY <1>1, <2>1, <2>3 DEF SeenOK, Looking
  <2>. QED BY <2>1, <2>2, <2>3
<1>15. CASE Unlink(p) \/ Crash(p)
  BY <1>0, <1>15, UnlinkFacts, CrashFacts DEF Over, Looking, Removing
<1>. QED BY <1>3, <1>5, <1>6, <1>7, <1>8, <1>9, <1>10, <1>11, <1>12, <1>13, <1>14, <1>15, ActCases

\* Statements at which a call has no temporary file.
LEMMA NoneOwned ==
  ASSUME EvidenceInv, NEW p \in Process,
         pc[p] \in {"idle", "scan", "recover", "create"} \cup PublishStatements
  PROVE  own[p] = Nothing
BY DEF EvidenceInv, Owned, OwnedOK, PublishStatements, Staging, Looking, Handling, Removing

LEMMA PublishOwn ==
  ASSUME EvidenceInv, NEW p \in Process, PublishStep(p)
  PROVE  /\ pc[p] \in {"idle"} \cup PublishStatements /\ pc'[p] \in {"idle"} \cup PublishStatements
         /\ own[p] = Nothing /\ own'[p] = Nothing /\ UNCHANGED temp
<1>. TypeOK
  BY DEF EvidenceInv
<1>0. ASSUME NEW success, Ended(p, success)
      PROVE  pc'[p] \in {"idle", "cleanup"} /\ (own'[p] = own[p] \/ own'[p] = Nothing)
  BY <1>0 DEF Ended, Over
<1>1. CASE Publish(p) \/ OpenParent(p) \/ Look(p) \/ MakeStaging(p) \/ WriteFile(p) \/ Rename(p)
  <2>1. /\ pc[p] \in {"idle"} \cup PublishStatements /\ pc'[p] \in {"idle"} \cup PublishStatements
        /\ own'[p] = own[p] /\ UNCHANGED temp
    BY <1>1, PublishFacts, OpenParentFacts, LookFacts, MakeStagingFacts, WriteFileFacts, RenameFacts
       DEF PublishStatements, Staging, Looking, Mem, Still
  <2>. QED BY <2>1, NoneOwned
<1>2. CASE Seal(p) \/ OpenWinner(p)
  <2>1. /\ pc[p] \in PublishStatements /\ pc'[p] \in {"idle"} \cup PublishStatements
        /\ own'[p] \in {own[p], Nothing} /\ UNCHANGED temp
    BY <1>0, <1>2, SealFacts, OpenWinnerFacts DEF PublishStatements, Staging, Looking, Mem, Still
  <2>. QED BY <2>1, NoneOwned
<1>3. CASE Checking(p)
  <2>1. /\ pc[p] \in PublishStatements /\ pc'[p] \in {"idle"} \cup PublishStatements
        /\ own'[p] \in {own[p], Nothing} /\ UNCHANGED temp
    BY <1>0, <1>3, CheckingFacts DEF PublishStatements, Mem, Still
  <2>. QED BY <2>1, NoneOwned
<1>4. CASE Cleanup(p)
  <2>1. /\ pc[p] \in PublishStatements /\ pc'[p] \in {"idle"} \cup PublishStatements
        /\ own'[p] \in {own[p], Nothing} /\ UNCHANGED temp
    BY <1>4, CleanupFacts DEF PublishStatements, Mem, Over
  <2>. QED BY <2>1, NoneOwned
<1>. QED BY <1>1, <1>2, <1>3, <1>4 DEF PublishStep, Checking

LEMMA OwnedStep ==
  ASSUME EvidenceInv, NEW p \in Process, Act(p)
  PROVE  OwnedOK(p)'
<1>. /\ TypeOK /\ Owned /\ OwnedOK(p) /\ TempChange(p)
     /\ own[p] \in Temp \cup {Nothing} /\ old[p].file \in Temp \cup {Nothing}
  BY TempChanges DEF EvidenceInv, Owned, TypeOK, LocalsOK, Name
<1>0. ASSUME own'[p] = Nothing, pc'[p] \notin {"fill", "link", "compare"} \cup Removing
      PROVE  OwnedOK(p)'
  BY <1>0 DEF OwnedOK
<1>1. CASE PublishStep(p)
  BY <1>0, <1>1, PublishOwn DEF PublishStatements, Staging, Looking, Removing
<1>2. CASE Write(p) \/ Scan(p)
  <2>1. own[p] = Nothing
    BY <1>2, WriteFacts, ScanFacts, NoneOwned
  <2>. QED BY <1>0, <1>2, <2>1, WriteFacts, ScanFacts DEF Mem, Removing
<1>3. CASE Recover(p)
  <2>1. own[p] = Nothing
    BY <1>3, RecoverFacts, NoneOwned
  <2>2. CASE pc'[p] = "bury" /\ own'[p] = own[p] /\ old'[p].file \in Temp
    BY <2>1, <2>2, Distinct DEF OwnedOK, Removing
  <2>3. CASE (pc'[p] \in {"create", "recover"} /\ Mem(p)) \/ Over(p)
    BY <1>0, <2>1, <2>3 DEF Mem, Over, Removing
  <2>. QED BY <1>3, <2>2, <2>3, RecoverFacts
<1>4. CASE Create(p)
  BY <1>4, CreateFacts, Distinct DEF OwnedOK, Handling, Removing, Becomes
<1>5. CASE Fill(p)
  <2>1. own[p] # Nothing
    BY <1>5, FillFacts DEF OwnedOK
  <2>2. /\ pc'[p] = "link" /\ Mem(p) /\ temp'[own[p]] = [kind |-> "tmp", turn |-> 0, bytes |-> call[p].want]
    BY <1>5, FillFacts DEF Becomes
  <2>3. temp'[own[p]].kind = "tmp" /\ temp'[own[p]].turn = 0 /\ temp'[own[p]].bytes = call[p].want
    BY <2>2
  <2>4. own'[p] = own[p] /\ call'[p] = call[p]
    BY <2>2 DEF Mem
  <2>. QED BY <2>1, <2>2, <2>3, <2>4 DEF OwnedOK, Handling, Removing
<1>6. CASE Link(p)
  <2>1. CASE Over(p)
    BY <1>0, <2>1 DEF Over, Removing
  <2>2. CASE pc'[p] = "compare" /\ Mem(p) /\ UNCHANGED temp
    <3>1. pc[p] = "link"
      BY <1>6, LinkFacts
    <3>. QED BY <2>2, <3>1 DEF OwnedOK, Handling, Removing, Mem
  <2>. QED BY <1>6, <2>1, <2>2, LinkFacts
<1>7. CASE Compare(p)
  <2>1. /\ pc[p] = "compare" /\ pc'[p] = "bury" /\ temp' = temp /\ own'[p] = own[p]
        /\ old'[p] = [file |-> own[p], turn |-> 0]
    BY <1>7, CompareFacts DEF Still
  <2>2. old'[p].file = own[p]
    BY <2>1
  <2>. QED BY <2>1, <2>2 DEF OwnedOK, Handling, Removing
<1>8. CASE Bury(p) \/ Retire(p) \/ Hide(p)
  <2>1. CASE Over(p)
    BY <1>0, <2>1 DEF Over, Removing
  <2>2. CASE ~Over(p)
    <3>0. /\ pc[p] \in Removing /\ pc'[p] \in {"retire", "hide", "unlink"} /\ own'[p] = own[p]
          /\ \E turn : old'[p] = [file |-> old[p].file, turn |-> turn]
      BY <1>8, <2>2, BuryFacts, RetireFacts, HideFacts DEF MovedOn, Removing
    <3>1. old'[p].file = old[p].file
      BY <3>0
    <3>2. own[p] # Nothing => temp'[own[p]].kind # "new"
      BY NewNever DEF OwnedOK
    <3>. QED BY <3>0, <3>1, <3>2 DEF OwnedOK, Handling, Removing
  <2>. QED BY <2>1, <2>2
<1>9. CASE Unlink(p)
  BY <1>0, <1>9, UnlinkFacts DEF Over, Removing
<1>10. CASE Crash(p)
  BY <1>0, <1>10, CrashFacts DEF Over, Removing
<1>. QED BY <1>1, <1>2, <1>3, <1>4, <1>5, <1>6, <1>7, <1>8, <1>9, <1>10 DEF Act, WriteStep

LEMMA HandledStep ==
  ASSUME EvidenceInv, NEW p \in Process, Act(p)
  PROVE  HandledOK(p)'
<1>. /\ TypeOK /\ Owned /\ OwnedOK(p) /\ HandledOK(p)
     /\ old[p].file \in Temp \cup {Nothing}
  BY DEF EvidenceInv, Owned, Handled, TypeOK, LocalsOK, Name
<1>0. ASSUME pc'[p] \notin {"bury", "retire", "unlink"}
      PROVE  HandledOK(p)'
  BY <1>0 DEF HandledOK
<1>1. CASE PublishStep(p)
  BY <1>0, <1>1, PublishOwn DEF PublishStatements, Staging, Looking
<1>2. CASE Write(p) \/ Scan(p) \/ Create(p) \/ Fill(p) \/ Link(p)
  BY <1>0, <1>2, WriteFacts, ScanFacts, CreateFacts, FillFacts, LinkFacts DEF Over
<1>3. CASE Recover(p)
  <2>1. own[p] = Nothing
    BY <1>3, RecoverFacts, NoneOwned
  <2>2. CASE pc'[p] = "bury" /\ own'[p] = own[p]
    BY <2>1, <2>2 DEF HandledOK
  <2>3. CASE pc'[p] \in {"create", "recover"} \/ Over(p)
    BY <1>0, <2>3 DEF Over
  <2>. QED BY <1>3, <2>2, <2>3, RecoverFacts
<1>4. CASE Compare(p)
  <2>1. /\ pc[p] = "compare" /\ pc'[p] = "bury" /\ temp' = temp /\ own'[p] = own[p]
        /\ old'[p] = [file |-> own[p], turn |-> 0]
    BY <1>4, CompareFacts DEF Still
  <2>2. old'[p].file = own[p] /\ old'[p].turn = 0
    BY <2>1
  <2>3. temp[own[p]].kind = "tmp" /\ temp[own[p]].turn = 0
    BY <2>1 DEF OwnedOK
  <2>. QED BY <2>1, <2>2, <2>3 DEF HandledOK, Named
<1>5. ASSUME NEW from, NEW kind, NEW turn, NEW next, MovedOn(p, from, kind, turn, next),
             next \in {"retire", "unlink"},
             next = "retire" => kind = "delete",
             next = "unlink" => kind = "private"
      PROVE  HandledOK(p)'
  <2>1. CASE Over(p)
    BY <1>0, <2>1 DEF Over
  <2>2. CASE /\ Becomes(old[p].file, kind, turn, temp[old[p].file].bytes)
             /\ old'[p] = [file |-> old[p].file, turn |-> turn] /\ pc'[p] = next
    <3>1. old'[p].file = old[p].file /\ old'[p].turn = turn
      BY <2>2
    <3>2. temp'[old[p].file] = [kind |-> kind, turn |-> turn, bytes |-> temp[old[p].file].bytes]
      BY <2>2 DEF Becomes
    <3>3. temp'[old[p].file].kind = kind /\ temp'[old[p].file].turn = turn
      BY <3>2
    <3>. QED BY <1>5, <2>2, <3>1, <3>3 DEF HandledOK, Named
  <2>. QED BY <1>5, <2>1, <2>2 DEF MovedOn
<1>6. CASE Bury(p)
  BY <1>5, <1>6, BuryFacts
<1>7. CASE Retire(p)
  BY <1>0, <1>7, RetireFacts DEF MovedOn, Over
<1>8. CASE Hide(p)
  BY <1>5, <1>8, HideFacts
<1>9. CASE Unlink(p) \/ Crash(p)
  BY <1>0, <1>9, UnlinkFacts, CrashFacts DEF Over
<1>. QED BY <1>1, <1>2, <1>3, <1>4, <1>6, <1>7, <1>8, <1>9 DEF Act, WriteStep

\* Which temporary file a call has after its step, and which one it removes.
LEMMA HoldChange ==
  ASSUME EvidenceInv, NEW p \in Process, Act(p)
  PROVE  /\ \/ own'[p] \in {own[p], Nothing}
            \/ own'[p] \in Temp /\ temp[own'[p]].kind = "new"
         /\ pc'[p] \in {"retire", "unlink"} =>
              /\ old'[p].file = old[p].file
              /\ temp[old[p].file].kind \in {"tmp", "rollback"}
<1>. TypeOK /\ Owned
  BY DEF EvidenceInv
<1>1. CASE PublishStep(p)
  BY <1>1, PublishOwn DEF PublishStatements, Staging, Looking
<1>2. CASE Write(p) \/ Scan(p) \/ Create(p) \/ Fill(p) \/ Link(p) \/ Recover(p) \/ Compare(p)
  BY <1>2, NewTempIs, WriteFacts, ScanFacts, CreateFacts, FillFacts, LinkFacts, RecoverFacts, CompareFacts
     DEF Over, Mem, Becomes
<1>3. ASSUME NEW from, NEW kind, NEW turn, NEW next, MovedOn(p, from, kind, turn, next),
             from \in {"tmp", "rollback"} \/ next = "hide"
      PROVE  /\ own'[p] \in {own[p], Nothing}
             /\ pc'[p] \in {"retire", "unlink"} =>
                  /\ old'[p].file = old[p].file
                  /\ temp[old[p].file].kind \in {"tmp", "rollback"}
  <2>1. CASE ~Over(p)
    <3>1. /\ Named(old[p], from) /\ old'[p] = [file |-> old[p].file, turn |-> turn] /\ pc'[p] = next
          /\ own'[p] = own[p]
      BY <1>3, <2>1 DEF MovedOn
    <3>2. old'[p].file = old[p].file
      BY <3>1
    <3>. QED BY <1>3, <3>1, <3>2 DEF Named
  <2>2. CASE Over(p)
    BY <2>2 DEF Over
  <2>. QED BY <2>1, <2>2
<1>4. CASE Bury(p)
  BY <1>3, <1>4, BuryFacts DEF Origin
<1>5. CASE Retire(p)
  BY <1>3, <1>5, RetireFacts
<1>6. CASE Hide(p)
  BY <1>3, <1>6, HideFacts
<1>7. CASE Unlink(p) \/ Crash(p)
  BY <1>7, UnlinkFacts, CrashFacts DEF Over
<1>. QED BY <1>1, <1>2, <1>4, <1>5, <1>6, <1>7 DEF Act, WriteStep

LEMMA ApartStep ==
  ASSUME EvidenceInv, NEW p \in Process, Act(p)
  PROVE  Apart'
<1>. TypeOK /\ Owned /\ Handled /\ Apart
  BY DEF EvidenceInv
<1>1. ASSUME NEW q \in Process, q # p
      PROVE  /\ own'[p] # Nothing => own'[p] # own'[q]
             /\ (pc'[p] \in {"retire", "unlink"} /\ pc'[q] \in {"retire", "unlink"}) =>
                  old'[p].file # old'[q].file
  <2>1. pc'[q] = pc[q] /\ own'[q] = own[q] /\ old'[q] = old[q]
    BY <1>1, OthersStay DEF Stay, Mem
  <2>2. own[q] # Nothing => temp[own[q]].kind # "new"
    BY DEF Owned, OwnedOK
  <2>3. own'[p] # Nothing => own'[p] # own[q]
    BY <1>1, <2>2, HoldChange DEF Apart
  <2>4. pc[q] \in {"retire", "unlink"} => temp[old[q].file].kind \in {"delete", "private"}
    BY DEF Handled, HandledOK, Named
  <2>. QED BY <2>1, <2>3, <2>4, HoldChange
<1>2. ASSUME NEW q \in Process, NEW r \in Process, q # r, q # p, r # p
      PROVE  /\ own'[q] # Nothing => own'[q] # own'[r]
             /\ (pc'[q] \in {"retire", "unlink"} /\ pc'[r] \in {"retire", "unlink"}) =>
                  old'[q].file # old'[r].file
  BY <1>2, OthersStay DEF Stay, Mem, Apart
<1>. QED BY <1>1, <1>2 DEF Apart

LEMMA SameCrashes ==
  ASSUME TypeOK, Owned, NEW p \in Process, PublishStep(p) \/ WriteStep(p)
  PROVE  used'.crashes = used.crashes
<1>1. CASE PublishStep(p)
  BY <1>1, PublishFacts, OpenParentFacts, LookFacts, MakeStagingFacts, WriteFileFacts, SealFacts,
     RenameFacts, OpenWinnerFacts, CheckBytesFacts, CheckPlaceFacts, CleanupFacts
     DEF PublishStep, NoLoss
<1>2. CASE WriteStep(p)
  BY <1>2, WriteFacts, ScanFacts, RecoverFacts, CreateFacts, FillFacts, LinkFacts, CompareFacts,
     BuryFacts, RetireFacts, HideFacts, UnlinkFacts
     DEF WriteStep, NoLoss
<1>. QED BY <1>1, <1>2

\* Whatever temporary file has to be removed after a step: the process that took it will
\* do so, or it did not touch the file and was not the one to remove it.
LEMMA KeeperStep ==
  ASSUME EvidenceInv, NEW p \in Process, PublishStep(p) \/ WriteStep(p), NEW t \in Temp
  PROVE  \/ Keeper(t, p)'
         \/ temp'[t].kind = "gone"
         \/ temp'[t] = temp[t] /\ ~Keeper(t, p)
<1>. /\ TypeOK /\ Owned /\ OwnedOK(p) /\ HandledOK(p)
     /\ own[p] \in Temp \cup {Nothing} /\ old[p].file \in Temp \cup {Nothing}
  BY DEF EvidenceInv, Owned, Handled, TypeOK, LocalsOK, Name
<1>0. ASSUME own[p] = Nothing, pc[p] \notin {"retire", "hide", "unlink"}
      PROVE  ~Keeper(t, p)
  BY <1>0, Distinct DEF Keeper
<1>1. CASE PublishStep(p)
  BY <1>0, <1>1, PublishOwn DEF PublishStatements, Staging, Looking
<1>2. CASE Write(p) \/ Scan(p) \/ Recover(p)
  <2>1. pc[p] \in {"idle", "scan", "recover"} /\ temp' = temp
    BY <1>2, WriteFacts, ScanFacts, RecoverFacts DEF Still
  <2>2. own[p] = Nothing
    BY <2>1, NoneOwned
  <2>. QED BY <1>0, <2>1, <2>2
<1>3. CASE Create(p)
  <2>1. /\ pc[p] = "create" /\ pc'[p] = "fill" /\ own'[p] = NewTemp /\ Becomes(NewTemp, "tmp", 0, Nothing)
        /\ own[p] = Nothing
    BY <1>3, CreateFacts, NoneOwned
  <2>2. CASE t = NewTemp
    <3>1. temp'[t] = [kind |-> "tmp", turn |-> 0, bytes |-> Nothing]
      BY <2>1, <2>2 DEF Becomes
    <3>2. temp'[t].kind = "tmp"
      BY <3>1
    <3>. QED BY <2>1, <2>2, <3>2 DEF Keeper, Handling
  <2>. QED BY <1>0, <2>1, <2>2 DEF Becomes
<1>4. CASE Fill(p)
  <2>1. /\ pc[p] = "fill" /\ pc'[p] = "link" /\ own'[p] = own[p]
        /\ Becomes(own[p], "tmp", 0, call[p].want)
    BY <1>4, FillFacts DEF Mem
  <2>2. CASE t = own[p]
    <3>1. temp'[t] = [kind |-> "tmp", turn |-> 0, bytes |-> call[p].want]
      BY <2>1, <2>2 DEF Becomes
    <3>2. temp'[t].kind = "tmp"
      BY <3>1
    <3>. QED BY <2>1, <2>2, <3>2 DEF Keeper, Handling
  <2>3. CASE t # own[p]
    BY <2>1, <2>3 DEF Becomes, Keeper
  <2>. QED BY <2>2, <2>3
<1>5. CASE Link(p)
  <2>0. pc[p] = "link"
    BY <1>5, LinkFacts
  <2>1. CASE Becomes(own[p], "gone", 0, Nothing)
    <3>1. CASE t = own[p]
      <4>1. temp'[t] = [kind |-> "gone", turn |-> 0, bytes |-> Nothing]
        BY <2>1, <3>1 DEF Becomes
      <4>. QED BY <4>1
    <3>2. CASE t # own[p]
      BY <2>0, <2>1, <3>2 DEF Becomes, Keeper
    <3>. QED BY <3>1, <3>2
  <2>2. CASE pc'[p] = "compare" /\ own'[p] = own[p] /\ temp' = temp
    <3>1. CASE t = own[p]
      BY <2>0, <2>2, <3>1 DEF OwnedOK, Keeper, Handling
    <3>2. CASE t # own[p]
      BY <2>0, <2>2, <3>2 DEF Keeper
    <3>. QED BY <3>1, <3>2
  <2>. QED BY <1>5, <2>1, <2>2, LinkFacts DEF Mem
<1>6. CASE Compare(p)
  <2>1. pc[p] = "compare" /\ pc'[p] = "bury" /\ own'[p] = own[p] /\ temp' = temp
    BY <1>6, CompareFacts DEF Still
  <2>. QED BY <2>1 DEF OwnedOK, Keeper, Handling
<1>7. CASE Bury(p)
  <2>0. pc[p] = "bury"
    BY <1>7, BuryFacts
  <2>1. CASE /\ Named(old[p], Origin(p)) /\ Becomes(old[p].file, "delete", old[p].turn, temp[old[p].file].bytes)
             /\ old'[p] = [file |-> old[p].file, turn |-> old[p].turn] /\ pc'[p] = "retire"
    <3>1. CASE t = old[p].file
      <4>1. /\ temp'[t] = [kind |-> "delete", turn |-> old[p].turn, bytes |-> temp[t].bytes]
            /\ old'[p].file = t
        BY <2>1, <3>1 DEF Becomes
      <4>2. temp'[t].kind = "delete"
        BY <4>1
      <4>. QED BY <2>1, <4>1, <4>2 DEF Keeper
    <3>2. CASE t # old[p].file
      BY <2>0, <2>1, <3>2, Distinct DEF Becomes, Keeper, HandledOK
    <3>. QED BY <3>1, <3>2
  <2>2. CASE ~Named(old[p], Origin(p)) /\ temp' = temp
    <3>1. own[p] = Nothing
      BY <2>0, <2>2 DEF HandledOK, Origin
    <3>. QED BY <1>0, <2>0, <2>2, <3>1
  <2>. QED BY <1>7, <2>1, <2>2, BuryFacts DEF MovedOn
<1>8. CASE Retire(p)
  <2>0. pc[p] = "retire" /\ Named(old[p], "delete")
    BY <1>8, RetireFacts DEF HandledOK
  <2>1. /\ Becomes(old[p].file, "rollback", old[p].turn + 1, temp[old[p].file].bytes)
        /\ old'[p] = [file |-> old[p].file, turn |-> old[p].turn + 1] /\ pc'[p] = "hide"
    BY <1>8, <2>0, RetireFacts DEF MovedOn
  <2>2. CASE t = old[p].file
    <3>1. /\ temp'[t] = [kind |-> "rollback", turn |-> old[p].turn + 1, bytes |-> temp[t].bytes]
          /\ old'[p].file = t /\ old'[p].turn = old[p].turn + 1
      BY <2>1, <2>2 DEF Becomes
    <3>2. temp'[t].kind = "rollback" /\ temp'[t].turn = old[p].turn + 1
      BY <3>1
    <3>. QED BY <2>1, <3>1, <3>2 DEF Keeper, Named
  <2>3. CASE t # old[p].file
    BY <2>0, <2>1, <2>3 DEF Becomes, Keeper, Handling
  <2>. QED BY <2>2, <2>3
<1>9. CASE Hide(p)
  <2>0. pc[p] = "hide"
    BY <1>9, HideFacts
  <2>1. CASE /\ Becomes(old[p].file, "private", old[p].turn, temp[old[p].file].bytes)
             /\ old'[p] = [file |-> old[p].file, turn |-> old[p].turn] /\ pc'[p] = "unlink"
    <3>1. CASE t = old[p].file
      <4>1. /\ temp'[t] = [kind |-> "private", turn |-> old[p].turn, bytes |-> temp[t].bytes]
            /\ old'[p].file = t
        BY <2>1, <3>1 DEF Becomes
      <4>2. temp'[t].kind = "private"
        BY <4>1
      <4>. QED BY <2>1, <4>1, <4>2 DEF Keeper
    <3>2. CASE t # old[p].file
      BY <2>0, <2>1, <3>2 DEF Becomes, Keeper, Handling
    <3>. QED BY <3>1, <3>2
  <2>2. CASE ~Named(old[p], "rollback") /\ temp' = temp
    BY <2>0, <2>2 DEF Keeper, Handling
  <2>. QED BY <1>9, <2>1, <2>2, HideFacts DEF MovedOn
<1>10. CASE Unlink(p)
  <2>1. pc[p] = "unlink" /\ Becomes(old[p].file, "gone", 0, Nothing)
    BY <1>10, UnlinkFacts
  <2>2. CASE t = old[p].file
    <3>1. temp'[t] = [kind |-> "gone", turn |-> 0, bytes |-> Nothing]
      BY <2>1, <2>2 DEF Becomes
    <3>. QED BY <3>1
  <2>3. CASE t # old[p].file
    BY <2>1, <2>3 DEF Becomes, Keeper, Handling
  <2>. QED BY <2>2, <2>3
<1>. QED BY <1>1, <1>2, <1>3, <1>4, <1>5, <1>6, <1>7, <1>8, <1>9, <1>10 DEF WriteStep

LEMMA AttendedStep ==
  ASSUME EvidenceInv, NEW p \in Process, Act(p)
  PROVE  Attended'
<1>. /\ TypeOK /\ Owned /\ Attended /\ DirChange(p) /\ TempChange(p)
     /\ at \in [Dir -> Snapshot \cup Process \cup {"left", "free"}]
  BY DirChanges, TempChanges DEF EvidenceInv, TypeOK, DiskOK
<1>1. CASE Crash(p)
  BY <1>1, CrashFacts DEF Attended
<1>2. CASE PublishStep(p) \/ WriteStep(p)
  <2>. SUFFICES ASSUME used'.crashes = 0
                PROVE  /\ \A d \in Dir : at'[d] # "left"
                       /\ \A t \in Temp : temp'[t].kind \notin {"new", "gone"} =>
                            \E q \in Process : Keeper(t, q)'
    BY DEF Attended
  <2>1. used.crashes = 0
    BY <1>2, SameCrashes
  <2>2. ASSUME NEW d \in Dir
        PROVE  at'[d] # "left"
    <3>1. at[d] # "left"
      BY <2>1 DEF Attended
    <3>. QED BY <3>1, Distinct DEF DirChange, Makes
  <2>3. ASSUME NEW t \in Temp, temp'[t].kind \notin {"new", "gone"}
        PROVE  \E q \in Process : Keeper(t, q)'
    <3>1. CASE Keeper(t, p)'
      BY <3>1
    <3>2. CASE temp'[t] = temp[t] /\ ~Keeper(t, p)
      <4>1. PICK q \in Process : Keeper(t, q)
        BY <2>1, <2>3, <3>2 DEF Attended
      <4>2. q # p
        BY <3>2, <4>1
      <4>3. pc'[q] = pc[q] /\ own'[q] = own[q] /\ old'[q] = old[q]
        BY <4>2, OthersStay DEF Stay, Mem
      <4>4. Keeper(t, q)'
        BY <3>2, <4>1, <4>3 DEF Keeper, Named
      <4>. QED BY <4>4
    <3>. QED BY <1>2, <2>3, <3>1, <3>2, KeeperStep
  <2>. QED BY <2>2, <2>3
<1>. QED BY <1>1, <1>2 DEF Act

LEMMA DiskStep ==
  ASSUME EvidenceInv, NEW p \in Process, Act(p)
  PROVE  DiskOK'
<1>. /\ TypeOK /\ Owned /\ CallOK(p) /\ DirChange(p) /\ TempChange(p)
     /\ at \in [Dir -> Snapshot \cup Process \cup {"left", "free"}]
     /\ files \in [Dir -> [File -> Bytes \cup {Nothing}]]
     /\ receipt \in Bytes \cup {Nothing}
     /\ temp \in [Temp -> [kind : Kind, turn : Nat, bytes : Bytes \cup {Nothing}]]
     /\ old[p] \in Name
  BY DirChanges, TempChanges DEF EvidenceInv, Calls, TypeOK, DiskOK, LocalsOK
<1>1. at' \in [Dir -> Snapshot \cup Process \cup {"left", "free"}]
  BY Distinct DEF DirChange, Makes
<1>2. files' \in [Dir -> [File -> Bytes \cup {Nothing}]]
  <2>1. ASSUME NEW d \in Dir, NEW f \in File, NEW b \in Bytes \cup {Nothing}, Put(d, f, b)
        PROVE  files' \in [Dir -> [File -> Bytes \cup {Nothing}]]
    BY <2>1 DEF Put
  <2>2. CASE dir[p] \in Dir /\ pc[p] = "write" /\ \E f \in File : Put(dir[p], f, call[p].want[f])
    <3>1. \A f \in File : call[p].want[f] \in Bytes
      BY <2>2 DEF CallOK, PublishStatements, Staging, Content
    <3>. QED BY <2>1, <2>2, <3>1
  <2>3. CASE \E d \in Dir : \E f \in File : Put(d, f, Nothing)
    BY <2>1, <2>3
  <2>4. CASE UNCHANGED files
    BY <2>4
  <2>. QED BY <2>2, <2>3, <2>4 DEF DirChange, Makes
<1>3. receipt' \in Bytes \cup {Nothing}
  <2>1. pc[p] = "link" => call[p].want \in Bytes
    BY DEF CallOK, WriteStatements
  <2>. QED BY <2>1, ReceiptChange
<1>4. temp' \in [Temp -> [kind : Kind, turn : Nat, bytes : Bytes \cup {Nothing}]]
  <2>0. old[p].turn \in Nat /\ (pc[p] = "fill" => call[p].want \in Bytes)
    BY DEF Name, CallOK, WriteStatements
  <2>1. ASSUME NEW t, NEW kind \in Kind, NEW turn \in Nat, NEW b \in Bytes \cup {Nothing},
               Becomes(t, kind, turn, b)
        PROVE  temp' \in [Temp -> [kind : Kind, turn : Nat, bytes : Bytes \cup {Nothing}]]
    BY <2>1 DEF Becomes, Become
  <2>2. \A t \in Temp : temp[t].bytes \in Bytes \cup {Nothing}
    OBVIOUS
  <2>3. ASSUME NEW kind \in Kind, NEW turn \in Nat, Becomes(old[p].file, kind, turn, temp[old[p].file].bytes)
        PROVE  temp' \in [Temp -> [kind : Kind, turn : Nat, bytes : Bytes \cup {Nothing}]]
    <3>1. temp[old[p].file].bytes \in Bytes \cup {Nothing}
      BY <2>2, <2>3 DEF Becomes
    <3>. QED BY <2>1, <2>3, <3>1
  <2>4. Kind = {"new", "tmp", "delete", "rollback", "private", "gone"}
    BY DEF Kind
  <2>5. CASE pc[p] = "create" /\ Becomes(NewTemp, "tmp", 0, Nothing)
    BY <2>1, <2>4, <2>5
  <2>6. CASE pc[p] = "fill" /\ Becomes(own[p], "tmp", 0, call[p].want)
    BY <2>0, <2>1, <2>4, <2>6
  <2>7. CASE Becomes(own[p], "gone", 0, Nothing) \/ Becomes(old[p].file, "gone", 0, Nothing)
    BY <2>1, <2>4, <2>7
  <2>8. CASE Becomes(old[p].file, "delete", old[p].turn, temp[old[p].file].bytes)
    BY <2>0, <2>3, <2>4, <2>8
  <2>9. CASE Becomes(old[p].file, "rollback", old[p].turn + 1, temp[old[p].file].bytes)
    BY <2>0, <2>3, <2>4, <2>9
  <2>10. CASE Becomes(old[p].file, "private", old[p].turn, temp[old[p].file].bytes)
    BY <2>0, <2>3, <2>4, <2>10
  <2>. QED BY <2>5, <2>6, <2>7, <2>8, <2>9, <2>10 DEF TempChange
<1>. QED BY <1>1, <1>2, <1>3, <1>4 DEF DiskOK

LEMMA LocalsStep ==
  ASSUME EvidenceInv, NEW p \in Process, Act(p)
  PROVE  LocalsOK'
<1>. /\ TypeOK /\ Owned /\ LocalsOK
     /\ PublishStatements \subseteq {"idle"} \cup PublishStatements \cup WriteStatements
  BY DEF EvidenceInv, TypeOK
<1> DEFINE S == {"idle"} \cup PublishStatements \cup WriteStatements
<1>0. /\ {"idle", "parent", "look", "mkdir", "open", "cleanup", "write", "seal", "rename"} \subseteq S
      /\ {"placed", "check", "place", "recheck", "replace"} \subseteq S
      /\ {"scan", "recover", "create", "fill", "link", "compare", "bury", "retire", "hide", "unlink"} \subseteq S
  BY DEF PublishStatements, WriteStatements, Staging, Looking, Removing
<1>1. NoName \in Name /\ NoCall \in [key : Snapshot \cup {Receipt, Nothing}, want : Content \cup Bytes \cup {Nothing}]
  BY DEF NoName, NoCall, Name
<1>2. ASSUME Reset(p)
      PROVE  LocalsOK'
  BY <1>0, <1>1, <1>2 DEF LocalsOK, Reset, Goto
<1>3. ASSUME NEW success, Return(p, success)
      PROVE  LocalsOK'
  BY <1>2, <1>3 DEF Return
<1>4. ASSUME NEW success \in BOOLEAN, End(p, success)
      PROVE  LocalsOK'
  BY <1>0, <1>3, <1>4 DEF End, LocalsOK, Goto
<1>5. ASSUME NEW statement \in S, Goto(p, statement), UNCHANGED locals
      PROVE  LocalsOK'
  BY <1>5 DEF LocalsOK, Goto, locals
<1>6. ASSUME Continue(p), pc[p] \in Looking
      PROVE  LocalsOK'
  <2>1. CASE Following(p) = "end"
    BY <1>4, <1>6, <2>1 DEF Continue
  <2>2. CASE Following(p) # "end"
    <3>1. Following(p) \in S
      BY <1>0, <1>6, <2>2, FollowingIs
    <3>2. Goto(p, Following(p)) /\ UNCHANGED locals
      BY <1>6, <2>2 DEF Continue
    <3>. QED BY <1>5, <3>1, <3>2
  <2>. QED BY <2>1, <2>2
<1>7. CASE Publish(p) \/ Write(p)
  <2>1. PICK statement \in S, k \in Snapshot \cup {Receipt}, w \in Content \cup Bytes :
          /\ call' = [call EXCEPT ![p] = [key |-> k, want |-> w]] /\ Goto(p, statement)
          /\ UNCHANGED <<role, dir, todo, old, own, ok>>
    BY <1>0, <1>7 DEF Publish, Write, Start
  <2>2. [key |-> k, want |-> w] \in [key : Snapshot \cup {Receipt, Nothing}, want : Content \cup Bytes \cup {Nothing}]
    OBVIOUS
  <2>. QED BY <2>1, <2>2 DEF Goto, LocalsOK
<1>8. CASE OpenParent(p)
  BY <1>0, <1>5, <1>8 DEF OpenParent
<1>9. CASE Look(p)
  BY <1>0, <1>9 DEF Look, LocalsOK, Goto, At
<1>10. CASE MakeStaging(p)
  BY <1>0, <1>10, NewDirIs DEF MakeStaging, LocalsOK, Goto
<1>11. CASE WriteFile(p)
  <2>1. CASE Goto(p, "seal") /\ UNCHANGED locals
    BY <1>0, <1>5, <2>1
  <2>2. CASE UNCHANGED <<pc, locals>>
    BY <2>2 DEF LocalsOK, locals
  <2>. QED BY <1>11, <2>1, <2>2 DEF WriteFile
<1>12. CASE Seal(p)
  BY <1>0, <1>4, <1>5, <1>12 DEF Seal
<1>13. CASE Rename(p)
  BY <1>0, <1>13 DEF Rename, LocalsOK, Goto
<1>14. CASE OpenWinner(p)
  <2>1. CASE End(p, FALSE)
    BY <1>4, <2>1
  <2>2. CASE /\ Goto(p, "check")
             /\ \E d \in At(call[p].key) : dir' = [dir EXCEPT ![p] = d]
             /\ UNCHANGED <<call, role, todo, old, own, ok, confirmed>>
    BY <1>0, <2>2 DEF LocalsOK, Goto, At
  <2>. QED BY <1>14, <2>1, <2>2 DEF OpenWinner
<1>15. CASE CheckBytes(p)
  <2>1. pc[p] \in Looking
    BY <1>15 DEF CheckBytes, Looking
  <2>. QED BY <1>4, <1>6, <1>15, <2>1 DEF CheckBytes
<1>16. CASE CheckPlace(p)
  <2>1. pc[p] \in Looking
    BY <1>16 DEF CheckPlace, Looking
  <2>. QED BY <1>4, <1>6, <1>16, <2>1 DEF CheckPlace
<1>17. CASE Cleanup(p)
  <2>1. CASE UNCHANGED <<pc, locals>>
    BY <2>1 DEF LocalsOK, locals
  <2>. QED BY <1>3, <1>17, <2>1 DEF Cleanup, Remove
<1>18. CASE Scan(p)
  <2>1. {[file |-> t, turn |-> temp[t].turn] : t \in {u \in Temp : temp[u].kind = "rollback"}}
          \in SUBSET [file : Temp, turn : Nat]
    BY DEF TypeOK, DiskOK
  <2>. QED BY <1>0, <1>18, <2>1 DEF Scan, LocalsOK, Goto
<1>19. CASE Recover(p)
  <2>1. CASE Goto(p, "create") /\ UNCHANGED locals
    BY <1>0, <1>5, <2>1
  <2>2. CASE \E name \in todo[p] :
               \/ /\ todo' = [todo EXCEPT ![p] = todo[p] \ {name}]
                  /\ UNCHANGED <<pc, call, role, dir, old, own, ok, confirmed>>
               \/ Return(p, FALSE)
               \/ /\ todo' = [todo EXCEPT ![p] = todo[p] \ {name}]
                  /\ old' = [old EXCEPT ![p] = name] /\ Goto(p, "bury")
                  /\ UNCHANGED <<call, role, dir, own, ok, confirmed>>
    <3>1. PICK name \in todo[p] :
               \/ /\ todo' = [todo EXCEPT ![p] = todo[p] \ {name}]
                  /\ UNCHANGED <<pc, call, role, dir, old, own, ok, confirmed>>
               \/ Return(p, FALSE)
               \/ /\ todo' = [todo EXCEPT ![p] = todo[p] \ {name}]
                  /\ old' = [old EXCEPT ![p] = name] /\ Goto(p, "bury")
                  /\ UNCHANGED <<call, role, dir, own, ok, confirmed>>
      BY <2>2
    <3>2. name \in Name /\ todo[p] \ {name} \in SUBSET [file : Temp, turn : Nat]
      BY DEF LocalsOK, Name
    <3>3. CASE /\ todo' = [todo EXCEPT ![p] = todo[p] \ {name}]
               /\ UNCHANGED <<pc, call, role, dir, old, own, ok, confirmed>>
      BY <3>2, <3>3 DEF LocalsOK
    <3>4. CASE /\ todo' = [todo EXCEPT ![p] = todo[p] \ {name}]
               /\ old' = [old EXCEPT ![p] = name] /\ Goto(p, "bury")
               /\ UNCHANGED <<call, role, dir, own, ok, confirmed>>
      BY <1>0, <3>2, <3>4 DEF LocalsOK, Goto
    <3>. QED BY <1>3, <3>1, <3>3, <3>4
  <2>. QED BY <1>19, <2>1, <2>2 DEF Recover
<1>20. CASE Create(p)
  BY <1>0, <1>20, NewTempIs DEF Create, LocalsOK, Goto
<1>21. CASE Fill(p)
  BY <1>0, <1>5, <1>21 DEF Fill
<1>22. CASE Link(p)
  BY <1>0, <1>3, <1>5, <1>22 DEF Link
<1>23. CASE Compare(p)
  <2>1. [file |-> own[p], turn |-> 0] \in Name
    BY DEF LocalsOK, Name
  <2>. QED BY <1>0, <1>23, <2>1 DEF Compare, LocalsOK, Goto
<1>24. ASSUME NEW from, NEW kind, NEW turn \in Nat, NEW next \in S, MoveOn(p, from, kind, turn, next)
       PROVE  LocalsOK'
  <2>1. [file |-> old[p].file, turn |-> turn] \in Name
    BY DEF LocalsOK, Name
  <2>2. CASE /\ old' = [old EXCEPT ![p] = [file |-> old[p].file, turn |-> turn]]
             /\ Goto(p, next)
             /\ UNCHANGED <<call, role, dir, todo, own, ok, confirmed>>
    BY <2>1, <2>2 DEF LocalsOK, Goto
  <2>. QED BY <1>3, <1>24, <2>2 DEF MoveOn
<1>25. CASE Bury(p) \/ Retire(p) \/ Hide(p)
  <2>1. old[p].turn \in Nat /\ old[p].turn + 1 \in Nat
    BY DEF LocalsOK, Name
  <2>. QED BY <1>0, <1>24, <1>25, <2>1 DEF Bury, Retire, Hide
<1>26. CASE Unlink(p)
  <2>1. CASE /\ Goto(p, "recover") /\ old' = [old EXCEPT ![p] = NoName]
             /\ UNCHANGED <<call, role, dir, todo, own, ok, confirmed>>
    BY <1>0, <1>1, <2>1 DEF LocalsOK, Goto
  <2>. QED BY <1>3, <1>26, <2>1 DEF Unlink
<1>27. CASE Crash(p)
  BY <1>2, <1>27 DEF Crash
<1>. QED BY <1>7, <1>8, <1>9, <1>10, <1>11, <1>12, <1>13, <1>14, <1>15, <1>16, <1>17, <1>18, <1>19,
            <1>20, <1>21, <1>22, <1>23, <1>25, <1>26, <1>27 DEF Act, PublishStep, WriteStep

LEMMA UsedStep ==
  ASSUME NEW p \in Process, Act(p)
  PROVE  \/ used' = used
         \/ /\ used.calls < MaxCall
            /\ used' = [calls |-> used.calls + 1, crashes |-> used.crashes, losses |-> used.losses]
         \/ /\ used.crashes < MaxCrash
            /\ used' = [calls |-> used.calls, crashes |-> used.crashes + 1, losses |-> used.losses]
<1>1. CASE Publish(p) \/ Write(p)
  BY <1>1 DEF Publish, Write, Start
<1>2. CASE OpenParent(p) \/ Look(p) \/ MakeStaging(p) \/ WriteFile(p) \/ Seal(p) \/ Rename(p)
  BY <1>2 DEF OpenParent, Look, MakeStaging, WriteFile, Seal, Rename, history
<1>3. CASE OpenWinner(p) \/ CheckBytes(p) \/ CheckPlace(p) \/ Cleanup(p)
  BY <1>3 DEF OpenWinner, CheckBytes, CheckPlace, Cleanup
<1>4. CASE Scan(p) \/ Recover(p) \/ Create(p) \/ Fill(p) \/ Link(p) \/ Compare(p)
  BY <1>4 DEF Scan, Recover, Create, Fill, Link, Compare, history
<1>5. CASE Bury(p) \/ Retire(p) \/ Hide(p) \/ Unlink(p)
  BY <1>5 DEF Bury, Retire, Hide, Unlink, MoveOn
<1>6. CASE Crash(p)
  BY <1>6 DEF Crash
<1>. QED BY <1>1, <1>2, <1>3, <1>4, <1>5, <1>6 DEF Act, PublishStep, WriteStep

LEMMA HistoryStep ==
  ASSUME EvidenceInv, NEW p \in Process, Act(p)
  PROVE  HistoryOK'
<1>. /\ HistoryOK /\ CallOK(p)
     /\ used \in [calls : 0..MaxCall, crashes : 0..MaxCrash, losses : 0..MaxLoss]
  BY DEF EvidenceInv, TypeOK, HistoryOK, Calls
<1>1. used' \in [calls : 0..MaxCall, crashes : 0..MaxCrash, losses : 0..MaxLoss]
  BY UsedStep, Distinct
<1>2. pc[p] \in PublishStatements \cup WriteStatements =>
        call[p].key \in Snapshot \cup {Receipt} /\ call[p].want # Nothing
  BY Distinct DEF CallOK
<1>3. \A c \in confirmed' : c[1] \in Snapshot \cup {Receipt} /\ c[2] # Nothing
  BY <1>2, Truthful DEF HistoryOK
<1>4. lost' \subseteq Snapshot \cup {Receipt}
  BY Truthful DEF HistoryOK
<1>. QED BY <1>1, <1>3, <1>4 DEF HistoryOK
-------------------------------------------------------------------------------
\* Each part of the invariant, for the processes that do not take the step

LEMMA OtherStaged ==
  ASSUME EvidenceInv, NEW p \in Process, Act(p), NEW q \in Process, q # p
  PROVE  StagedOK(q)'
<1>. StagedOK(q) /\ DirChange(p) /\ dir[q] \in Dir \cup {Nothing}
  BY DirChanges DEF EvidenceInv, Staged, TypeOK, LocalsOK
<1>1. pc'[q] = pc[q] /\ call'[q] = call[q] /\ role'[q] = role[q] /\ dir'[q] = dir[q]
  BY OthersStay DEF EvidenceInv, Stay, Mem
<1>2. At(q)' = At(q) /\ \A d \in Dir : at[d] = q => at'[d] = q /\ files'[d] = files[d]
  BY OthersDirs
<1>3. pc[q] \in Staging => at'[dir[q]] = q /\ files'[dir[q]] = files[dir[q]]
  BY <1>2 DEF StagedOK
<1>. QED BY <1>1, <1>2, <1>3 DEF StagedOK, Staging

LEMMA OtherSeen ==
  ASSUME EvidenceInv, NEW p \in Process, Act(p), NEW q \in Process, q # p
  PROVE  SeenOK(q)'
<1>. SeenOK(q) /\ CallOK(q) /\ DirChange(p) /\ dir[q] \in Dir \cup {Nothing}
  BY DirChanges DEF EvidenceInv, Seen, Calls, TypeOK, LocalsOK
<1>1. pc'[q] = pc[q] /\ call'[q] = call[q] /\ dir'[q] = dir[q] /\ own'[q] = own[q] /\ ok'[q] = ok[q]
  BY OthersStay DEF EvidenceInv, Stay, Mem
<1>2. lost' = lost
  BY Truthful
<1>3. pc[q] \in PublishStatements => call[q].key \in Snapshot /\ call[q].want # Nothing
  BY Distinct DEF CallOK
<1>4. (pc[q] \in Looking /\ at[dir[q]] = call[q].key) =>
        at'[dir[q]] = at[dir[q]] /\ files'[dir[q]] = files[dir[q]]
  BY <1>3, ForeignDirs, Distinct DEF SeenOK, PublishStatements
<1>5. (pc[q] = "cleanup" /\ Register[call[q].key] = call[q].want) => Register'[call[q].key] = call[q].want
  BY <1>3, RegisterKept DEF PublishStatements
<1>6. (pc[q] \in Removing /\ receipt = call[q].want) => receipt' = receipt
  <2>1. pc[q] \in Removing => call[q].want # Nothing
    BY Distinct DEF CallOK, WriteStatements
  <2>. QED BY <2>1, ReceiptChange DEF EvidenceInv
<1>7. pc'[q] \in Looking => dir'[q] # Nothing /\ (call'[q].key \in lost' \/ at'[dir'[q]] = call'[q].key)
  BY <1>1, <1>2, <1>4 DEF SeenOK
<1>8. pc'[q] \in {"place", "recheck", "replace"} =>
        call'[q].key \in lost' \/ files'[dir'[q]] = call'[q].want
  BY <1>1, <1>2, <1>4 DEF SeenOK, Looking
<1>9. (pc'[q] = "cleanup" /\ ok'[q]) => call'[q].key \in lost' \/ Register'[call'[q].key] = call'[q].want
  BY <1>1, <1>2, <1>5 DEF SeenOK
<1>10. (pc'[q] \in Removing /\ own'[q] # Nothing /\ ok'[q]) => Receipt \in lost' \/ receipt' = call'[q].want
  BY <1>1, <1>2, <1>6 DEF SeenOK
<1>. QED BY <1>7, <1>8, <1>9, <1>10 DEF SeenOK

LEMMA OtherOwned ==
  ASSUME EvidenceInv, NEW p \in Process, Act(p), NEW q \in Process, q # p
  PROVE  OwnedOK(q)' /\ HandledOK(q)'
<1>. /\ TypeOK /\ Owned /\ Handled /\ Apart /\ TempChange(p) /\ OwnedOK(q) /\ HandledOK(q)
     /\ own[q] \in Temp \cup {Nothing}
  BY TempChanges DEF EvidenceInv, Owned, Handled, TypeOK, LocalsOK
<1>1. /\ pc'[q] = pc[q] /\ call'[q] = call[q] /\ own'[q] = own[q] /\ old'[q] = old[q]
  BY OthersStay DEF Stay, Mem
<1>2. own[q] # Nothing => temp'[own[q]].kind # "new"
  BY NewNever DEF OwnedOK
<1>3. pc[q] \in {"fill", "link", "compare"} => temp'[own[q]] = temp[own[q]]
  BY ForeignTemps DEF OwnedOK
<1>4. (pc[q] = "bury" /\ own[q] # Nothing) => temp'[own[q]] = temp[own[q]]
  BY ForeignTemps DEF HandledOK, Named
<1>5. pc[q] \in {"retire", "unlink"} => temp'[old[q].file] = temp[old[q].file]
  BY ForeignTemps DEF OwnedOK, Removing
<1>6. OwnedOK(q)'
  BY <1>1, <1>2, <1>3 DEF OwnedOK
<1>7. HandledOK(q)'
  BY <1>1, <1>4, <1>5 DEF HandledOK, Named
<1>. QED BY <1>6, <1>7
-------------------------------------------------------------------------------
\* The invariant

LEMMA ActKeeps ==
  ASSUME EvidenceInv, NEW p \in Process, Act(p)
  PROVE  EvidenceInv'
<1>1. TypeOK'
  BY DiskStep, LocalsStep, HistoryStep DEF TypeOK
<1>2. OneDir' /\ Whole'
  BY DirChanges, OneDirStep, WholeStep
<1>3. ASSUME NEW q \in Process
      PROVE  CallOK(q)' /\ StagedOK(q)' /\ SeenOK(q)' /\ OwnedOK(q)' /\ HandledOK(q)'
  <2>1. CASE q = p
    BY <2>1, CallStep, StagedStep, SeenStep, OwnedStep, HandledStep
  <2>2. CASE q # p
    <3>1. CallOK(q)'
      <4>1. pc'[q] = pc[q] /\ call'[q] = call[q] /\ CallOK(q)
        BY <2>2, OthersStay DEF EvidenceInv, Stay, Mem, Calls
      <4>. QED BY <4>1 DEF CallOK
    <3>. QED BY <2>2, <3>1, OtherStaged, OtherSeen, OtherOwned
  <2>. QED BY <2>1, <2>2
<1>4. Calls' /\ Staged' /\ Seen' /\ Owned' /\ Handled'
  BY <1>3 DEF Calls, Staged, Seen, Owned, Handled
<1>. QED BY <1>1, <1>2, <1>4, ApartStep, AttendedStep, ConfirmedStep DEF EvidenceInv

LEMMA LossKeeps ==
  ASSUME EvidenceInv, Loss
  PROVE  EvidenceInv'
<1>. /\ DiskOK /\ LocalsOK /\ HistoryOK /\ TypeOK /\ OneDir /\ Whole
     /\ at \in [Dir -> Snapshot \cup Process \cup {"left", "free"}]
     /\ files \in [Dir -> [File -> Bytes \cup {Nothing}]]
  BY DEF EvidenceInv, TypeOK, DiskOK
<1>0. /\ UNCHANGED <<temp, pc, call, role, dir, todo, old, own, ok, confirmed>>
      /\ used.losses < MaxLoss
      /\ used' = [calls |-> used.calls, crashes |-> used.crashes, losses |-> used.losses + 1]
  BY DEF Loss, locals
<1>1. PICK m \in Snapshot \cup {Receipt} : Emptied(m)
  BY LossEffect
<1>2. \/ \E d \in Dir : at[d] \in Snapshot /\ at' = [at EXCEPT ![d] = "free"]
                     /\ files' = [files EXCEPT ![d] = Hollow] /\ UNCHANGED receipt
      \/ receipt' = Nothing /\ UNCHANGED <<at, files>>
  BY DEF Loss, At
<1>3. TypeOK'
  <2>1. DiskOK'
    BY <1>0, <1>2, HollowIs DEF DiskOK
  <2>2. LocalsOK'
    BY <1>0 DEF LocalsOK
  <2>3. HistoryOK'
    BY <1>0, <1>1, Distinct DEF HistoryOK, Emptied
  <2>. QED BY <2>1, <2>2, <2>3 DEF TypeOK
<1>4. OneDir'
  BY <1>2 DEF OneDir
<1>5. Whole'
  BY <1>2, Distinct DEF Whole
<1>6. Calls' /\ Owned' /\ Handled' /\ Apart'
  <2>1. Calls'
    BY <1>0 DEF EvidenceInv, Calls, CallOK
  <2>2. Owned'
    BY <1>0 DEF EvidenceInv, Owned, OwnedOK
  <2>3. Handled'
    BY <1>0 DEF EvidenceInv, Handled, HandledOK, Named
  <2>4. Apart'
    BY <1>0 DEF EvidenceInv, Apart
  <2>. QED BY <2>1, <2>2, <2>3, <2>4
<1>7. ASSUME NEW p \in Process
      PROVE  StagedOK(p)'
  <2>1. StagedOK(p) /\ dir[p] \in Dir \cup {Nothing}
    BY DEF EvidenceInv, Staged, LocalsOK
  <2>2. \A d \in Dir : at[d] = p => at'[d] = p /\ files'[d] = files[d]
    BY <1>2, Distinct
  <2>3. At(p)' = At(p)
    BY <1>2, Distinct DEF At
  <2>4. pc[p] \in Staging => at'[dir[p]] = p /\ files'[dir[p]] = files[dir[p]]
    BY <2>1, <2>2 DEF StagedOK
  <2>. QED BY <1>0, <2>1, <2>3, <2>4 DEF StagedOK, Staging
<1>8. ASSUME NEW p \in Process
      PROVE  SeenOK(p)'
  <2>1. SeenOK(p) /\ CallOK(p) /\ dir[p] \in Dir \cup {Nothing}
    BY DEF EvidenceInv, Seen, Calls, LocalsOK
  <2>2. lost \subseteq lost' /\ \A n \in Snapshot \cup {Receipt} : n \notin lost' => n # m
    BY <1>1 DEF Emptied
  <2>3. pc[p] \in PublishStatements => call[p].key \in Snapshot
    BY <2>1 DEF CallOK
  <2>4. pc[p] \in Looking => call[p].key \in lost' \/
          /\ at'[dir[p]] = call[p].key /\ files'[dir[p]] = files[dir[p]]
    BY <1>1, <2>1, <2>2, <2>3 DEF SeenOK, Emptied, PublishStatements
  <2>5. pc[p] = "cleanup" => call[p].key \in lost' \/ Register'[call[p].key] = Register[call[p].key]
    BY <1>1, <2>2, <2>3 DEF Emptied, PublishStatements
  <2>6. Receipt \in lost' \/ receipt' = receipt
    BY <1>2 DEF Loss
  <2>7. pc'[p] \in Looking => dir'[p] # Nothing /\ (call'[p].key \in lost' \/ at'[dir'[p]] = call'[p].key)
    BY <1>0, <2>1, <2>4 DEF SeenOK
  <2>8. pc'[p] \in {"place", "recheck", "replace"} =>
          call'[p].key \in lost' \/ files'[dir'[p]] = call'[p].want
    BY <1>0, <2>1, <2>2, <2>4 DEF SeenOK, Looking
  <2>9. (pc'[p] = "cleanup" /\ ok'[p]) => call'[p].key \in lost' \/ Register'[call'[p].key] = call'[p].want
    BY <1>0, <2>1, <2>2, <2>5 DEF SeenOK
  <2>10. (pc'[p] \in Removing /\ own'[p] # Nothing /\ ok'[p]) => Receipt \in lost' \/ receipt' = call'[p].want
    BY <1>0, <2>1, <2>2, <2>6 DEF SeenOK
  <2>. QED BY <2>7, <2>8, <2>9, <2>10 DEF SeenOK
<1>9. Attended'
  <2>1. used'.crashes = used.crashes
    BY <1>0
  <2>2. used.crashes = 0 => \A d \in Dir : at'[d] # "left"
    BY <1>2 DEF EvidenceInv, Attended
  <2>3. \A t \in Temp, p \in Process : Keeper(t, p)' <=> Keeper(t, p)
    BY <1>0 DEF Keeper, Named
  <2>. QED BY <1>0, <2>1, <2>2, <2>3 DEF EvidenceInv, Attended
<1>10. Confirmed'
  BY <1>0, <1>1 DEF EvidenceInv, Confirmed, HistoryOK, Emptied
<1>. QED BY <1>3, <1>4, <1>5, <1>6, <1>7, <1>8, <1>9, <1>10 DEF EvidenceInv, Staged, Seen

LEMMA InitInv == Init => EvidenceInv
<1>. SUFFICES ASSUME Init
              PROVE  EvidenceInv
  OBVIOUS
<1>1. TypeOK
  <2>1. DiskOK
    BY HollowIs, Distinct DEF Init, DiskOK, Kind
  <2>2. LocalsOK
    BY DEF Init, LocalsOK, NoCall, NoName, Name
  <2>3. HistoryOK
    BY Distinct DEF Init, HistoryOK
  <2>. QED BY <2>1, <2>2, <2>3 DEF TypeOK
<1>2. OneDir /\ Whole
  BY Distinct DEF Init, OneDir, Whole
<1>3. \A p \in Process : At(p) = {}
  BY Distinct DEF Init, At
<1>4. Calls /\ Staged /\ Seen
  BY <1>3, StatementKinds DEF Init, Calls, CallOK, Staged, StagedOK, Seen, SeenOK, Looking, Staging, Removing
<1>5. Owned /\ Handled /\ Apart
  BY DEF Init, Owned, OwnedOK, Handled, HandledOK, Apart, Removing
<1>6. Attended /\ Confirmed
  BY DEF Init, Attended, Confirmed
<1>. QED BY <1>1, <1>2, <1>4, <1>5, <1>6 DEF EvidenceInv

LEMMA StutterKeeps == EvidenceInv /\ UNCHANGED vars => EvidenceInv'
<1>. SUFFICES ASSUME EvidenceInv, UNCHANGED vars
              PROVE  EvidenceInv'
  OBVIOUS
<1>0. UNCHANGED <<at, files, receipt, temp, pc, call, role, dir, todo, old, own, ok, confirmed, lost, used>>
  BY DEF vars, disk, locals, history
<1>1. TypeOK' /\ OneDir' /\ Whole'
  BY <1>0 DEF EvidenceInv, TypeOK, DiskOK, LocalsOK, HistoryOK, OneDir, Whole
<1>2. \A n : At(n)' = At(n)
  BY <1>0 DEF At
<1>3. Register' = Register
  BY <1>0, StillRegister DEF Still
<1>4. Calls' /\ Staged'
  BY <1>0, <1>2 DEF EvidenceInv, Calls, CallOK, Staged, StagedOK
<1>5. Seen'
  BY <1>0, <1>3 DEF EvidenceInv, Seen, SeenOK
<1>6. Owned' /\ Handled' /\ Apart'
  BY <1>0 DEF EvidenceInv, Owned, OwnedOK, Handled, HandledOK, Named, Apart
<1>7. Attended'
  BY <1>0 DEF EvidenceInv, Attended, Keeper, Named
<1>8. Confirmed'
  BY <1>0, <1>3 DEF EvidenceInv, Confirmed
<1>. QED BY <1>1, <1>4, <1>5, <1>6, <1>7, <1>8 DEF EvidenceInv

\* The invariant holds, whatever calls run against each other, crash, and lose their
\* publications to others (write_immutable_bytes, _publish_immutable_snapshot).
THEOREM EvidenceInvariance == Spec => []EvidenceInv
<1>1. EvidenceInv /\ [Next]_vars => EvidenceInv'
  BY ActKeeps, LossKeeps, StutterKeeps, NextIsAct
<1>. QED BY <1>1, InitInv, PTL DEF Spec

\* Every publication a call reports is at its name with its bytes, unless somebody else
\* removed it, whichever of the racing calls put it there.
THEOREM ReportsHold == Spec => []Confirmed
<1>1. EvidenceInv => Confirmed
  BY DEF EvidenceInv
<1>. QED BY <1>1, EvidenceInvariance, PTL

\* Without a crash no staging directory and no temporary file outlives the calls, even
\* when one call removes what another is in the middle of removing.
THEOREM CallsCleanUp == Spec => []NothingLeft
<1>1. EvidenceInv => NothingLeft
  <2>. SUFFICES ASSUME EvidenceInv, used.crashes = 0, \A p \in Process : pc[p] = "idle"
                PROVE  /\ \A d \in Dir : at[d] \in Snapshot \cup {"free"}
                       /\ \A t \in Temp : temp[t].kind \in {"new", "gone"}
    BY DEF NothingLeft
  <2>1. \A p \in Process : At(p) = {}
    BY NoneStaged
  <2>2. \A d \in Dir : at[d] \in Snapshot \cup {"free"}
    BY <2>1 DEF EvidenceInv, TypeOK, DiskOK, At, Attended
  <2>3. \A t \in Temp, p \in Process : ~Keeper(t, p)
    BY DEF Keeper, Handling
  <2>4. \A t \in Temp : temp[t].kind \in {"new", "gone"}
    BY <2>3 DEF EvidenceInv, Attended
  <2>. QED BY <2>2, <2>4
<1>. QED BY <1>1, EvidenceInvariance, PTL
-------------------------------------------------------------------------------
\* Publication is a register written once

LEMMA StepPuts ==
  ASSUME EvidenceInv, NEW p \in Process, Act(p)
  PROVE  \/ Register' = Register
         \/ \E k \in Snapshot \cup {Receipt} : WO!Put(k)
<1>. /\ DirChange(p) /\ TypeOK /\ Owned /\ CallOK(p)
  BY DirChanges DEF EvidenceInv, Calls
<1>0. OneDir'
  BY OneDirStep
<1>1. used'.losses = used.losses
  BY UsedStep
<1>2. /\ \A n \in Snapshot : Register'[n] = Published(n)' /\ Register[n] = Published(n)
      /\ Register'[Receipt] = receipt' /\ Register[Receipt] = receipt
  BY Distinct DEF Register
<1>3. /\ Register = [n \in Snapshot \cup {Receipt} |-> Register[n]]
      /\ Register' = [n \in Snapshot \cup {Receipt} |-> Register'[n]]
  BY DEF Register
<1>4. ASSUME NEW k \in Snapshot \cup {Receipt}, Register'[k] # Register[k],
             Register'[k] \in Content \cup Bytes,
             \A n \in Snapshot \cup {Receipt} : n # k => Register'[n] = Register[n]
      PROVE  WO!Put(k)
  <2>1. Register[k] = Nothing
    BY <1>4, RegisterKept
  <2>2. Register' = [Register EXCEPT ![k] = Register'[k]]
    BY <1>3, <1>4
  <2>. QED BY <1>1, <1>4, <2>1, <2>2 DEF WO!Put
<1>5. CASE \E n \in Snapshot : Published(n)' # Published(n)
  <2>1. PICK n \in Snapshot : Published(n)' # Published(n)
    BY <1>5
  <2>2. /\ Published(n)' \in Content
        /\ \A m \in Snapshot : m # n => Published(m)' = Published(m)
    BY <1>0, <2>1, PublishedFrom
  <2>3. receipt' = receipt
    BY <2>1, ReceiptChange DEF Published, At
  <2>. QED BY <1>2, <1>4, <2>1, <2>2, <2>3
<1>6. CASE (\A n \in Snapshot : Published(n)' = Published(n)) /\ receipt' # receipt
  <2>1. receipt' \in Bytes
    BY <1>6, ReceiptChange DEF CallOK, WriteStatements
  <2>. QED BY <1>2, <1>4, <1>6, <2>1
<1>7. CASE (\A n \in Snapshot : Published(n)' = Published(n)) /\ receipt' = receipt
  <2>1. \A n \in Snapshot \cup {Receipt} : Register'[n] = Register[n]
    BY <1>2, <1>7
  <2>. QED BY <1>3, <2>1
<1>. QED BY <1>5, <1>6, <1>7

LEMMA LossLoses ==
  ASSUME EvidenceInv, Loss
  PROVE  \E k \in Snapshot \cup {Receipt} : WO!Lose(k)
<1>1. PICK k \in Snapshot \cup {Receipt} : Emptied(k)
  BY LossEffect DEF EvidenceInv
<1>2. used'.losses = used.losses + 1
  BY DEF Loss
<1>3. Register' = [Register EXCEPT ![k] = Nothing]
  BY <1>1 DEF Emptied, Register
<1>. QED BY <1>2, <1>3 DEF WO!Lose

\* Publication by racing calls that crash implements a register that is written once:
\* nothing published is replaced, taken away by a call, or ever there in part.
THEOREM EvidenceWrittenOnce == Spec => ImplementsWriteOnce
<1>1. Init => WO!Init
  <2>. SUFFICES ASSUME Init
                PROVE  WO!Init
    OBVIOUS
  <2>1. \A n \in Snapshot : At(n) = {}
    BY Distinct DEF Init, At
  <2>2. \A n \in Snapshot : Published(n) = Nothing
    BY <2>1 DEF Published
  <2>3. Register = [n \in Snapshot \cup {Receipt} |-> Nothing]
    BY <2>2 DEF Init, Register
  <2>4. used.losses = 0
    BY DEF Init
  <2>. QED BY <2>3, <2>4 DEF WO!Init
<1>2. EvidenceInv /\ [Next]_vars => [WO!Next]_<<Register, used.losses>>
  <2>. SUFFICES ASSUME EvidenceInv, [Next]_vars
                PROVE  [WO!Next]_<<Register, used.losses>>
    OBVIOUS
  <2>1. ASSUME NEW p \in Process, Act(p)
        PROVE  [WO!Next]_<<Register, used.losses>>
    <3>1. used'.losses = used.losses
      BY <2>1, UsedStep
    <3>. QED BY <2>1, <3>1, StepPuts DEF WO!Next
  <2>2. CASE Loss
    BY <2>2, LossLoses DEF WO!Next
  <2>3. CASE UNCHANGED vars
    BY <2>3, StillRegister DEF vars, disk, history, Still
  <2>. QED BY <2>1, <2>2, <2>3, NextIsAct
<1>. QED BY <1>1, <1>2, EvidenceInvariance, PTL DEF Spec, ImplementsWriteOnce, WO!Spec

===============================================================================
