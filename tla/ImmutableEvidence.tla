-------------------------- MODULE ImmutableEvidence --------------------------
(***************************************************************************)
(* Immutable evidence of scripts/catalog_rollout_evidence.py: snapshot     *)
(* directories (_publish_immutable_snapshot) and receipts                  *)
(* (write_immutable_bytes), published by several processes without a lock. *)
(*                                                                         *)
(* A snapshot is staged in a directory with a private name and renamed     *)
(* without replacement; who loses the race accepts only an identical       *)
(* winner.  A receipt is written to a temporary file and renamed the same  *)
(* way; a temporary file that lost is moved through several names before   *)
(* it is unlinked, and the next writer removes the one an interrupted      *)
(* cleanup left under its rollback name.                                   *)
(***************************************************************************)
EXTENDS Naturals, FiniteSets

CONSTANTS
  Process,
  Base,        \* the snapshot config/rollouts/<rollout>, which is also the
  Revision,    \*   parent directory of the revisions of that rollout
  Receipt,     \* the name of a receipt
  File,        \* the files of a snapshot
  Bytes,
  Dir,         \* inodes of directories
  Temp,        \* inodes of temporary files, one for each call
  Nothing,     \* no bytes, no inode
  MaxCall, MaxCrash, MaxLoss  \* bounds: calls, crashes, removals by others

Snapshot == {Base} \cup Revision
Content  == [File -> Bytes]
Hollow   == [f \in File |-> Nothing]

ASSUME EvidenceAssumption ==
  /\ Base \notin Revision /\ Receipt \notin Snapshot
  /\ Nothing \notin Bytes \cup Dir \cup Temp \cup Content /\ File # {}
  /\ Snapshot \cap (Process \cup {"free", "left"}) = {}
  /\ Process \cap {"free", "left"} = {}
  /\ MaxCall \in Nat /\ MaxCrash \in Nat /\ MaxLoss \in Nat

VARIABLES
  at,        \* [Dir -> its name: a snapshot, the staging name of a live call,
             \*   one that a dead call left, or "free"]
  files,     \* [Dir -> the bytes of each file in it]
  receipt,   \* the bytes at the receipt's name, or Nothing
  temp,      \* [Temp -> a temporary file: the kind of its name, how often it
             \*   got a new rollback name, and its bytes]
  pc,        \* [Process -> the statement its call is at]
  call,      \* [Process -> the name and the bytes it is to publish]
  role,      \* [Process -> how it came to the directory it checks]
  dir,       \* [Process -> the directory it has open]
  todo,      \* [Process -> the rollback names it listed]
  old,       \* [Process -> the temporary file it is removing, by its last name]
  own,       \* [Process -> its temporary file]
  ok,        \* [Process -> whether the cleanup it is in ends in success]
  confirmed, \* history: what calls returned as published
  lost,      \* history: names that others removed
  used       \* history: the bounds used

disk    == <<at, files, receipt, temp>>
locals  == <<call, role, dir, todo, old, own, ok>>
history == <<confirmed, lost, used>>
vars    == <<disk, pc, locals, history>>

NoCall == [key |-> Nothing, want |-> Nothing]
NoName == [file |-> Nothing, turn |-> 0]

Init ==
  /\ at = [d \in Dir |-> "free"] /\ files = [d \in Dir |-> Hollow]
  /\ receipt = Nothing
  /\ temp = [t \in Temp |-> [kind |-> "new", turn |-> 0, bytes |-> Nothing]]
  /\ pc = [p \in Process |-> "idle"] /\ call = [p \in Process |-> NoCall]
  /\ role = [p \in Process |-> "finder"] /\ dir = [p \in Process |-> Nothing]
  /\ todo = [p \in Process |-> {}] /\ old = [p \in Process |-> NoName]
  /\ own = [p \in Process |-> Nothing] /\ ok = [p \in Process |-> TRUE]
  /\ confirmed = {} /\ lost = {} /\ used = [calls |-> 0, crashes |-> 0, losses |-> 0]

Goto(p, statement) == pc' = [pc EXCEPT ![p] = statement]

\* The call of p is over.
Reset(p) ==
  /\ Goto(p, "idle")
  /\ call' = [call EXCEPT ![p] = NoCall] /\ role' = [role EXCEPT ![p] = "finder"]
  /\ dir' = [dir EXCEPT ![p] = Nothing] /\ todo' = [todo EXCEPT ![p] = {}]
  /\ old' = [old EXCEPT ![p] = NoName] /\ own' = [own EXCEPT ![p] = Nothing]
  /\ ok' = [ok EXCEPT ![p] = TRUE]

\* It raises, or reports the bytes as published.
Return(p, success) ==
  /\ Reset(p)
  /\ confirmed' = IF success THEN confirmed \cup {<<call[p].key, call[p].want>>} ELSE confirmed

Start(p, statement, keys, wants) ==
  /\ pc[p] = "idle" /\ used.calls < MaxCall
  /\ \E k \in keys, w \in wants : call' = [call EXCEPT ![p] = [key |-> k, want |-> w]]
  /\ Goto(p, statement)
  /\ used' = [calls |-> used.calls + 1, crashes |-> used.crashes, losses |-> used.losses]
  /\ UNCHANGED <<disk, role, dir, todo, old, own, ok, confirmed, lost>>
-------------------------------------------------------------------------------
\* _publish_immutable_snapshot

At(name) == {d \in Dir : at[d] = name}

\* Inodes nobody has a name or a descriptor for.
Fresh == {d \in At("free") : \A p \in Process : dir[p] # d}

\* The one the file system gives to a new directory.
NewDir == CHOOSE d \in Fresh : TRUE

\* Who found the directory there checks its name last; who lost the rename does
\* not; who won it checks the name before the bytes as well.
Following(p) ==
  CASE pc[p] = "placed"  -> "check"
    [] pc[p] = "check"   -> "place"
    [] pc[p] = "place"   -> "recheck"
    [] pc[p] = "recheck" /\ role[p] = "finder" -> "replace"
    [] OTHER             -> "end"

\* Mutant: the staging directory of a loser that succeeds is forgotten.
EndLeaving(p, success) ==
  IF success \/ At(p) = {} THEN Return(p, success)
  ELSE /\ Goto(p, "cleanup") /\ ok' = [ok EXCEPT ![p] = success]
       /\ UNCHANGED <<call, role, dir, todo, old, own, confirmed>>

\* Only a loser, or a call that failed before its rename, has a staging directory
\* left to remove.
End(p, success) ==
  IF At(p) = {} THEN Return(p, success)
  ELSE /\ Goto(p, "cleanup") /\ ok' = [ok EXCEPT ![p] = success]
       /\ UNCHANGED <<call, role, dir, todo, old, own, confirmed>>

Continue(p) ==
  IF Following(p) = "end" THEN End(p, TRUE)
  ELSE Goto(p, Following(p)) /\ UNCHANGED <<locals, confirmed>>

Publish(p) == Start(p, "parent", Snapshot, Content)

\* _open_or_create_directory_at: the parent of a revision is the base snapshot.
OpenParent(p) ==
  /\ pc[p] = "parent"
  /\ Goto(p, "look")
  /\ IF call[p].key = Base \/ At(Base) # {} THEN UNCHANGED at
     ELSE Fresh # {} /\ at' = [at EXCEPT ![NewDir] = Base]
  /\ UNCHANGED <<files, receipt, temp, locals, history>>

Look(p) ==
  /\ pc[p] = "look"
  /\ IF At(call[p].key) = {} THEN Goto(p, "mkdir") /\ UNCHANGED dir
     ELSE Goto(p, "check") /\ \E d \in At(call[p].key) : dir' = [dir EXCEPT ![p] = d]
  /\ UNCHANGED <<disk, call, role, todo, old, own, ok, history>>

MakeStaging(p) ==
  /\ pc[p] = "mkdir" /\ Fresh # {}
  /\ Goto(p, "write")
  /\ at' = [at EXCEPT ![NewDir] = p] /\ dir' = [dir EXCEPT ![p] = NewDir]
  /\ UNCHANGED <<files, receipt, temp, call, role, todo, old, own, ok, history>>

Put(d, f, b) == files' = [files EXCEPT ![d] = [files[d] EXCEPT ![f] = b]]

\* Mutant: the staging directory is renamed when its first file is written.
WriteFileEarly(p) ==
  /\ pc[p] = "write"
  /\ \E f \in File : files[dir[p]][f] = Nothing /\ Put(dir[p], f, call[p].want[f]) /\ Goto(p, "rename")
  /\ UNCHANGED <<at, receipt, temp, locals, history>>

\* _write_snapshot_file_at; in which order makes no difference.
WriteFile(p) ==
  /\ pc[p] = "write"
  /\ \/ \E f \in File : files[dir[p]][f] = Nothing /\ Put(dir[p], f, call[p].want[f]) /\ UNCHANGED pc
     \/ (\A f \in File : files[dir[p]][f] # Nothing) /\ Goto(p, "seal") /\ UNCHANGED files
  /\ UNCHANGED <<at, receipt, temp, locals, history>>

\* Mutant: only that the directory is there is looked at.
MatchesAny(p) == dir[p] # Nothing

\* _validate_snapshot_descriptor: every file through the open directory.
Matches(p) == files[dir[p]] = call[p].want

Seal(p) ==
  /\ pc[p] = "seal"
  /\ IF Matches(p) THEN Goto(p, "rename") /\ UNCHANGED <<locals, confirmed>> ELSE End(p, FALSE)
  /\ UNCHANGED <<disk, lost, used>>

\* _rename_no_replace_at
Rename(p) ==
  /\ pc[p] = "rename"
  /\ IF At(call[p].key) = {}
       THEN /\ at' = [at EXCEPT ![dir[p]] = call[p].key]
            /\ Goto(p, "placed") /\ role' = [role EXCEPT ![p] = "winner"]
       ELSE /\ Goto(p, "open") /\ role' = [role EXCEPT ![p] = "loser"] /\ UNCHANGED at
  /\ UNCHANGED <<files, receipt, temp, call, dir, todo, old, own, ok, history>>

\* The loser opens the winner's directory, which may be gone again.
OpenWinner(p) ==
  /\ pc[p] = "open"
  /\ IF At(call[p].key) = {} THEN End(p, FALSE)
     ELSE /\ Goto(p, "check")
          /\ \E d \in At(call[p].key) : dir' = [dir EXCEPT ![p] = d]
          /\ UNCHANGED <<call, role, todo, old, own, ok, confirmed>>
  /\ UNCHANGED <<disk, lost, used>>

CheckBytes(p) ==
  /\ pc[p] \in {"check", "recheck"}
  /\ IF Matches(p) THEN Continue(p) ELSE End(p, FALSE)
  /\ UNCHANGED <<disk, lost, used>>

\* _capture_directory_identity_at: the name still is the directory's.
CheckPlace(p) ==
  /\ pc[p] \in {"placed", "place", "replace"}
  /\ IF at[dir[p]] = call[p].key THEN Continue(p) ELSE End(p, FALSE)
  /\ UNCHANGED <<disk, lost, used>>

\* One entry after the other, then the directory.
Remove(p, d) ==
  \/ /\ \E f \in File : files[d][f] # Nothing /\ Put(d, f, Nothing)
     /\ UNCHANGED <<at, pc, locals, confirmed>>
  \/ /\ files[d] = Hollow /\ at' = [at EXCEPT ![d] = "free"]
     /\ Return(p, ok[p]) /\ UNCHANGED files

\* Mutant: the directory is removed through the descriptor that was checked.
CleanupOpen(p) ==
  /\ pc[p] = "cleanup"
  /\ Remove(p, dir[p])
  /\ UNCHANGED <<receipt, temp, lost, used>>

\* _remove_directory_tree_at of the staging name.
Cleanup(p) ==
  /\ pc[p] = "cleanup"
  /\ \E d \in At(p) : Remove(p, d)
  /\ UNCHANGED <<receipt, temp, lost, used>>
-------------------------------------------------------------------------------
\* write_immutable_bytes

Write(p) == Start(p, "scan", {Receipt}, Bytes)

\* The listing of _recover_immutable_cleanup_artifacts_at.
Scan(p) ==
  /\ pc[p] = "scan"
  /\ Goto(p, "recover")
  /\ todo' = [todo EXCEPT ![p] =
                {[file |-> t, turn |-> temp[t].turn] : t \in {u \in Temp : temp[u].kind = "rollback"}}]
  /\ UNCHANGED <<disk, call, role, dir, old, own, ok, history>>

Named(name, kind) == temp[name.file].kind = kind /\ temp[name.file].turn = name.turn

\* A listed name that is still there is removed, if it holds the bytes to write.
Recover(p) ==
  /\ pc[p] = "recover"
  /\ \/ /\ todo[p] = {} /\ Goto(p, "create")
        /\ UNCHANGED <<locals, confirmed>>
     \/ \E name \in todo[p] :
          IF ~Named(name, "rollback")
            THEN /\ todo' = [todo EXCEPT ![p] = todo[p] \ {name}]
                 /\ UNCHANGED <<pc, call, role, dir, old, own, ok, confirmed>>
          ELSE IF temp[name.file].bytes # call[p].want THEN Return(p, FALSE)
          ELSE /\ todo' = [todo EXCEPT ![p] = todo[p] \ {name}]
               /\ old' = [old EXCEPT ![p] = name] /\ Goto(p, "bury")
               /\ UNCHANGED <<call, role, dir, own, ok, confirmed>>
  /\ UNCHANGED <<disk, lost, used>>

Become(t, kind, turn, bytes) ==
  temp' = [temp EXCEPT ![t] = [kind |-> kind, turn |-> turn, bytes |-> bytes]]

NewTemp == CHOOSE t \in Temp : temp[t].kind = "new"

Create(p) ==
  /\ pc[p] = "create" /\ (\E t \in Temp : temp[t].kind = "new")
  /\ Become(NewTemp, "tmp", 0, Nothing) /\ own' = [own EXCEPT ![p] = NewTemp]
  /\ Goto(p, "fill")
  /\ UNCHANGED <<at, files, receipt, call, role, dir, todo, old, ok, history>>

Fill(p) ==
  /\ pc[p] = "fill"
  /\ Become(own[p], "tmp", 0, call[p].want)
  /\ Goto(p, "link")
  /\ UNCHANGED <<at, files, receipt, locals, history>>

\* The no-replace rename to the receipt's name.
Link(p) ==
  /\ pc[p] = "link"
  /\ IF receipt = Nothing
       THEN /\ receipt' = temp[own[p]].bytes
            /\ Become(own[p], "gone", 0, Nothing) /\ Return(p, TRUE)
       ELSE Goto(p, "compare") /\ UNCHANGED <<receipt, temp, locals, confirmed>>
  /\ UNCHANGED <<at, files, lost, used>>

\* Only identical bytes are accepted; the temporary file is removed in any case.
Compare(p) ==
  /\ pc[p] = "compare"
  /\ ok' = [ok EXCEPT ![p] = receipt = call[p].want]
  /\ old' = [old EXCEPT ![p] = [file |-> own[p], turn |-> 0]]
  /\ Goto(p, "bury")
  /\ UNCHANGED <<disk, call, role, dir, todo, own, history>>
-------------------------------------------------------------------------------
\* _unlink_expected_entry_at: each rename expects the name the one before gave;
\* it raises when another process has taken the entry.

MoveOn(p, from, kind, turn, next) ==
  /\ IF Named(old[p], from)
       THEN /\ Become(old[p].file, kind, turn, temp[old[p].file].bytes)
            /\ old' = [old EXCEPT ![p] = [file |-> old[p].file, turn |-> turn]]
            /\ Goto(p, next)
            /\ UNCHANGED <<call, role, dir, todo, own, ok, confirmed>>
       ELSE Return(p, FALSE) /\ UNCHANGED temp
  /\ UNCHANGED <<at, files, receipt, lost, used>>

Bury(p) ==
  /\ pc[p] = "bury"
  /\ MoveOn(p, IF own[p] = Nothing THEN "rollback" ELSE "tmp", "delete", old[p].turn, "retire")

Retire(p) == pc[p] = "retire" /\ MoveOn(p, "delete", "rollback", old[p].turn + 1, "hide")

\* Into a directory of its own, which is removed with it.
Hide(p) == pc[p] = "hide" /\ MoveOn(p, "rollback", "private", old[p].turn, "unlink")

Unlink(p) ==
  /\ pc[p] = "unlink"
  /\ Become(old[p].file, "gone", 0, Nothing)
  /\ IF own[p] = Nothing
       THEN /\ Goto(p, "recover") /\ old' = [old EXCEPT ![p] = NoName]
            /\ UNCHANGED <<call, role, dir, todo, own, ok, confirmed>>
       ELSE Return(p, ok[p])
  /\ UNCHANGED <<at, files, receipt, lost, used>>
-------------------------------------------------------------------------------
\* A process dies; what it had staged stays under a name no later call makes.
Crash(p) ==
  /\ pc[p] # "idle" /\ used.crashes < MaxCrash
  /\ Reset(p)
  /\ at' = [d \in Dir |-> IF at[d] = p THEN "left" ELSE at[d]]
  /\ used' = [calls |-> used.calls, crashes |-> used.crashes + 1, losses |-> used.losses]
  /\ UNCHANGED <<files, receipt, temp, confirmed, lost>>

\* Somebody removes a publication: a checkout, a clean build.  The base snapshot
\* goes alone, when no revision is in it or on its way into it.
Removable(n) ==
  n = Base => /\ \A r \in Revision : At(r) = {}
              /\ \A p \in Process : call[p].key \notin Revision

Loss ==
  /\ used.losses < MaxLoss
  /\ \/ \E n \in Snapshot : \E d \in At(n) :
          /\ Removable(n)
          /\ at' = [at EXCEPT ![d] = "free"] /\ files' = [files EXCEPT ![d] = Hollow]
          /\ lost' = lost \cup {n} /\ UNCHANGED receipt
     \/ /\ receipt # Nothing /\ receipt' = Nothing
        /\ lost' = lost \cup {Receipt} /\ UNCHANGED <<at, files>>
  /\ used' = [calls |-> used.calls, crashes |-> used.crashes, losses |-> used.losses + 1]
  /\ UNCHANGED <<temp, pc, locals, confirmed>>

PublishStep(p) ==
  \/ Publish(p) \/ OpenParent(p) \/ Look(p) \/ MakeStaging(p) \/ WriteFile(p) \/ Seal(p)
  \/ Rename(p) \/ OpenWinner(p) \/ CheckBytes(p) \/ CheckPlace(p) \/ Cleanup(p)

WriteStep(p) ==
  \/ Write(p) \/ Scan(p) \/ Recover(p) \/ Create(p) \/ Fill(p) \/ Link(p) \/ Compare(p)
  \/ Bury(p) \/ Retire(p) \/ Hide(p) \/ Unlink(p)

Next == (\E p \in Process : PublishStep(p) \/ WriteStep(p) \/ Crash(p)) \/ Loss

Spec == Init /\ [][Next]_vars
-------------------------------------------------------------------------------
\* What is published at a name; a directory that only holds revisions is nothing.
Published(n) ==
  IF \E d \in At(n) : files[d] # Hollow THEN files[CHOOSE d \in At(n) : files[d] # Hollow]
  ELSE Nothing

Register == [n \in Snapshot \cup {Receipt} |-> IF n = Receipt THEN receipt ELSE Published(n)]

WO == INSTANCE WriteOnce WITH
        Key <- Snapshot \cup {Receipt}, Value <- Content \cup Bytes, NoValue <- Nothing,
        register <- Register, losses <- used.losses

\* Publication as a whole, by any number of concurrent calls and through crashes,
\* is a register that is written once: no name ever shows a part of a snapshot or
\* of a receipt, and nothing that is published changes or disappears unless
\* somebody else removes it.
ImplementsWriteOnce == WO!Spec

\* A call that returned told the truth: its bytes are at its name, whoever put them
\* there, as long as nobody else removed them.
Confirmed == \A c \in confirmed : c[1] \in lost \/ Register[c[1]] = c[2]

\* Without a crash the calls clean up after each other, even when one takes over the
\* removal another is in the middle of: when all have ended, no staging directory
\* and no temporary file remains.
NothingLeft ==
  (used.crashes = 0 /\ \A p \in Process : pc[p] = "idle") =>
    /\ \A d \in Dir : at[d] \in Snapshot \cup {"free"}
    /\ \A t \in Temp : temp[t].kind \in {"new", "gone"}
===============================================================================
