----------------------------- MODULE HelperSync ------------------------------
(***************************************************************************)
(* scripts/sync-publishing-signing-support.py: the canonical signing       *)
(* helper of this repository is rendered into one file of each sibling     *)
(* repository.  Nothing is locked: several calls, editors of the source    *)
(* and of the repository map, and other writers of the targets interleave. *)
(*                                                                         *)
(* A writing call checks all targets, stages a file beside each, replaces  *)
(* them one after the other, and on any failure puts the replaced ones     *)
(* back in reverse, each only while it still holds what the call wrote.    *)
(***************************************************************************)
EXTENDS Integers, FiniteSets

CONSTANTS
  Process,
  N,            \* number of signing repositories, in the order of the list
  Source,       \* contents of the canonical helper
  Alien,        \* other contents of a target
  Map,          \* contents of the repository map, heads of its worktrees included
  Mode,         \* file modes
  NewMode,      \* SAFE_NEW_FILE_MODE
  Absent,       \* no file, nothing read
  MaxCall, MaxFault, MaxEdit  \* bounds: calls, failures and crashes, writes by others

Repo == 1..N

\* render_generated_content: a header before the source.
Render(s) == [header |-> TRUE, body |-> s]
Payload   == [header : {TRUE}, body : Source] \cup [header : {FALSE}, body : Alien]
FileState == [payload : Payload, mode : Mode]

ASSUME SyncAssumption ==
  /\ N \in Nat \ {0} /\ NewMode \in Mode /\ Absent \notin FileState \cup Source \cup Map
  /\ MaxCall \in Nat /\ MaxFault \in Nat /\ MaxEdit \in Nat

VARIABLES
  source,    \* the canonical helper
  map,       \* the repository map
  file,      \* [Repo -> the helper of the repository, or Absent]
  staged,    \* [Process -> [Repo -> the temporary file beside it, or Absent]]
  pc,        \* [Process -> the statement]
  call,      \* [Process -> whether it writes, and the repositories it is for]
  canonical, \* [Process -> the source it read]
  snapshot,  \* [Process -> the repository map it read]
  prior,     \* [Process -> [Repo -> the target it read]]
  todo,      \* [Process -> what is left of the loop it is in]
  replaced,  \* [Process -> the targets to put back on a failure]
  conflict,  \* [Process -> whether putting back has failed]
  result,    \* [Process -> how its last call ended]
  alone,     \* history: [Process -> nobody else wrote a target during the call]
  wrote,     \* history: [Process -> targets the call has renamed a file to]
  old,       \* history: [Process -> the targets when its call began]
  used       \* history: the bounds used

inputs  == <<source, map>>
locals  == <<call, canonical, snapshot, prior, replaced, conflict, result>>
history == <<alone, wrote, old>>
vars    == <<inputs, file, staged, pc, todo, locals, history, used>>

\* What a target can hold that no call wrote.
Foreign == {Absent} \cup [payload : [header : {FALSE}, body : Alien], mode : Mode]

Nobody == [r \in Repo |-> Absent]

\* Statements of a writing call before and while it undoes.
Forward  == {"open", "stage", "assert", "replace", "readback", "postsource", "postmap"}
Backward == {"restore", "put", "relook", "unlink", "reread"}

Init ==
  /\ source \in Source /\ map \in Map
  /\ file \in [Repo -> Foreign]
  /\ staged = [p \in Process |-> Nobody] /\ pc = [p \in Process |-> "idle"]
  /\ call = [p \in Process |-> [write |-> FALSE, names |-> {}]]
  /\ canonical = [p \in Process |-> Absent] /\ snapshot = [p \in Process |-> Absent]
  /\ prior = [p \in Process |-> Nobody] /\ todo = [p \in Process |-> {}]
  /\ replaced = [p \in Process |-> {}] /\ conflict = [p \in Process |-> FALSE]
  /\ result = [p \in Process |-> "none"]
  /\ alone = [p \in Process |-> TRUE] /\ wrote = [p \in Process |-> {}]
  /\ old = [p \in Process |-> Nobody]
  /\ used = [calls |-> 0, faults |-> 0, edits |-> 0]

Goto(p, statement) == pc' = [pc EXCEPT ![p] = statement]

First(S) == CHOOSE r \in S : \A s \in S : r <= s
Last(S)  == CHOOSE r \in S : \A s \in S : s <= r

\* What the call writes: the mode of a file that was there is kept.
Desired(p, r) ==
  [payload |-> Render(canonical[p]),
   mode    |-> IF prior[p][r] = Absent THEN NewMode ELSE prior[p][r].mode]

\* _assert_unchanged
Unchanged(p, r) == file[r] = prior[p][r]

\* p writes a target; the other calls are not alone any more.
SetFile(p, r, content) ==
  /\ file' = [file EXCEPT ![r] = content]
  /\ alone' = [q \in Process |-> alone[q] /\ (q = p \/ pc[q] = "idle")]
  /\ UNCHANGED old

Over(p, how) == Goto(p, "over") /\ result' = [result EXCEPT ![p] = how]

\* A failure before anything was staged only raises; later it goes through the
\* handler of _write_all.
Throw(p) ==
  IF pc[p] \in Forward /\ call[p].write THEN Goto(p, "unstage") /\ UNCHANGED result
  ELSE Over(p, "failed")

\* The next statement of a loop over targets, and the one after the loop.
Loop(p, body, next, again) ==
  LET left == todo[p] \ {First(todo[p])} IN
    IF left # {} THEN Goto(p, body) /\ todo' = [todo EXCEPT ![p] = left]
    ELSE Goto(p, next) /\ todo' = [todo EXCEPT ![p] = again]
-------------------------------------------------------------------------------
\* The call begins with the repository map (_load_repository_map_snapshot).
Start(p) ==
  /\ pc[p] = "idle" /\ used.calls < MaxCall
  /\ \E names \in (SUBSET Repo) \ {{}}, write \in BOOLEAN :
       /\ call' = [call EXCEPT ![p] = [write |-> write, names |-> names]]
       /\ todo' = [todo EXCEPT ![p] = names]
  /\ Goto(p, "source")
  /\ snapshot' = [snapshot EXCEPT ![p] = map]
  /\ old' = [old EXCEPT ![p] = file]
  /\ used' = [calls |-> used.calls + 1, faults |-> used.faults, edits |-> used.edits]
  /\ UNCHANGED <<inputs, file, staged, canonical, prior, replaced, conflict, result, alone, wrote>>

\* _snapshot_source
ReadSource(p) ==
  /\ pc[p] = "source" /\ Goto(p, "read")
  /\ canonical' = [canonical EXCEPT ![p] = source]
  /\ UNCHANGED <<inputs, file, staged, todo, call, snapshot, prior, replaced, conflict, result, history, used>>

\* _read_target_state of the selected repositories.
ReadTarget(p) ==
  /\ pc[p] = "read"
  /\ LET r == First(todo[p]) IN
       prior' = [prior EXCEPT ![p] = [prior[p] EXCEPT ![r] = file[r]]]
  /\ Loop(p, "read", IF call[p].write THEN "presource" ELSE "premap", call[p].names)
  /\ UNCHANGED <<inputs, file, staged, call, canonical, snapshot, replaced, conflict, result, history, used>>

\* The source is compared again before the writes and after them.
CheckSource(p) ==
  /\ pc[p] \in {"presource", "postsource"}
  /\ IF source = canonical[p]
       THEN Goto(p, IF pc[p] = "presource" THEN "premap" ELSE "postmap") /\ UNCHANGED result
       ELSE Throw(p)
  /\ UNCHANGED <<inputs, file, staged, todo, call, canonical, snapshot, prior, replaced, conflict, history, used>>

\* Mutant: only missing targets are drift.
DriftedMissing(p) == {r \in call[p].names : prior[p][r] = Absent}

\* What --check reports, from the targets as they were read.
Drifted(p) == {r \in call[p].names : prior[p][r] = Absent \/ prior[p][r].payload # Render(canonical[p])}

\* _assert_repository_map_stable
CheckMap(p) ==
  /\ pc[p] \in {"premap", "postmap"}
  /\ IF map # snapshot[p] THEN Throw(p)
     ELSE IF pc[p] = "premap"
       THEN Goto(p, IF call[p].write THEN "open" ELSE "postsource") /\ UNCHANGED result
     ELSE Over(p, IF call[p].write \/ Drifted(p) = {} THEN "ok" ELSE "drift")
  /\ UNCHANGED <<inputs, file, staged, todo, call, canonical, snapshot, prior, replaced, conflict, history, used>>
-------------------------------------------------------------------------------
\* _write_all

Open(p) ==
  /\ pc[p] = "open"
  /\ IF Unchanged(p, First(todo[p])) THEN Loop(p, "open", "stage", call[p].names) /\ UNCHANGED result
     ELSE Throw(p) /\ UNCHANGED todo
  /\ UNCHANGED <<inputs, file, staged, call, canonical, snapshot, prior, replaced, conflict, history, used>>

\* _stage_file for every target; what a failure in between leaves is removed.
Stage(p) ==
  /\ pc[p] = "stage" /\ Goto(p, "assert")
  /\ staged' = [staged EXCEPT ![p] =
                  [r \in Repo |-> IF r \in call[p].names THEN Desired(p, r) ELSE Absent]]
  /\ UNCHANGED <<inputs, file, todo, locals, history, used>>

\* Mutant: the target is registered when it has been replaced.
RegisterLate(p) ==
  /\ pc[p] = "assert"
  /\ LET r == First(todo[p]) IN
       IF Unchanged(p, r)
         THEN /\ replaced' = [replaced EXCEPT ![p] = replaced[p] \cup (call[p].names \ todo[p])]
              /\ Goto(p, "replace") /\ UNCHANGED result
         ELSE Throw(p) /\ UNCHANGED replaced
  /\ UNCHANGED <<inputs, file, staged, todo, call, canonical, snapshot, prior, conflict, history, used>>

\* The target is registered before the system call that replaces it.
Register(p) ==
  /\ pc[p] = "assert"
  /\ LET r == First(todo[p]) IN
       IF Unchanged(p, r)
         THEN /\ replaced' = [replaced EXCEPT ![p] = replaced[p] \cup {r}]
              /\ Goto(p, "replace") /\ UNCHANGED result
         ELSE Throw(p) /\ UNCHANGED replaced
  /\ UNCHANGED <<inputs, file, staged, todo, call, canonical, snapshot, prior, conflict, history, used>>

\* os.replace does not look at what it replaces.
Replace(p) ==
  /\ pc[p] = "replace" /\ Goto(p, "readback")
  /\ LET r == First(todo[p]) IN
       /\ SetFile(p, r, staged[p][r]) /\ wrote' = [wrote EXCEPT ![p] = wrote[p] \cup {r}]
       /\ staged' = [staged EXCEPT ![p] = [staged[p] EXCEPT ![r] = Absent]]
  /\ UNCHANGED <<inputs, todo, locals, used>>

ReadBack(p) ==
  /\ pc[p] = "readback"
  /\ LET r == First(todo[p]) IN
       IF file[r] = Desired(p, r) THEN Loop(p, "assert", "postsource", {}) /\ UNCHANGED result
       ELSE Throw(p) /\ UNCHANGED todo
  /\ UNCHANGED <<inputs, file, staged, call, canonical, snapshot, prior, replaced, conflict, history, used>>
-------------------------------------------------------------------------------
\* The handler of _write_all and _restore_state.

\* _remove_staged
Unstage(p) ==
  /\ pc[p] = "unstage" /\ Goto(p, "restore")
  /\ staged' = [staged EXCEPT ![p] = Nobody]
  /\ UNCHANGED <<inputs, file, todo, locals, history, used>>

\* The last target is put back, or its restoration has failed, and the one before is next.
Restored(p, failed) ==
  /\ Goto(p, "restore")
  /\ replaced' = [replaced EXCEPT ![p] = replaced[p] \ {Last(replaced[p])}]
  /\ conflict' = [conflict EXCEPT ![p] = conflict[p] \/ failed]
  /\ staged' = [staged EXCEPT ![p] = Nobody]
  /\ UNCHANGED <<inputs, todo, call, canonical, snapshot, prior, result, used>>

Keep(p, statement) == Goto(p, statement) /\ UNCHANGED <<inputs, todo, locals, used>>

\* The compare-and-set of the rollback: the bytes and the mode decide.
StillDesired(p, r) == file[r] = Desired(p, r)

Restore(p) ==
  /\ pc[p] = "restore"
  /\ IF replaced[p] = {}
       THEN /\ Over(p, IF conflict[p] THEN "conflict" ELSE "failed")
            /\ UNCHANGED <<inputs, staged, todo, call, canonical, snapshot, prior, replaced, conflict, used>>
     ELSE LET r == Last(replaced[p]) IN
       IF ~StillDesired(p, r) THEN Restored(p, TRUE)
       ELSE Keep(p, IF prior[p][r] = Absent THEN "relook" ELSE "put") /\ UNCHANGED staged
  /\ UNCHANGED <<file, history>>

\* The prior bytes are staged with the prior mode and renamed over the target.
PutBack(p) ==
  /\ pc[p] = "put"
  /\ LET r == Last(replaced[p]) IN SetFile(p, r, prior[p][r])
  /\ Keep(p, "reread") /\ UNCHANGED <<staged, wrote>>

\* A file that was not there before: it is looked for once more and unlinked.
LookAgain(p) ==
  /\ pc[p] = "relook"
  /\ IF file[Last(replaced[p])] = Absent THEN Restored(p, FALSE)
     ELSE Keep(p, "unlink") /\ UNCHANGED staged
  /\ UNCHANGED <<file, history>>

Unlink(p) ==
  /\ pc[p] = "unlink"
  /\ IF file[Last(replaced[p])] = Absent THEN Restored(p, TRUE) /\ UNCHANGED <<file, history>>
     ELSE SetFile(p, Last(replaced[p]), Absent) /\ Keep(p, "reread") /\ UNCHANGED <<staged, wrote>>

Reread(p) ==
  /\ pc[p] = "reread"
  /\ Restored(p, ~Unchanged(p, Last(replaced[p])))
  /\ UNCHANGED <<file, history>>
-------------------------------------------------------------------------------
\* The process is at rest and remembers nothing.
Rest(p) ==
  /\ Goto(p, "idle")
  /\ call' = [call EXCEPT ![p] = [write |-> FALSE, names |-> {}]]
  /\ canonical' = [canonical EXCEPT ![p] = Absent] /\ snapshot' = [snapshot EXCEPT ![p] = Absent]
  /\ prior' = [prior EXCEPT ![p] = Nobody] /\ todo' = [todo EXCEPT ![p] = {}]
  /\ replaced' = [replaced EXCEPT ![p] = {}] /\ conflict' = [conflict EXCEPT ![p] = FALSE]
  /\ result' = [result EXCEPT ![p] = "none"] /\ staged' = [staged EXCEPT ![p] = Nobody]
  /\ alone' = [alone EXCEPT ![p] = TRUE] /\ wrote' = [wrote EXCEPT ![p] = {}]
  /\ old' = [old EXCEPT ![p] = Nobody]
  /\ UNCHANGED <<inputs, file>>

\* The call has returned or raised; the caller goes on.
Exit(p) == pc[p] = "over" /\ Rest(p) /\ UNCHANGED used

Faulty ==
  /\ used.faults < MaxFault
  /\ used' = [calls |-> used.calls, faults |-> used.faults + 1, edits |-> used.edits]

\* A system call fails or an interrupt arrives.  In a restoration it counts as a
\* failure to restore; in the handler before the restorations it escapes.
Fail(p) ==
  /\ pc[p] \notin {"idle", "over"} /\ Faulty
  /\ IF pc[p] \in Backward /\ replaced[p] # {}
       THEN /\ Goto(p, "restore")
            /\ replaced' = [replaced EXCEPT ![p] = replaced[p] \ {Last(replaced[p])}]
            /\ conflict' = [conflict EXCEPT ![p] = TRUE]
            /\ staged' = [staged EXCEPT ![p] = Nobody] /\ UNCHANGED result
     ELSE IF pc[p] \in {"unstage", "restore"}
       THEN /\ Over(p, "interrupted") /\ staged' = [staged EXCEPT ![p] = Nobody]
            /\ UNCHANGED <<replaced, conflict>>
     ELSE Throw(p) /\ UNCHANGED <<staged, replaced, conflict>>
  /\ UNCHANGED <<inputs, file, todo, call, canonical, snapshot, prior, history>>

\* The process dies; its temporary files stay under names nobody looks for.
Crash(p) == pc[p] \notin {"idle", "over"} /\ Faulty /\ Rest(p)

\* Somebody else changes an input or a target.
Edit ==
  /\ used.edits < MaxEdit
  /\ used' = [calls |-> used.calls, faults |-> used.faults, edits |-> used.edits + 1]
  /\ \/ source' \in Source /\ UNCHANGED <<map, file, history>>
     \/ map' \in Map /\ UNCHANGED <<source, file, history>>
     \/ \E r \in Repo, content \in Foreign \cup {[payload |-> Render(source), mode |-> NewMode]} :
          /\ file' = [file EXCEPT ![r] = content]
          /\ alone' = [q \in Process |-> pc[q] = "idle"]
          /\ UNCHANGED <<inputs, wrote, old>>
  /\ UNCHANGED <<staged, pc, todo, locals>>

Step(p) ==
  \/ Start(p) \/ ReadSource(p) \/ ReadTarget(p) \/ CheckSource(p) \/ CheckMap(p)
  \/ Open(p) \/ Stage(p) \/ Register(p) \/ Replace(p) \/ ReadBack(p)
  \/ Unstage(p) \/ Restore(p) \/ PutBack(p) \/ LookAgain(p) \/ Unlink(p)
  \/ Reread(p) \/ Exit(p) \/ Fail(p) \/ Crash(p)

Next == (\E p \in Process : Step(p)) \/ Edit

Spec == Init /\ [][Next]_vars
-------------------------------------------------------------------------------
\* A call that nobody interfered with and that reports a plain failure has changed
\* nothing: whatever failed, at whichever target, all the targets it had replaced
\* are back, with their modes, or absent again.
Undone ==
  \A p \in Process : (pc[p] = "over" /\ result[p] = "failed" /\ alone[p]) => file = old[p]

\* A call that nobody interfered with tells the truth when it ends: after "ok" of a
\* write every selected target is the rendered source it read, after "ok" of a check
\* it has that payload, and "drift" names a target that differs.
Truthful ==
  \A p \in Process : (pc[p] = "over" /\ alone[p]) =>
    /\ result[p] = "ok" => \A r \in call[p].names :
         /\ file[r] # Absent /\ file[r].payload = Render(canonical[p])
         /\ call[p].write => file[r] = Desired(p, r)
    /\ result[p] = "drift" => \E r \in call[p].names :
         file[r] = Absent \/ file[r].payload # Render(canonical[p])
===============================================================================
