---------------------------- MODULE SyncInvariant ----------------------------
(***************************************************************************)
(* The inductive invariant of HelperSync.                                  *)
(***************************************************************************)
EXTENDS HelperSync

Reading   == {"source", "read", "presource", "premap"}
Replacing == {"assert", "replace", "readback"}
Checked   == {"postsource", "postmap"}
Statement == {"idle", "unstage", "over"} \cup Reading \cup Forward \cup Backward

TypeOK ==
  /\ source \in Source /\ map \in Map
  /\ file \in [Repo -> FileState \cup {Absent}]
  /\ staged \in [Process -> [Repo -> FileState \cup {Absent}]]
  /\ pc \in [Process -> Statement]
  /\ call \in [Process -> [write : BOOLEAN, names : SUBSET Repo]]
  /\ canonical \in [Process -> Source \cup {Absent}] /\ snapshot \in [Process -> Map \cup {Absent}]
  /\ prior \in [Process -> [Repo -> FileState \cup {Absent}]]
  /\ todo \in [Process -> SUBSET Repo] /\ replaced \in [Process -> SUBSET Repo]
  /\ conflict \in [Process -> BOOLEAN]
  /\ result \in [Process -> {"none", "ok", "drift", "failed", "conflict", "interrupted"}]
  /\ alone \in [Process -> BOOLEAN] /\ wrote \in [Process -> SUBSET Repo]
  /\ old \in [Process -> [Repo -> FileState \cup {Absent}]]
  /\ used \in [calls : 0..MaxCall, faults : 0..MaxFault, edits : 0..MaxEdit]

\* The loops: what is left of them, and what they have registered for a rollback.
LoopOK(p) ==
  /\ todo[p] \subseteq call[p].names /\ replaced[p] \subseteq call[p].names
  /\ pc[p] \in {"read", "open", "stage"} \cup Replacing => todo[p] # {}
  /\ pc[p] \in {"source", "presource", "premap", "stage"} => todo[p] = call[p].names /\ todo[p] # {}
  /\ pc[p] \in {"open", "stage", "unstage"} \cup Replacing \cup Backward => call[p].write
  /\ pc[p] \in Reading \cup {"idle", "open", "stage"} => replaced[p] = {}
  /\ pc[p] = "assert" => replaced[p] = call[p].names \ todo[p]
  /\ pc[p] \in {"replace", "readback"} =>
       replaced[p] = (call[p].names \ todo[p]) \cup {First(todo[p])}
  /\ pc[p] \in Checked => replaced[p] = IF call[p].write THEN call[p].names ELSE {}
  /\ pc[p] \in Backward \ {"restore"} => replaced[p] # {}
  /\ pc[p] \in {"relook", "unlink"} => prior[p][Last(replaced[p])] = Absent
  /\ pc[p] \in Reading \cup Forward \cup {"idle", "unstage"} => ~conflict[p]
  /\ pc[p] \notin {"idle", "source", "over"} => canonical[p] # Absent

\* Temporary files: what they hold, and that none is left when the call ends.
StagedOK(p) ==
  /\ pc[p] \in Reading \cup Checked \cup Backward \cup {"idle", "open", "stage", "over"}
       => staged[p] = Nobody
  /\ pc[p] \in {"assert", "replace"} => \A r \in Repo :
       staged[p][r] = IF r \in todo[p] THEN Desired(p, r) ELSE Absent
  /\ pc[p] = "readback" => \A r \in Repo :
       staged[p][r] = IF r \in todo[p] \ {First(todo[p])} THEN Desired(p, r) ELSE Absent

\* While nobody interferes, what a call has read is what was there when it began.
PriorOK(p) ==
  /\ pc[p] = "read" => \A r \in call[p].names \ todo[p] : prior[p][r] = old[p][r]
  /\ pc[p] \in {"presource", "premap", "unstage"} \cup Forward \cup Backward
       => \A r \in call[p].names : prior[p][r] = old[p][r]

\* Every target holds what it held, or it is registered and holds what the call writes,
\* or it could not be put back.
Mixed(p) == \A r \in Repo :
  /\ r \in replaced[p] => file[r] \in {old[p][r], Desired(p, r)}
  /\ r \notin replaced[p] => file[r] = old[p][r] \/ conflict[p]

Written(p, S) == \A r \in S : file[r] = Desired(p, r)

\* The targets, while nobody interferes.
FileOK(p) ==
  /\ pc[p] \in Reading \cup {"open", "stage"} => file = old[p]
  /\ pc[p] \in Replacing \cup Checked \cup {"unstage"} \cup Backward => Mixed(p)
  /\ pc[p] = "assert" => Written(p, replaced[p])
  /\ pc[p] \in {"replace", "readback"} => Written(p, replaced[p] \ {First(todo[p])})
  /\ pc[p] \in Checked /\ call[p].write => Written(p, replaced[p])
  /\ pc[p] \in Checked /\ ~call[p].write => file = old[p]
  /\ pc[p] = "reread" => Unchanged(p, Last(replaced[p]))

Loops       == \A p \in Process : LoopOK(p)
StagedRight == \A p \in Process : StagedOK(p)
PriorRight  == \A p \in Process : alone[p] => PriorOK(p)
FileRight   == \A p \in Process : alone[p] => FileOK(p)

SyncInv == TypeOK /\ Loops /\ StagedRight /\ PriorRight /\ FileRight /\ Undone /\ Truthful
===============================================================================
