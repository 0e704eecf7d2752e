--------------------------- MODULE CandidateLedger ---------------------------
(***************************************************************************)
(* scripts/catalog_candidate.py: a candidate of the catalog is prepared by *)
(* binding its inputs into the genesis record of a ledger and into a       *)
(* manifest, and the manifest is verified before each use.                 *)
(*                                                                         *)
(* The ledger is appended to under flock; the manifest is replaced without *)
(* a lock; inputs are files that others edit, read one after the other and *)
(* more than once.                                                         *)
(***************************************************************************)
EXTENDS Naturals, Sequences, FiniteSets

CONSTANTS
  Process,
  Value,      \* contents of an input
  Nothing,    \* no content, no process
  MaxCall, MaxEdit, MaxCrash, MaxRecord  \* bounds: calls, edits of inputs, crashes,
                                         \*   records of the ledger

\* The repository map names the commits; "tree" stands for the files checked out
\* (the catalogs), "aside" for the inputs that are only digested (disposition,
\* cache manifest, human ledger), "review" for the provenance of a commit.
Input   == {"map", "tree", "aside", "review"}
Field   == {"map", "head", "tree", "aside"}
Binding == [Field -> Value]
Unread  == [f \in Field |-> Nothing]

\* A manifest: the digests, and the genesis record of the ledger it belongs to.
Manifest == [seen : Binding, bound : Binding]

ASSUME LedgerAssumption ==
  /\ Nothing \notin Value \cup Process \cup Binding \cup Manifest
  /\ MaxCall \in Nat /\ MaxEdit \in Nat /\ MaxCrash \in Nat /\ MaxRecord \in Nat

VARIABLES
  content,   \* [Input -> the bytes of the file]
  token,     \* the fencing token in the ledger, or Nothing
  ledger,    \* the payloads of its records; <<>> when there is no file
  holder,    \* who has the flock
  manifest,  \* what is at the manifest's name, or Nothing
  pc,        \* [Process -> the statement its call is at]
  kind,      \* [Process -> its call]
  phase,     \* [Process -> binding inputs, making the manifest, or checking it]
  got,       \* [Process -> what it has read of the inputs]
  bound,     \* [Process -> the token it uses]
  doc,       \* [Process -> the manifest it has read]
  id,        \* [Process -> the manifest it took the digest of]
  acked,     \* history: the records that calls returned, with their sequence
  verified,  \* history: the manifests that passed verification
  used       \* history: the bounds used

shared    == <<content, token, ledger, holder, manifest>>
memory    == <<phase, got, bound, doc, id>>
candidate == <<shared, pc, kind, memory, acked, verified, used>>

Init ==
  /\ \E v \in Value : content = [i \in Input |-> v]
  /\ token = Nothing /\ ledger = <<>> /\ holder = Nothing /\ manifest = Nothing
  /\ pc = [p \in Process |-> "idle"] /\ kind = [p \in Process |-> "none"]
  /\ phase = [p \in Process |-> "bind"] /\ got = [p \in Process |-> Unread]
  /\ bound = [p \in Process |-> Nothing] /\ doc = [p \in Process |-> Nothing]
  /\ id = [p \in Process |-> Nothing]
  /\ acked = {} /\ verified = {} /\ used = [calls |-> 0, edits |-> 0, crashes |-> 0]

Goto(p, statement) == pc' = [pc EXCEPT ![p] = statement]

Forget(p) ==
  /\ phase' = [phase EXCEPT ![p] = "bind"] /\ got' = [got EXCEPT ![p] = Unread]
  /\ bound' = [bound EXCEPT ![p] = Nothing] /\ doc' = [doc EXCEPT ![p] = Nothing]
  /\ id' = [id EXCEPT ![p] = Nothing]

\* The call returns or raises.
Return(p) == Goto(p, "idle") /\ kind' = [kind EXCEPT ![p] = "none"] /\ Forget(p)

Call(p, what) ==
  /\ pc[p] = "idle" /\ used.calls < MaxCall
  /\ kind' = [kind EXCEPT ![p] = what]
  /\ used' = [calls |-> used.calls + 1, edits |-> used.edits, crashes |-> used.crashes]
  /\ UNCHANGED <<shared, acked, verified>>

Prepare(p) ==
  /\ Call(p, "prepare") /\ Goto(p, "load") /\ UNCHANGED memory

\* verify_candidate_manifest, which prepare ends with, a stage begins with, and the
\* verify command consists of; by itself it changes nothing.
Check(p) ==
  /\ Goto(p, "open") /\ phase' = [phase EXCEPT ![p] = "check"]

\* append_ledger_record, by a holder of the manifest.
Note(p) ==
  /\ manifest # Nothing /\ Len(ledger) < MaxRecord /\ Call(p, "append") /\ Goto(p, "flock")
  /\ bound' = [bound EXCEPT ![p] = manifest.bound] /\ UNCHANGED <<phase, got, doc, id>>
-------------------------------------------------------------------------------
\* Inputs

Keep(p, f, v) == got' = [got EXCEPT ![p] = [g \in Field |-> IF g = f THEN v ELSE got[p][g]]]

Step(p, statement) == Goto(p, statement) /\ UNCHANGED <<kind, phase, bound, doc, id>>

\* load_repository_map reads which commits are expected ...
Load(p) ==
  /\ pc[p] = "load"
  /\ Keep(p, "head", content["map"]) /\ Step(p, "validate")
  /\ UNCHANGED <<shared, acked, verified, used>>

\* ... and _validate_repository that each worktree is clean and at its commit.
Validate(p) ==
  /\ pc[p] = "validate"
  /\ IF content["tree"] = got[p]["head"] THEN Step(p, "tree") /\ UNCHANGED got ELSE Return(p)
  /\ UNCHANGED <<shared, acked, verified, used>>

\* create_catalog_lock; verification compares it with the lock in the manifest.
ReadTree(p) ==
  /\ pc[p] = "tree"
  /\ IF phase[p] # "check"
       THEN Keep(p, "tree", content["tree"]) /\ Step(p, "map") /\ UNCHANGED verified
     ELSE IF got[p]["head"] = doc[p].seen["head"] /\ content["tree"] = doc[p].seen["tree"]
       THEN Step(p, "digest") /\ verified' = verified \cup {doc[p]} /\ UNCHANGED got
     ELSE Return(p) /\ UNCHANGED verified
  /\ UNCHANGED <<shared, acked, used>>

\* A digest is recorded, or compared (_verify_observation).
Observe(p, f, next) ==
  /\ IF phase[p] # "check" THEN Keep(p, f, content[f]) /\ Step(p, next)
     ELSE IF content[f] = doc[p].seen[f] THEN Step(p, next) /\ UNCHANGED got
     ELSE Return(p)
  /\ UNCHANGED <<shared, acked, verified, used>>

ReadMap(p) == pc[p] = "map" /\ Observe(p, "map", "aside")

ReadAside(p) ==
  /\ pc[p] = "aside"
  /\ Observe(p, "aside", CASE phase[p] = "bind" -> "flock" [] phase[p] = "make" -> "write"
                           [] phase[p] = "check" -> "ledger")
-------------------------------------------------------------------------------
\* The ledger

\* Mutant: the lock is not waited for.
FlockNone(p) ==
  /\ pc[p] = "flock"
  /\ holder' = p /\ Goto(p, "read")
  /\ bound' = [bound EXCEPT ![p] = IF kind[p] = "append" THEN bound[p] ELSE got[p]]
  /\ UNCHANGED <<content, token, ledger, manifest, kind, phase, got, doc, id, acked, verified, used>>

\* The token of prepare is the digest of what it has read.
Flock(p) ==
  /\ pc[p] = "flock" /\ holder = Nothing
  /\ holder' = p /\ Goto(p, "read")
  /\ bound' = [bound EXCEPT ![p] = IF kind[p] = "append" THEN bound[p] ELSE got[p]]
  /\ UNCHANGED <<content, token, ledger, manifest, kind, phase, got, doc, id, acked, verified, used>>

\* The payload of the record it wants in the ledger.
Payload(p) == IF kind[p] = "append" THEN p ELSE bound[p]

Exists == ledger # <<>>

\* read_ledger refuses another token.  A genesis that is there is returned if its
\* inputs are the same; otherwise the record is appended.
Read(p) ==
  /\ pc[p] = "read"
  /\ IF Exists /\ (token # bound[p] \/ (kind[p] = "prepare" /\ ledger[1] # Payload(p)))
       THEN Return(p) /\ holder' = Nothing
     ELSE /\ UNCHANGED <<holder, kind, memory>>
          /\ Goto(p, IF Exists /\ kind[p] = "prepare" THEN "unlock" ELSE "replace")
  /\ UNCHANGED <<content, token, ledger, manifest, acked, verified, used>>

\* write_atomic of the ledger with one record more.
Replace(p) ==
  /\ pc[p] = "replace"
  /\ ledger' = Append(ledger, Payload(p)) /\ token' = bound[p] /\ Goto(p, "unlock")
  /\ UNCHANGED <<content, holder, manifest, kind, memory, acked, verified, used>>

\* The record is returned: to prepare the first, to append the last.
Unlock(p) ==
  /\ pc[p] = "unlock"
  /\ holder' = Nothing
  /\ acked' = acked \cup {[sequence |-> IF kind[p] = "append" THEN Len(ledger) ELSE 1,
                           payload |-> Payload(p)]}
  /\ IF kind[p] = "append" THEN Return(p)
     ELSE /\ Goto(p, "tree") /\ phase' = [phase EXCEPT ![p] = "make"]
          /\ UNCHANGED <<kind, got, bound, doc, id>>
  /\ UNCHANGED <<content, token, ledger, manifest, verified, used>>
-------------------------------------------------------------------------------
\* The manifest

Made(p) == [seen |-> got[p], bound |-> bound[p]]

\* write_atomic, without the lock ...
Write(p) ==
  /\ pc[p] = "write"
  /\ manifest' = Made(p) /\ Goto(p, "compare")
  /\ UNCHANGED <<content, token, ledger, holder, kind, memory, acked, verified, used>>

\* ... and its read-back.
Compare(p) ==
  /\ pc[p] = "compare"
  /\ IF manifest = Made(p) THEN Check(p) /\ UNCHANGED <<kind, got, bound, doc, id>>
     ELSE Return(p)
  /\ UNCHANGED <<shared, acked, verified, used>>

\* What is at the name by now is verified.
Open(p) ==
  /\ pc[p] = "open"
  /\ IF manifest = Nothing THEN Return(p)
     ELSE /\ doc' = [doc EXCEPT ![p] = manifest] /\ Goto(p, "map")
          /\ UNCHANGED <<kind, phase, got, bound, id>>
  /\ UNCHANGED <<shared, acked, verified, used>>

CheckLedger(p) ==
  /\ pc[p] = "ledger"
  /\ IF Exists /\ token = doc[p].bound /\ ledger[1] = doc[p].bound
       THEN Step(p, "load") /\ UNCHANGED got ELSE Return(p)
  /\ UNCHANGED <<shared, acked, verified, used>>

\* The digest that is printed, or that identifies the manifest for the stage, is
\* that of one more read.
Digest(p) ==
  /\ pc[p] = "digest"
  /\ IF kind[p] = "run"
       THEN /\ id' = [id EXCEPT ![p] = manifest] /\ Goto(p, "root")
            /\ UNCHANGED <<kind, phase, got, bound, doc>>
       ELSE Return(p)
  /\ UNCHANGED <<shared, acked, verified, used>>
-------------------------------------------------------------------------------
\* A process dies; the kernel takes its lock back.
Die(p) ==
  /\ pc[p] # "idle" /\ used.crashes < MaxCrash
  /\ Return(p) /\ holder' = IF holder = p THEN Nothing ELSE holder
  /\ used' = [calls |-> used.calls, edits |-> used.edits, crashes |-> used.crashes + 1]
  /\ UNCHANGED <<content, token, ledger, manifest, acked, verified>>

\* Somebody edits an input, or checks out another commit.
Edit ==
  /\ used.edits < MaxEdit
  /\ \E i \in Input, v \in Value : v # content[i] /\ content' = [content EXCEPT ![i] = v]
  /\ used' = [calls |-> used.calls, edits |-> used.edits + 1, crashes |-> used.crashes]
  /\ UNCHANGED <<token, ledger, holder, manifest, pc, kind, memory, acked, verified>>

CandidateStep(p) ==
  \/ Prepare(p) \/ Note(p)
  \/ Load(p) \/ Validate(p) \/ ReadTree(p) \/ ReadMap(p) \/ ReadAside(p)
  \/ Flock(p) \/ Read(p) \/ Replace(p) \/ Unlock(p)
  \/ Write(p) \/ Compare(p) \/ Open(p) \/ CheckLedger(p) \/ Digest(p)
-------------------------------------------------------------------------------
\* A record that a call returned stays in the ledger at its sequence, whoever else
\* appends or prepares at the same time and whoever dies; in particular one genesis
\* stays the first, and every manifest that ever passed verification names it.
Recorded ==
  /\ \A a \in acked : a.sequence \in DOMAIN ledger /\ ledger[a.sequence] = a.payload
  /\ \A m \in verified : Exists /\ ledger[1] = m.bound
===============================================================================
