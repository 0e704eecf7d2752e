--------------------------- MODULE StagesInvariant ---------------------------
(***************************************************************************)
(* The inductive invariant of CandidateLedger and StagedValidation: what a *)
(* process at each statement may rely on, about the ledger while it has    *)
(* the lock, and about the evidence although it has none.                  *)
(***************************************************************************)
EXTENDS StagedValidation

Kind == {"none", "prepare", "append", "run"}

Reading == {"load", "validate", "tree", "map", "aside"}
Locked  == {"read", "replace", "unlock"}
Checked == {"open", "map", "aside", "ledger", "load", "validate", "tree", "digest"}
Begun   == {"root", "prior", "own"} \cup Inside
InJob   == {"job", "launch", "wait", "receipt"}

Statement == {"idle", "flock", "write", "compare"} \cup Reading \cup Locked \cup Checked \cup Begun

\* Well-typed shared state: the inputs, the ledger and its lock, the manifest.
SharedOK ==
  /\ content \in [Input -> Value] /\ token \in Binding \cup {Nothing}
  /\ ledger \in Seq(Binding \cup Process) /\ holder \in Process \cup {Nothing}
  /\ manifest \in Manifest \cup {Nothing}
  /\ acked \in SUBSET [sequence : Nat, payload : Binding \cup Process]
  /\ verified \in SUBSET Manifest
  /\ used \in [calls : Nat, edits : Nat, crashes : Nat]

\* Well-typed processes.
MemoryOK ==
  /\ pc \in [Process -> Statement]
  /\ kind \in [Process -> Kind] /\ phase \in [Process -> {"bind", "make", "check"}]
  /\ got \in [Process -> [Field -> Value \cup {Nothing}]]
  /\ bound \in [Process -> Binding \cup {Nothing}]
  /\ doc \in [Process -> Manifest \cup {Nothing}] /\ id \in [Process -> Manifest \cup {Nothing}]

\* Well-typed stages and evidence.
StagesOK ==
  /\ aggregate \in [Value \X Stage -> Aggregate \cup {Nothing}]
  /\ opening \in [Value \X Stage -> Manifest \cup {Nothing}]
  /\ evidence \in [Value \X Job -> Receipt \cup {Log, Nothing}]
  /\ inventory \in [Value -> Manifest \cup {Nothing}]
  /\ stage \in [Process -> Stage] /\ prior \in [Process -> Aggregate \cup {Nothing}]
  /\ done \in [Process -> Nat] /\ outcome \in [Process -> Outcome]
  /\ overlapped \in SUBSET (Value \X Stage)

\* Which call is at which statement, in which phase.
PhaseOK(p) ==
  /\ pc[p] = "idle" <=> kind[p] = "none"
  /\ pc[p] = "idle" => phase[p] = "bind"
  /\ pc[p] \in Locked \cup {"flock"} => kind[p] \in {"prepare", "append"} /\ phase[p] = "bind"
  /\ kind[p] = "append" => pc[p] \in Locked \cup {"flock"}
  /\ pc[p] \in {"write", "compare"} => kind[p] = "prepare" /\ phase[p] = "make"
  /\ (pc[p] \in Reading /\ phase[p] # "check") => kind[p] = "prepare"
  /\ (pc[p] \in {"load", "validate"} /\ phase[p] # "check") => phase[p] = "bind"
  /\ pc[p] \in {"open", "ledger", "digest"} => phase[p] = "check"
  /\ phase[p] = "check" => pc[p] \in Checked \cup Begun
  /\ pc[p] \in Begun => kind[p] = "run" /\ phase[p] = "check"

\* Digests are taken in order; the token needs all of them.
TakenOK(p) ==
  /\ (pc[p] \in Reading \ {"load"} /\ phase[p] # "check") => got[p]["head"] \in Value
  /\ (pc[p] \in {"map", "aside"} /\ phase[p] # "check") => got[p]["tree"] \in Value
  /\ (pc[p] = "aside" /\ phase[p] # "check") => got[p]["map"] \in Value
  /\ (kind[p] = "prepare" /\ (phase[p] = "make" \/ pc[p] \in Locked \cup {"flock"})) =>
        got[p] \in Binding
  /\ (pc[p] \in Locked \/ kind[p] = "append" \/ phase[p] = "make") => bound[p] \in Binding
  /\ (phase[p] = "check" /\ pc[p] # "open") => doc[p] \in Manifest
  /\ pc[p] \in Begun => id[p] \in Manifest

\* Who is between the lock and its release has it.
LockOK(p) == pc[p] \in Locked <=> holder = p

\* Every process past its record, and every manifest it has read, has the token; who is
\* about to write a genesis knows there is none.
BoundOK(p) ==
  /\ (kind[p] = "append" \/ phase[p] = "make") => Exists /\ token = bound[p]
  /\ doc[p] # Nothing => Exists /\ manifest # Nothing /\ token = doc[p].bound
  /\ (pc[p] = "replace" /\ kind[p] = "prepare") => ~Exists
  /\ pc[p] = "unlock" => /\ Exists /\ token = bound[p]
                         /\ kind[p] = "append" => ledger[Len(ledger)] = p

Phases    == \A p \in Process : PhaseOK(p)
Taken     == \A p \in Process : TakenOK(p)
LockOwned == \A p \in Process : LockOK(p)

\* The genesis is the token, and the manifest has it.
Genesis ==
  /\ Exists => ledger[1] = token
  /\ manifest # Nothing => Exists /\ token = manifest.bound
  /\ \A p \in Process : BoundOK(p)

LedgerInv == SharedOK /\ MemoryOK /\ Phases /\ Taken /\ LockOwned /\ Genesis /\ Recorded

\* Two runners at one stage are known to be, and who is there alone has found no
\* aggregate and will find none.
AloneOK(p) == pc[p] \in Inside =>
  /\ \A q \in Company(p) : Place(p) \in overlapped
  /\ Place(p) \in overlapped \/ aggregate[Place(p)] = Nothing

\* What was read of the stage before is still there.
PriorOK(p) == (pc[p] \in Inside \cup {"own"} /\ prior[p] # Nothing) =>
  /\ stage[p] > 1
  /\ \/ <<Catalog(p), stage[p] - 1>> \in overlapped
     \/ aggregate[<<Catalog(p), stage[p] - 1>>] = prior[p]

\* Only a stage that may go on gets past its guard; its verdict fits the stage.
GuardOK(p) ==
  /\ (pc[p] \in Inside \ {"guard", "aggregate"} \/
      (pc[p] = "aggregate" /\ outcome[p].status # "BLOCKED")) => Preceded(p)
  /\ pc[p] \in {"opening", "open it", "reread"} => stage[p] = 1 \/ Jobs[stage[p]] > 0
  /\ pc[p] = "lock" => stage[p] = 2
  /\ (pc[p] = "aggregate" /\ outcome[p].status = "PARTIAL_HOLD") => stage[p] = 2

\* The jobs a runner has been through have their receipts, and a job that runs has
\* its log; nobody else has a hand in either.
ReceiptOK(p) ==
  /\ pc[p] \in InJob => done[p] < Jobs[stage[p]]
  /\ pc[p] \in {"wait", "receipt"} => evidence[NextJob(p)] = Log
  /\ pc[p] = "receipt" => outcome[p].status \in {"PASS", "FAIL"}
  /\ pc[p] \notin InJob \cup {"promote", "aggregate"} => done[p] = 0
  /\ pc[p] = "promote" => outcome[p].status = "PASS" /\ done[p] = Jobs[stage[p]]
  /\ (pc[p] = "aggregate" /\ outcome[p].status = "PASS") => done[p] = Jobs[stage[p]]
  /\ (pc[p] \in InJob \cup {"promote"} \/ (pc[p] = "aggregate" /\ outcome[p].status = "PASS")) =>
       \A j \in 1..Jobs[stage[p]] : j <= done[p] =>
         evidence[<<Catalog(p), <<stage[p], j>>>>] = [status |-> "PASS", manifest |-> id[p]]

Alone       == \A p \in Process : AloneOK(p)
PriorStands == \A p \in Process : PriorOK(p)
Guarded     == \A p \in Process : GuardOK(p)
Receipts    == \A p \in Process : ReceiptOK(p)

\* One runner for each job that runs.
OneRunner ==
  \A p, q \in Process :
    (pc[p] \in {"wait", "receipt"} /\ pc[q] \in {"wait", "receipt"} /\ NextJob(p) = NextJob(q)) => p = q

\* All of it: types and statements, the ledger under its lock, and the evidence that
\* is guarded by nothing but the files found.
StagesInv ==
  /\ LedgerInv /\ StagesOK
  /\ Alone /\ PriorStands /\ Guarded /\ Receipts /\ OneRunner /\ EvidenceBacked /\ Chained
===============================================================================
