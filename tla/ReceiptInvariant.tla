-------------------------- MODULE ReceiptInvariant --------------------------
(***************************************************************************)
(* The inductive invariant of ValidationReceipt.  It rests on one          *)
(* observation: while jobs run, and for ever after an outcome was lost,    *)
(* the remaining budget of the receipt differs from what its last phase    *)
(* left, which is the difference the terminal validator looks for.         *)
(***************************************************************************)
EXTENDS ValidationReceipt

Accepting == {"validated", "adopted"}

Settled(d) == d.remaining = Left(d)

\* Passes recorded for the phases of P are true.
Honest(d, P) == \A k \in DOMAIN d.phases :
                  d.phases[k].name \in P /\ d.phases[k].result = "pass"
                    => truth[d.phases[k].name] = "pass"

Others(r) == Phase \ {run[r].phase}

Unique(d) == \A j, k \in DOMAIN d.phases : d.phases[j].name = d.phases[k].name => j = k

Busy(r) == run[r].pc \in {"reserving", "running", "finished", "updating"}

\* The write of a reservation, between the write and its read-back.
ReservingOK(r) ==
  LET d == run[r].saved
  IN /\ d \in Receipt /\ WellFormed(d) /\ d.current # "adopted"
     /\ d.remaining > 0 /\ receipt = Reserved(d)
     /\ Settled(d) /\ Honest(d, Phase) /\ Unique(d)
     /\ spent + d.remaining <= Total

\* A phase that runs, or whose outcome is not written yet, and the receipt d of
\* its reservation, transitions included.
HeldOK(r, d) ==
  /\ d.current \notin Accepting
  /\ d.remaining = 0 /\ Left(d) = run[r].reserved /\ run[r].reserved > 0
  /\ Honest(d, Others(r)) /\ Unique(d)

FinishedOK(r) ==
  /\ truth[run[r].phase] = IF run[r].bad = {} /\ run[r].elapsed <= run[r].reserved
                             THEN "pass" ELSE "fail"
  /\ spent - run[r].elapsed + run[r].reserved <= Total

\* The write of an outcome, between the write and its read-back.
UpdatingOK(r) ==
  LET d == run[r].saved
  IN /\ d \in Receipt /\ WellFormed(d) /\ HeldOK(r, d) /\ FinishedOK(r)
     /\ receipt = Updated(d, run[r])

ReceiptInv ==
  /\ TypeOK
  /\ FailClosed
  /\ NeverRejected
  /\ \A r, s \in Runner : Busy(r) /\ Busy(s) => r = s
  /\ Unique(receipt)
  /\ receipt.remaining > 0 => Settled(receipt) /\ spent + receipt.remaining <= Total
  /\ Settled(receipt) => Honest(receipt, Phase)
  /\ \A r \in Runner :
       /\ run[r].pc = "reserving" => ReservingOK(r)
       /\ run[r].pc = "running" => HeldOK(r, receipt) /\ spent + run[r].reserved <= Total
       /\ run[r].pc = "finished" => HeldOK(r, receipt) /\ FinishedOK(r)
       /\ run[r].pc = "updating" => UpdatingOK(r)
=============================================================================
