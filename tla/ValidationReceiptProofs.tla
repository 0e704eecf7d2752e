----------------------- MODULE ValidationReceiptProofs -----------------------
(***************************************************************************)
(* Theorems about ValidationReceipt for any number of runners,             *)
(* repositories and phases, any budget and any times phases may take.      *)
(***************************************************************************)
EXTENDS ReceiptInvariant, TLAPS

-------------------------------------------------------------------------------
\* The operators

LEMMA IdleType == Idle \in Memory /\ Idle.pc = "idle"
BY ReceiptAssumption DEF Idle, Memory, States

\* A recorded phase is found at its position.
LEMMA PositionFound ==
  ASSUME NEW s \in Seq(PhaseRecord), NEW p, Recorded(s, p)
  PROVE  Position(s, p) \in DOMAIN s /\ s[Position(s, p)].name = p
BY DEF Recorded, Position

\* Without keeps the records of the other phases, in order and once each.
LEMMA WithoutKeeps ==
  ASSUME NEW s \in Seq(PhaseRecord), NEW p,
         \A j, k \in DOMAIN s : s[j].name = s[k].name => j = k
  PROVE  /\ Without(s, p) \in Seq(PhaseRecord)
         /\ \A k \in DOMAIN Without(s, p) :
              /\ Without(s, p)[k].name # p
              /\ \E j \in DOMAIN s : Without(s, p)[k] = s[j]
         /\ \A j, k \in DOMAIN Without(s, p) :
              Without(s, p)[j].name = Without(s, p)[k].name => j = k
<1>1. CASE Recorded(s, p)
  <2>. DEFINE i == Position(s, p)
              w == [k \in 1..(Len(s) - 1) |-> IF k < i THEN s[k] ELSE s[k + 1]]
  <2>1. i \in 1..Len(s) /\ s[i].name = p /\ Len(s) \in Nat /\ DOMAIN s = 1..Len(s)
    BY <1>1, PositionFound
  <2>2. Without(s, p) = w /\ DOMAIN w = 1..(Len(s) - 1)
    BY <1>1 DEF Without
  <2>. HIDE DEF i
  <2>3. \A k \in 1..(Len(s) - 1) :
          /\ w[k] \in PhaseRecord
          /\ w[k].name # p
          /\ \E j \in DOMAIN s : w[k] = s[j]
    <3>. SUFFICES ASSUME NEW k \in 1..(Len(s) - 1)
                  PROVE  /\ w[k] \in PhaseRecord /\ w[k].name # p
                         /\ \E j \in DOMAIN s : w[k] = s[j]
      OBVIOUS
    <3>1. CASE k < i
      <4>1. w[k] = s[k] /\ k \in DOMAIN s /\ k # i
        BY <3>1, <2>1
      <4>. QED BY <4>1, <2>1
    <3>2. CASE ~(k < i)
      <4>1. w[k] = s[k + 1] /\ k + 1 \in DOMAIN s /\ k + 1 # i
        BY <3>2, <2>1
      <4>. QED BY <4>1, <2>1
    <3>. QED BY <3>1, <3>2
  <2>4. w \in Seq(PhaseRecord)
    BY <2>1, <2>3
  <2>5. \A j, k \in 1..(Len(s) - 1) : w[j].name = w[k].name => j = k
    <3>. SUFFICES ASSUME NEW j \in 1..(Len(s) - 1), NEW k \in 1..(Len(s) - 1),
                         w[j].name = w[k].name
                  PROVE  j = k
      OBVIOUS
    <3>. DEFINE at(n) == IF n < i THEN n ELSE n + 1
    <3>1. at(j) \in DOMAIN s /\ at(k) \in DOMAIN s /\ w[j] = s[at(j)] /\ w[k] = s[at(k)]
      BY <2>1
    <3>2. at(j) = at(k)
      BY <3>1
    <3>. QED BY <3>2, <2>1
  <2>. HIDE DEF w
  <2>. QED BY <2>2, <2>3, <2>4, <2>5
<1>2. CASE ~Recorded(s, p)
  BY <1>2 DEF Without, Recorded
<1>. QED BY <1>1, <1>2

\* What the update of a phase leaves in the receipt.
LEMMA UpdatedFacts ==
  ASSUME NEW d \in Receipt, NEW m \in Memory, Unique(d), d.remaining = 0,
         m.bad \subseteq Repo
  PROVE  LET u == Updated(d, m)
             n == Len(u.phases)
         IN /\ u \in Receipt
            /\ Unique(u)
            /\ n \in Nat \ {0} /\ DOMAIN u.phases = 1..n
            /\ Left(u) = m.reserved - m.elapsed
            /\ u.phases[n].name = m.phase
            /\ u.phases[n].result = "pass" => m.bad = {} /\ m.elapsed <= m.reserved
            /\ \A k \in 1..(n - 1) : /\ u.phases[k].name # m.phase
                                     /\ \E j \in DOMAIN d.phases : u.phases[k] = d.phases[j]
            /\ u.remaining = Unspent(m)
            /\ u.current \in {d.current, "blocked"}
<1>. DEFINE w == Without(d.phases, m.phase)
            before == IF Recorded(d.phases, m.phase)
                        THEN d.phases[Position(d.phases, m.phase)].elapsed ELSE 0
            exceeded == m.elapsed > m.reserved
            result == IF exceeded THEN "blocked" ELSE IF m.bad = {} THEN "pass" ELSE "fail"
            x == [name |-> m.phase, result |-> result, elapsed |-> before + m.elapsed,
                  reserved |-> before + m.reserved]
            u == Updated(d, m)
            n == Len(u.phases)
<1>1. d.phases \in Seq(PhaseRecord) /\ m.phase \in Phase
      /\ m.elapsed \in Nat /\ m.reserved \in 0..Total /\ Total \in Nat
  BY ReceiptAssumption DEF Receipt, Memory
<1>2. before \in Nat
  <2>1. CASE Recorded(d.phases, m.phase)
    <3>1. d.phases[Position(d.phases, m.phase)] \in PhaseRecord
      BY <1>1, <2>1, PositionFound
    <3>. QED BY <2>1, <3>1 DEF PhaseRecord
  <2>. QED BY <2>1
<1>11. /\ result \in {"pass", "fail", "blocked"}
       /\ result = "pass" => m.bad = {} /\ m.elapsed <= m.reserved
  BY <1>1
<1>. HIDE DEF before
<1>5. u.phases = Append(w, x) /\ u.remaining = Unspent(m)
      /\ u.current = IF result = "pass" THEN d.current ELSE "blocked"
  BY DEF Updated, before
<1>12. u.failed \in BOOLEAN
  BY DEF Updated
<1>. HIDE DEF result
<1>3. x \in PhaseRecord
  BY <1>1, <1>2, <1>11 DEF PhaseRecord
<1>4. /\ w \in Seq(PhaseRecord)
      /\ \A k \in DOMAIN w : w[k].name # m.phase /\ \E j \in DOMAIN d.phases : w[k] = d.phases[j]
      /\ \A j, k \in DOMAIN w : w[j].name = w[k].name => j = k
  BY <1>1, WithoutKeeps DEF Unique
<1>6. x.name = m.phase /\ x.result = result
      /\ x.reserved - x.elapsed = m.reserved - m.elapsed
  BY <1>1, <1>2
<1>. HIDE DEF w, x
<1>7. /\ n = Len(w) + 1 /\ n \in Nat \ {0} /\ DOMAIN u.phases = 1..n
      /\ u.phases[n] = x /\ \A k \in 1..(n - 1) : k \in DOMAIN w /\ u.phases[k] = w[k]
      /\ u.phases \in Seq(PhaseRecord) /\ u.phases # <<>>
  BY <1>3, <1>4, <1>5
<1>8. Left(u) = m.reserved - m.elapsed
  BY <1>6, <1>7 DEF Left
<1>9. Unique(u)
  <2>. SUFFICES ASSUME NEW j \in 1..n, NEW k \in 1..n, u.phases[j].name = u.phases[k].name
                PROVE  j = k
    BY <1>7 DEF Unique
  <2>1. CASE j = n /\ k # n
    BY <2>1, <1>4, <1>6, <1>7
  <2>2. CASE j # n /\ k = n
    BY <2>2, <1>4, <1>6, <1>7
  <2>3. CASE j # n /\ k # n
    <3>1. j \in 1..(n - 1) /\ k \in 1..(n - 1)
      BY <2>3, <1>7
    <3>. QED BY <3>1, <1>4, <1>7
  <2>. QED BY <2>1, <2>2, <2>3
<1>10. u \in Receipt
  <2>1. u.remaining \in 0..Total
    BY <1>1, <1>5 DEF Unspent
  <2>2. [q \in Repo |-> IF q \in m.bad \cup (IF exceeded THEN {Central} ELSE {})
                          THEN "blocked" ELSE d.state[q]] \in [Repo -> States]
    BY DEF Receipt, States
  <2>3. u.current \in States
    BY <1>5 DEF Receipt, States
  <2>4. u.state \in [Repo -> States]
    BY <2>2 DEF Updated
  <2>5. u = [state |-> u.state, current |-> u.current, remaining |-> u.remaining,
             phases |-> u.phases, failed |-> u.failed]
    BY DEF Updated
  <2>. HIDE DEF u
  <2>. QED BY <2>1, <2>3, <2>4, <2>5, <1>7, <1>12 DEF Receipt
<1>. QED BY <1>4, <1>5, <1>6, <1>7, <1>8, <1>9, <1>10, <1>11
-------------------------------------------------------------------------------
\* The invariant, one step at a time

\* What every step starts from, in the form the steps use it.
LEMMA Facts ==
  ASSUME ReceiptInv
  PROVE  /\ TypeOK /\ Total \in Nat /\ Central \in Repo
         /\ \A r \in Runner : run[r] \in Memory
         /\ \A r \in Runner, m \in Memory : [run EXCEPT ![r] = m] \in [Runner -> Memory]
BY ReceiptAssumption DEF ReceiptInv, TypeOK

\* A step that only moves one runner to a statement outside the protocol's
\* critical part: it reads, it is refused, or it ends.
LEMMA QuietStep ==
  ASSUME ReceiptInv, TypeOK', NEW r \in Runner, NEW m \in Memory,
         m.pc \in {"idle", "read", "ready"}, run' = [run EXCEPT ![r] = m],
         UNCHANGED <<receipt, truth, spent>>,
         ~crashed' => ~crashed /\ run[r].pc \notin {"reserving", "updating"}
  PROVE  ReceiptInv'
<1>1. run \in [Runner -> Memory]
  BY DEF ReceiptInv, TypeOK
<1>2. /\ run'[r] = m
      /\ \A s \in Runner : s # r => run'[s] = run[s]
  BY <1>1
<1>3. FailClosed' /\ Unique(receipt)'
      /\ (receipt.remaining > 0 => Settled(receipt) /\ spent + receipt.remaining <= Total)'
      /\ (Settled(receipt) => Honest(receipt, Phase))'
  BY DEF ReceiptInv, FailClosed, Unique, Settled, Honest, Left
<1>4. NeverRejected'
  <2>. SUFFICES ASSUME LockFree', ~crashed' PROVE WellFormed(receipt)'
    BY DEF NeverRejected
  <2>1. LockFree /\ ~crashed
    BY <1>2 DEF LockFree
  <2>2. WellFormed(receipt)
    BY <2>1 DEF ReceiptInv, NeverRejected
  <2>. QED BY <2>2
<1>5. \A q, s \in Runner : Busy(q)' /\ Busy(s)' => q = s
  BY <1>2 DEF Busy, ReceiptInv
<1>6. ASSUME NEW s \in Runner, s # r
      PROVE  /\ (run[s].pc = "reserving" => ReservingOK(s))'
             /\ (run[s].pc = "running" => HeldOK(s, receipt) /\ spent + run[s].reserved <= Total)'
             /\ (run[s].pc = "finished" => HeldOK(s, receipt) /\ FinishedOK(s))'
             /\ (run[s].pc = "updating" => UpdatingOK(s))'
  BY <1>2, <1>6 DEF ReceiptInv, ReservingOK, HeldOK, FinishedOK, UpdatingOK, Honest, Others
<1>. QED BY <1>2, <1>3, <1>4, <1>5, <1>6 DEF ReceiptInv

\* run_phase before its reservation.
LEMMA InvRead ==
  ASSUME ReceiptInv, NEW r \in Runner, (\E p \in Phase : ReadDocument(r, p)) \/ ReadDigest(r)
  PROVE  ReceiptInv'
<1>0. /\ TypeOK /\ Idle \in Memory /\ Idle.pc = "idle" /\ run[r] \in Memory
      /\ \A m \in Memory : [run EXCEPT ![r] = m] \in [Runner -> Memory]
  BY Facts, IdleType
<1>1. ASSUME NEW p \in Phase, ReadDocument(r, p)
      PROVE  ReceiptInv'
  <2>. DEFINE m == [Idle EXCEPT !.pc = "read", !.phase = p, !.want = receipt.current]
  <2>1. m \in Memory /\ m.pc = "read"
    BY <1>0 DEF Memory, TypeOK, Receipt
  <2>2. /\ run' = [run EXCEPT ![r] = m] /\ run[r].pc = "idle"
        /\ started' = started + 1
        /\ UNCHANGED <<receipt, sound, published, truth, spent, crashed, drifts>>
    BY <1>1 DEF ReadDocument
  <2>. HIDE DEF m
  <2>3. TypeOK'
    BY <1>0, <2>1, <2>2 DEF TypeOK
  <2>. QED BY <2>1, <2>2, <2>3, QuietStep
<1>2. CASE ReadDigest(r)
  <2>. DEFINE m == IF Vacant(run[r].phase)
                     THEN [run[r] EXCEPT !.pc = "ready", !.seen = receipt] ELSE Idle
  <2>1. m \in Memory /\ m.pc \in {"ready", "idle"}
    BY <1>0 DEF Memory, TypeOK
  <2>2. /\ run' = [run EXCEPT ![r] = m] /\ run[r].pc = "read"
        /\ UNCHANGED <<receipt, sound, published, truth, spent, crashed, started, drifts>>
    BY <1>0, <1>2 DEF ReadDigest, Leave, TypeOK, Memory, history
  <2>. HIDE DEF m
  <2>3. TypeOK'
    BY <1>0, <2>1, <2>2 DEF TypeOK
  <2>. QED BY <2>1, <2>2, <2>3, QuietStep
<1>. QED BY <1>1, <1>2

\* The reservation: either refused, or written and not yet read back.
LEMMA InvReserve ==
  ASSUME ReceiptInv, NEW r \in Runner, Reserve(r)
  PROVE  ReceiptInv'
<1>0. /\ TypeOK /\ Idle \in Memory /\ Idle.pc = "idle" /\ run[r] \in Memory
      /\ \A m \in Memory : [run EXCEPT ![r] = m] \in [Runner -> Memory]
      /\ Total \in Nat
  BY Facts, IdleType
<1>1. CASE ~(Expected(r) /\ receipt.remaining > 0)
  <2>1. /\ run' = [run EXCEPT ![r] = Idle] /\ run[r].pc = "ready"
        /\ UNCHANGED <<receipt, sound, published, truth, spent, crashed, started, drifts>>
    BY <1>1 DEF Reserve, Leave, history
  <2>2. TypeOK'
    BY <1>0, <2>1 DEF TypeOK
  <2>. QED BY <1>0, <2>1, <2>2, QuietStep
<1>2. CASE Expected(r) /\ receipt.remaining > 0
  <2>. DEFINE m == [run[r] EXCEPT !.pc = "reserving", !.saved = receipt]
  <2>1. /\ receipt' = Reserved(receipt) /\ UNCHANGED <<sound, published, history>>
        /\ run' = [run EXCEPT ![r] = m] /\ LockFree /\ run[r].pc = "ready"
    BY <1>0, <1>2 DEF Reserve, TypeOK, Memory
  <2>2. /\ m \in Memory /\ m.pc = "reserving" /\ m.saved = receipt
    BY <1>0 DEF Memory, TypeOK
  <2>. HIDE DEF m
  <2>3. /\ receipt'.remaining = 0 /\ receipt'.phases = receipt.phases
        /\ receipt'.current = receipt.current /\ receipt' \in Receipt
    BY <1>0, <2>1 DEF Reserved, Receipt, TypeOK
  <2>4. TypeOK'
    BY <1>0, <2>1, <2>2, <2>3 DEF TypeOK, history
  <2>5. run'[r] = m /\ \A s \in Runner : s # r => run'[s] = run[s]
    BY <1>0, <2>1 DEF TypeOK
  <2>6. Settled(receipt) /\ Honest(receipt, Phase) /\ spent + receipt.remaining <= Total
    BY <1>2 DEF ReceiptInv
  <2>7. \A s \in Runner : ~Busy(s)
    BY <1>2, <2>1 DEF ReceiptInv, Busy, HeldOK, LockFree
  <2>8. \A s \in Runner : s # r => run'[s].pc \in {"idle", "read", "ready"}
    BY <1>0, <2>5, <2>7 DEF Busy, TypeOK, Memory
  <2>9. FailClosed' /\ Unique(receipt)' /\ Honest(receipt, Phase)'
    BY <2>1, <2>3, <2>6 DEF ReceiptInv, FailClosed, Unique, Honest, history
  <2>10. ReservingOK(r)'
    BY <1>0, <1>2, <2>1, <2>2, <2>5, <2>6 DEF ReservingOK, Expected, Valid, ReceiptInv, TypeOK,
       history, Honest
  <2>11. NeverRejected'
    BY <2>2, <2>5 DEF NeverRejected, LockFree
  <2>12. \A q, s \in Runner : Busy(q)' /\ Busy(s)' => q = s
    BY <2>8 DEF Busy
  <2>. QED BY <2>2, <2>3, <2>4, <2>5, <2>8, <2>9, <2>10, <2>11, <2>12 DEF ReceiptInv
<1>. QED BY <1>1, <1>2

\* The read-back of a reservation: the phase runs, or the receipt is put back.
LEMMA InvReserveReadBack ==
  ASSUME ReceiptInv, NEW r \in Runner, ReserveReadBack(r)
  PROVE  ReceiptInv'
<1>0. /\ TypeOK /\ Idle \in Memory /\ Idle.pc = "idle" /\ run[r] \in Memory
      /\ \A m \in Memory : [run EXCEPT ![r] = m] \in [Runner -> Memory]
      /\ Total \in Nat
  BY Facts, IdleType
<1>. DEFINE d == run[r].saved
<1>1. /\ run[r].pc = "reserving" /\ ReservingOK(r)
      /\ UNCHANGED <<sound, published, spent, crashed, started, drifts>>
  BY DEF ReserveReadBack, ReceiptInv
<1>2. \A s \in Runner : s # r => run[s].pc \in {"idle", "read", "ready"}
  BY <1>0, <1>1 DEF ReceiptInv, Busy, TypeOK, Memory
<1>3. CASE Valid(receipt)
  <2>. DEFINE m == [run[r] EXCEPT !.pc = "running", !.seen = receipt, !.saved = NoReceipt,
                                  !.reserved = d.remaining]
  <2>1. /\ run' = [run EXCEPT ![r] = m] /\ receipt' = receipt
        /\ truth' = [truth EXCEPT ![run[r].phase] = "unknown"]
    BY <1>0, <1>3 DEF ReserveReadBack, ReadBack, TypeOK, Memory
  <2>2. /\ m \in Memory /\ m.pc = "running" /\ m.reserved = d.remaining
        /\ m.phase = run[r].phase /\ m.phase \in Phase
    BY <1>0, <1>1 DEF Memory, TypeOK, ReservingOK, Receipt
  <2>. HIDE DEF m
  <2>3. run'[r] = m /\ \A s \in Runner : s # r => run'[s] = run[s]
    BY <1>0, <2>1 DEF TypeOK
  <2>4. TypeOK'
    BY <1>0, <1>1, <2>1, <2>2 DEF TypeOK
  <2>5. /\ d.remaining > 0 /\ Left(receipt) = d.remaining /\ receipt.remaining = 0
        /\ spent + d.remaining <= Total /\ Honest(receipt, Phase) /\ d \in Receipt
    BY <1>1 DEF ReservingOK, Settled, Left, Reserved, Receipt, Honest
  <2>6. receipt.current \notin Accepting
    BY <1>3, <2>5 DEF Valid, WellFormed, Terminal, Accepting
  <2>7. \A p \in Phase : p # m.phase => truth'[p] = truth[p]
    BY <1>0, <2>1, <2>2 DEF TypeOK
  <2>8. HeldOK(r, receipt)' /\ spent' + run'[r].reserved <= Total
    BY <1>1, <2>1, <2>2, <2>3, <2>5, <2>6, <2>7 DEF HeldOK, Honest, Others, Unique, ReceiptInv, Left
  <2>9. FailClosed' /\ Unique(receipt)'
    BY <2>1, <2>6 DEF FailClosed, Accepting, ReceiptInv, Unique
  <2>10. ~Settled(receipt)' /\ receipt'.remaining = 0
    BY <2>1, <2>5 DEF Settled, Left, Receipt
  <2>11. NeverRejected'
    BY <1>3, <2>1 DEF NeverRejected, Valid
  <2>12. \A q, s \in Runner : Busy(q)' /\ Busy(s)' => q = s
    BY <1>2, <2>3 DEF Busy
  <2>. QED BY <1>2, <2>2, <2>3, <2>4, <2>8, <2>9, <2>10, <2>11, <2>12 DEF ReceiptInv
<1>4. CASE ~Valid(receipt)
  <2>1. run' = [run EXCEPT ![r] = Idle] /\ receipt' = d /\ UNCHANGED truth
    BY <1>4 DEF ReserveReadBack, ReadBack, Leave
  <2>2. run'[r] = Idle /\ \A s \in Runner : s # r => run'[s] = run[s]
    BY <1>0, <2>1 DEF TypeOK
  <2>3. \A s \in Runner : run'[s].pc \in {"idle", "read", "ready"}
    BY <1>0, <1>2, <2>2
  <2>4. /\ d \in Receipt /\ WellFormed(d) /\ receipt.current = d.current
        /\ Settled(d) /\ Honest(d, Phase) /\ spent + d.remaining <= Total
    BY <1>1 DEF ReservingOK, Reserved, Receipt
  <2>5. TypeOK'
    BY <1>0, <1>1, <2>1, <2>4 DEF TypeOK
  <2>6. FailClosed' /\ NeverRejected'
    BY <2>1, <2>4 DEF FailClosed, NeverRejected, ReceiptInv
  <2>7. Unique(receipt)'
    BY <1>1, <2>1 DEF Unique, ReservingOK
  <2>8. Honest(receipt, Phase)'
    BY <2>1, <2>4 DEF Honest
  <2>9. (receipt.remaining > 0 => Settled(receipt) /\ spent + receipt.remaining <= Total)'
    BY <1>1, <2>1, <2>4 DEF Settled, Left
  <2>. QED BY <2>3, <2>5, <2>6, <2>7, <2>8, <2>9 DEF ReceiptInv, Busy
<1>. QED BY <1>3, <1>4

\* The jobs of a phase end.
LEMMA InvJobsDone ==
  ASSUME ReceiptInv, NEW r \in Runner, NEW e \in Elapsed, NEW bad \in SUBSET Repo,
         JobsDone(r, e, bad)
  PROVE  ReceiptInv'
<1>0. /\ TypeOK /\ run[r] \in Memory /\ Total \in Nat /\ e \in Nat
      /\ \A m \in Memory : [run EXCEPT ![r] = m] \in [Runner -> Memory]
  BY Facts, ReceiptAssumption
<1>. DEFINE m == [run[r] EXCEPT !.pc = "finished", !.elapsed = e, !.bad = bad]
            came == IF bad = {} /\ e <= run[r].reserved THEN "pass" ELSE "fail"
<1>1. /\ run[r].pc = "running" /\ HeldOK(r, receipt) /\ spent + run[r].reserved <= Total
      /\ run' = [run EXCEPT ![r] = m] /\ truth' = [truth EXCEPT ![run[r].phase] = came]
      /\ spent' = spent + e /\ published' \in BOOLEAN
      /\ UNCHANGED <<receipt, sound, crashed, started, drifts>>
  BY <1>0 DEF JobsDone, ReceiptInv, TypeOK, Memory
<1>2. \A s \in Runner : s # r => run[s].pc \in {"idle", "read", "ready"}
  BY <1>0, <1>1 DEF ReceiptInv, Busy, TypeOK, Memory
<1>3. /\ m \in Memory /\ m.pc = "finished" /\ m.phase = run[r].phase /\ m.phase \in Phase
      /\ m.reserved = run[r].reserved /\ m.elapsed = e /\ m.bad = bad
      /\ m.reserved \in Nat
  <2>1. m \in Memory
    BY <1>0 DEF Memory
  <2>2. /\ m.pc = "finished" /\ m.phase = run[r].phase
        /\ m.reserved = run[r].reserved /\ m.elapsed = e /\ m.bad = bad
    BY <1>0 DEF Memory
  <2>3. run[r].phase \in Phase /\ run[r].reserved \in 0..Total
    BY <1>0 DEF Memory
  <2>. QED BY <1>0, <2>1, <2>2, <2>3
<1>. HIDE DEF m
<1>4. run'[r] = m /\ \A s \in Runner : s # r => run'[s] = run[s]
  BY <1>0, <1>1 DEF TypeOK
<1>5. TypeOK'
  BY <1>0, <1>1, <1>3 DEF TypeOK
<1>6. truth'[m.phase] = came /\ \A p \in Phase : p # m.phase => truth'[p] = truth[p]
  BY <1>0, <1>1, <1>3 DEF TypeOK
<1>7. HeldOK(r, receipt)'
  BY <1>1, <1>3, <1>4, <1>6 DEF HeldOK, Honest, Others, Unique, Left
<1>8. FinishedOK(r)'
  BY <1>0, <1>1, <1>3, <1>4, <1>6 DEF FinishedOK, TypeOK
<1>9. FailClosed' /\ Unique(receipt)'
  BY <1>1 DEF FailClosed, ReceiptInv, HeldOK, Accepting, Unique
<1>10. ~Settled(receipt)' /\ receipt'.remaining = 0
  BY <1>1 DEF HeldOK, Settled, Left
<1>11. NeverRejected'
  <2>1. LockFree' /\ ~crashed' => LockFree /\ ~crashed
    BY <1>1, <1>4 DEF LockFree
  <2>2. LockFree' /\ ~crashed' => WellFormed(receipt)
    BY <2>1 DEF ReceiptInv, NeverRejected
  <2>. QED BY <1>1, <2>2 DEF NeverRejected
<1>12. \A q, s \in Runner : Busy(q)' /\ Busy(s)' => q = s
  BY <1>2, <1>4 DEF Busy
<1>. QED BY <1>2, <1>3, <1>4, <1>5, <1>7, <1>8, <1>9, <1>10, <1>11, <1>12 DEF ReceiptInv

\* The update of a phase: either refused, which loses the outcome, or written.
LEMMA InvUpdate ==
  ASSUME ReceiptInv, NEW r \in Runner, Update(r)
  PROVE  ReceiptInv'
<1>0. /\ TypeOK /\ Idle \in Memory /\ Idle.pc = "idle" /\ run[r] \in Memory
      /\ \A m \in Memory : [run EXCEPT ![r] = m] \in [Runner -> Memory]
      /\ Total \in Nat
  BY Facts, IdleType
<1>1. CASE ~(Expected(r) /\ receipt.remaining = 0)
  <2>1. /\ run' = [run EXCEPT ![r] = Idle] /\ run[r].pc = "finished"
        /\ UNCHANGED <<receipt, sound, published, truth, spent, crashed, started, drifts>>
    BY <1>1 DEF Update, Leave, history
  <2>2. TypeOK'
    BY <1>0, <2>1 DEF TypeOK
  <2>. QED BY <1>0, <2>1, <2>2, QuietStep
<1>2. CASE Expected(r) /\ receipt.remaining = 0
  <2>. DEFINE m == [run[r] EXCEPT !.pc = "updating", !.saved = receipt]
  <2>1. /\ receipt' = Updated(receipt, run[r]) /\ run[r].pc = "finished"
        /\ run' = [run EXCEPT ![r] = m]
        /\ UNCHANGED <<sound, published, truth, spent, crashed, started, drifts>>
    BY <1>0, <1>2 DEF Update, TypeOK, Memory, history
  <2>2. HeldOK(r, receipt) /\ FinishedOK(r) /\ receipt \in Receipt /\ Unique(receipt)
        /\ WellFormed(receipt)
    BY <1>2, <2>1, <1>0 DEF ReceiptInv, Expected, Valid, TypeOK
  <2>3. \A s \in Runner : s # r => run[s].pc \in {"idle", "read", "ready"}
    BY <1>0, <2>1 DEF ReceiptInv, Busy, TypeOK, Memory
  <2>4. /\ m \in Memory /\ m.pc = "updating" /\ m.saved = receipt
        /\ m.phase = run[r].phase /\ m.bad = run[r].bad /\ m.elapsed = run[r].elapsed
        /\ m.reserved = run[r].reserved
    BY <1>0, <2>2 DEF Memory
  <2>. HIDE DEF m
  <2>5. run'[r] = m /\ \A s \in Runner : s # r => run'[s] = run[s]
    BY <1>0, <2>1 DEF TypeOK
  <2>. DEFINE u == Updated(receipt, run[r])
              n == Len(u.phases)
  <2>6. run[r].bad \subseteq Repo /\ run[r].phase \in Phase /\ run[r].elapsed \in Nat
        /\ run[r].reserved \in 0..Total
    BY <1>0 DEF Memory
  <2>7. /\ u \in Receipt /\ Unique(u)
        /\ n \in Nat \ {0} /\ DOMAIN u.phases = 1..n
        /\ Left(u) = run[r].reserved - run[r].elapsed
        /\ u.phases[n].name = run[r].phase
        /\ u.phases[n].result = "pass"
             => run[r].bad = {} /\ run[r].elapsed <= run[r].reserved
        /\ \A k \in 1..(n - 1) : /\ u.phases[k].name # run[r].phase
                                 /\ \E j \in DOMAIN receipt.phases : u.phases[k] = receipt.phases[j]
        /\ u.remaining = Unspent(run[r])
        /\ u.current \in {receipt.current, "blocked"}
    BY <1>0, <1>2, <2>2, <2>6, UpdatedFacts
  <2>. HIDE DEF u, n
  <2>8. receipt' = u
    BY <2>1 DEF u
  <2>9. TypeOK'
    BY <1>0, <2>1, <2>4, <2>7, <2>8 DEF TypeOK
  <2>10. u.current \notin Accepting
    BY <2>2, <2>7 DEF HeldOK, Accepting
  <2>11. UpdatingOK(r)'
    <3>1. Updated(receipt, m) = Updated(receipt, run[r])
      BY <2>4 DEF Updated, Unspent
    <3>2. (LET d == run[r].saved IN d \in Receipt /\ WellFormed(d))'
      BY <2>2, <2>4, <2>5
    <3>3. (HeldOK(r, run[r].saved))'
      BY <2>1, <2>2, <2>4, <2>5 DEF HeldOK, Honest, Others
    <3>4. FinishedOK(r)'
      BY <2>1, <2>2, <2>4, <2>5 DEF FinishedOK
    <3>5. (receipt = Updated(run[r].saved, run[r]))'
      BY <2>1, <2>4, <2>5, <3>1
    <3>. QED BY <3>2, <3>3, <3>4, <3>5 DEF UpdatingOK
  <2>12. Honest(receipt, Phase)'
    <3>. SUFFICES ASSUME NEW k \in 1..n, u.phases[k].name \in Phase, u.phases[k].result = "pass"
                  PROVE  truth[u.phases[k].name] = "pass"
      BY <2>1, <2>7, <2>8 DEF Honest
    <3>1. CASE k = n
      BY <3>1, <2>2, <2>7 DEF FinishedOK
    <3>2. CASE k # n
      <4>1. k \in 1..(n - 1)
        BY <3>2, <2>7
      <4>2. PICK j \in DOMAIN receipt.phases : u.phases[k] = receipt.phases[j]
        BY <4>1, <2>7
      <4>3. u.phases[k].name # run[r].phase
        BY <4>1, <2>7
      <4>. QED BY <4>2, <4>3, <2>2 DEF HeldOK, Honest, Others
    <3>. QED BY <3>1, <3>2
  <2>13. (receipt.remaining > 0 => Settled(receipt) /\ spent + receipt.remaining <= Total)'
    BY <1>0, <2>1, <2>2, <2>6, <2>7, <2>8 DEF Settled, Unspent, FinishedOK, TypeOK
  <2>14. FailClosed' /\ Unique(receipt)'
    BY <2>7, <2>8, <2>10 DEF FailClosed, Accepting, Unique
  <2>15. NeverRejected'
    BY <2>4, <2>5 DEF NeverRejected, LockFree
  <2>16. \A q, s \in Runner : Busy(q)' /\ Busy(s)' => q = s
    BY <2>3, <2>5 DEF Busy
  <2>. QED BY <2>3, <2>4, <2>5, <2>9, <2>11, <2>12, <2>13, <2>14, <2>15, <2>16 DEF ReceiptInv
<1>. QED BY <1>1, <1>2

\* The read-back of an update keeps the outcome or restores the reservation.
LEMMA InvUpdateReadBack ==
  ASSUME ReceiptInv, NEW r \in Runner, UpdateReadBack(r)
  PROVE  ReceiptInv'
<1>0. /\ TypeOK /\ Idle \in Memory /\ Idle.pc = "idle" /\ run[r] \in Memory
      /\ \A m \in Memory : [run EXCEPT ![r] = m] \in [Runner -> Memory]
      /\ Total \in Nat
  BY Facts, IdleType
<1>. DEFINE d == run[r].saved
<1>1. /\ run[r].pc = "updating" /\ UpdatingOK(r)
      /\ run' = [run EXCEPT ![r] = Idle]
      /\ receipt' = IF Valid(receipt) THEN receipt ELSE d
      /\ UNCHANGED <<sound, published, truth, spent, crashed, started, drifts>>
  BY DEF UpdateReadBack, ReadBack, Leave, ReceiptInv, history
<1>2. \A s \in Runner : s # r => run[s].pc \in {"idle", "read", "ready"}
  BY <1>0, <1>1 DEF ReceiptInv, Busy, TypeOK, Memory
<1>3. run'[r] = Idle /\ \A s \in Runner : s # r => run'[s] = run[s]
  BY <1>0, <1>1 DEF TypeOK
<1>4. \A s \in Runner : run'[s].pc \in {"idle", "read", "ready"}
  BY <1>0, <1>2, <1>3
<1>5. CASE Valid(receipt)
  <2>1. receipt' = receipt /\ WellFormed(receipt)
    BY <1>1, <1>5 DEF Valid
  <2>2. TypeOK' /\ FailClosed' /\ NeverRejected' /\ Unique(receipt)'
    BY <1>0, <1>1, <2>1 DEF TypeOK, FailClosed, NeverRejected, Unique, ReceiptInv
  <2>3. (receipt.remaining > 0 => Settled(receipt) /\ spent + receipt.remaining <= Total)'
        /\ (Settled(receipt) => Honest(receipt, Phase))'
    BY <1>1, <2>1 DEF ReceiptInv, Settled, Left, Honest
  <2>. QED BY <1>4, <2>2, <2>3 DEF ReceiptInv, Busy
<1>6. CASE ~Valid(receipt)
  <2>1. /\ receipt' = d /\ d \in Receipt /\ WellFormed(d) /\ d.current \notin Accepting
        /\ d.remaining = 0 /\ Left(d) > 0 /\ Unique(d)
    BY <1>1, <1>6, <1>0 DEF UpdatingOK, HeldOK, Memory
  <2>2. TypeOK' /\ FailClosed' /\ NeverRejected'
    BY <1>0, <1>1, <2>1 DEF TypeOK, FailClosed, NeverRejected, Accepting
  <2>3. Unique(receipt)' /\ ~Settled(receipt)' /\ receipt'.remaining = 0
    BY <2>1 DEF Unique, Settled, Left
  <2>. QED BY <1>4, <2>2, <2>3 DEF ReceiptInv, Busy
<1>. QED BY <1>5, <1>6

\* A runner that ends while its phase runs loses the outcome.
LEMMA InvAbandon ==
  ASSUME ReceiptInv, NEW r \in Runner, Abandon(r)
  PROVE  ReceiptInv'
<1>0. /\ TypeOK /\ Idle \in Memory /\ Idle.pc = "idle" /\ run[r] \in Memory
      /\ \A m \in Memory : [run EXCEPT ![r] = m] \in [Runner -> Memory]
  BY Facts, IdleType
<1>1. /\ run' = [run EXCEPT ![r] = Idle] /\ published' \in BOOLEAN
      /\ crashed' = (crashed \/ run[r].pc \in {"reserving", "updating"})
      /\ UNCHANGED <<receipt, sound, truth, spent, started, drifts>>
  BY <1>0 DEF Abandon, Leave, TypeOK
<1>2. TypeOK'
  BY <1>0, <1>1 DEF TypeOK
<1>. QED BY <1>0, <1>1, <1>2, QuietStep

\* A transition: it cannot reach an accepting state while a phase runs, or after
\* an outcome was lost.
LEMMA InvTransition ==
  ASSUME ReceiptInv, NEW q \in Repo, NEW to \in States, NEW evidence \in BOOLEAN,
         Transition(q, to, evidence)
  PROVE  ReceiptInv'
<1>. DEFINE state == [receipt.state EXCEPT ![q] = to]
            new == [receipt EXCEPT !.state = state, !.current = Derived(state),
                                   !.failed = @ \/ to = "blocked"]
<1>0. TypeOK /\ receipt \in Receipt /\ \A r \in Runner : run[r] \in Memory
  BY Facts DEF TypeOK
<1>1. /\ LockFree /\ WellFormed(new) /\ receipt' = new
      /\ UNCHANGED <<sound, published, run, truth, spent, crashed, started, drifts>>
  BY DEF Transition, history
<1>2. /\ new.remaining = receipt.remaining /\ new.phases = receipt.phases
      /\ new \in Receipt /\ new.current \in States
  <2>1. state \in [Repo -> States] /\ Derived(state) \in States
    BY <1>0 DEF Receipt, Derived, States
  <2>. HIDE DEF state
  <2>. QED BY <1>0, <2>1 DEF Receipt
<1>. HIDE DEF new
<1>3. TypeOK'
  BY <1>0, <1>1, <1>2 DEF TypeOK
<1>4. ASSUME new.current \in Accepting
      PROVE  Settled(receipt) /\ \A p \in Phase : truth[p] = "pass"
  <2>1. Terminal(new)
    BY <1>1, <1>4 DEF WellFormed, Accepting
  <2>2. Settled(receipt)
    BY <1>2, <2>1 DEF Terminal, Settled, Left
  <2>3. ASSUME NEW p \in Phase PROVE truth[p] = "pass"
    <3>1. PICK k \in DOMAIN receipt.phases : receipt.phases[k].name = p
      BY <1>2, <2>1 DEF Terminal
    <3>2. receipt.phases[k].result = "pass"
      BY <1>2, <2>1 DEF Terminal
    <3>. QED BY <2>2, <3>1, <3>2 DEF ReceiptInv, Honest
  <2>. QED BY <2>2, <2>3
<1>5. FailClosed' /\ NeverRejected' /\ Unique(receipt)'
  BY <1>1, <1>2, <1>4 DEF FailClosed, Accepting, NeverRejected, ReceiptInv, Unique
<1>6. (receipt.remaining > 0 => Settled(receipt) /\ spent + receipt.remaining <= Total)'
      /\ (Settled(receipt) => Honest(receipt, Phase))'
  BY <1>1, <1>2 DEF ReceiptInv, Settled, Left, Honest
<1>7. \A r \in Runner : HeldOK(r, receipt) => HeldOK(r, receipt)'
  <2>. SUFFICES ASSUME NEW r \in Runner, HeldOK(r, receipt) PROVE HeldOK(r, receipt)'
    OBVIOUS
  <2>1. ~Settled(receipt)
    BY <1>0 DEF HeldOK, Settled
  <2>2. new.current \notin Accepting
    BY <2>1, <1>4
  <2>. QED BY <1>1, <1>2, <2>2 DEF HeldOK, Honest, Others, Unique, Left
<1>8. \A r \in Runner : run[r].pc \notin {"reserving", "updating"}
  BY <1>1 DEF LockFree
<1>9. \A r \in Runner :
        /\ (run[r].pc = "running" => HeldOK(r, receipt) /\ spent + run[r].reserved <= Total)'
        /\ (run[r].pc = "finished" => HeldOK(r, receipt) /\ FinishedOK(r))'
  BY <1>1, <1>7 DEF ReceiptInv, FinishedOK
<1>10. \A r, s \in Runner : Busy(r)' /\ Busy(s)' => r = s
  BY <1>1 DEF ReceiptInv, Busy
<1>. QED BY <1>1, <1>3, <1>5, <1>6, <1>8, <1>9, <1>10 DEF ReceiptInv

\* The environment and stuttering leave everything the invariant reads.
LEMMA InvRest ==
  ASSUME ReceiptInv, Drift \/ UNCHANGED vars
  PROVE  ReceiptInv'
<1>1. /\ UNCHANGED <<receipt, published, run, truth, spent, crashed, started>>
      /\ sound' \in BOOLEAN /\ drifts' \in Nat /\ TypeOK
  <2>1. TypeOK
    BY DEF ReceiptInv
  <2>2. CASE Drift
    BY <2>1, <2>2 DEF Drift, TypeOK
  <2>3. CASE UNCHANGED vars
    BY <2>1, <2>3 DEF vars, history, TypeOK
  <2>. QED BY <2>1, <2>2, <2>3
<1>2. TypeOK'
  BY <1>1 DEF TypeOK
<1>3. FailClosed' /\ Unique(receipt)'
      /\ (receipt.remaining > 0 => Settled(receipt) /\ spent + receipt.remaining <= Total)'
      /\ (Settled(receipt) => Honest(receipt, Phase))'
  BY <1>1 DEF ReceiptInv, FailClosed, Unique, Settled, Honest, Left
<1>4. NeverRejected'
  BY <1>1 DEF ReceiptInv, NeverRejected, LockFree
<1>5. \A q, s \in Runner : Busy(q)' /\ Busy(s)' => q = s
  BY <1>1 DEF Busy, ReceiptInv
<1>6. ASSUME NEW s \in Runner
      PROVE  /\ (run[s].pc = "reserving" => ReservingOK(s))'
             /\ (run[s].pc = "running" => HeldOK(s, receipt) /\ spent + run[s].reserved <= Total)'
             /\ (run[s].pc = "finished" => HeldOK(s, receipt) /\ FinishedOK(s))'
             /\ (run[s].pc = "updating" => UpdatingOK(s))'
  BY <1>1 DEF ReceiptInv, ReservingOK, HeldOK, FinishedOK, UpdatingOK, Honest, Others
<1>. QED BY <1>2, <1>3, <1>4, <1>5, <1>6 DEF ReceiptInv

LEMMA InvInit == Init => ReceiptInv
<1>. SUFFICES ASSUME Init PROVE ReceiptInv
  OBVIOUS
<1>1. \A r \in Runner : run[r] = Idle /\ run[r].pc = "idle"
  BY IdleType DEF Init
<1>2. TypeOK
  <2>1. receipt \in Receipt
    BY ReceiptAssumption DEF Init, Receipt, States
  <2>. QED BY <2>1, IdleType DEF Init, TypeOK
<1>3. WellFormed(receipt) /\ FailClosed
  <2>1. {receipt.state[q] : q \in Repo} = {"discovered"}
    BY ReceiptAssumption DEF Init
  <2>2. Derived(receipt.state) = "discovered"
    BY <2>1 DEF Derived
  <2>. QED BY <2>2 DEF Init, WellFormed, FailClosed
<1>4. /\ Unique(receipt) /\ Honest(receipt, Phase)
      /\ Settled(receipt) /\ spent + receipt.remaining <= Total
  BY ReceiptAssumption DEF Init, Unique, Honest, Settled, Left
<1>. QED BY <1>1, <1>2, <1>3, <1>4 DEF ReceiptInv, NeverRejected, Busy

\* The invariant is inductive.
LEMMA InvNext == ReceiptInv /\ [Next]_vars => ReceiptInv'
<1>. SUFFICES ASSUME ReceiptInv, [Next]_vars PROVE ReceiptInv'
  OBVIOUS
<1>1. ASSUME NEW r \in Runner, RunPhase(r) PROVE ReceiptInv'
  BY <1>1, InvRead, InvReserve, InvReserveReadBack, InvJobsDone, InvUpdate, InvUpdateReadBack,
     InvAbandon DEF RunPhase
<1>2. ASSUME NEW q \in Repo, NEW to \in States, NEW evidence \in BOOLEAN,
             Transition(q, to, evidence)
      PROVE  ReceiptInv'
  BY <1>2, InvTransition
<1>3. CASE Drift \/ UNCHANGED vars
  BY <1>3, InvRest
<1>. QED BY <1>1, <1>2, <1>3 DEF Next
-------------------------------------------------------------------------------
\* The theorems

\* The invariant of ReceiptInvariant holds in every reachable state.
THEOREM ReceiptInvariance == Spec => []ReceiptInv
BY InvInit, InvNext, PTL DEF Spec

\* Receipt, memory and history are well typed.
THEOREM ReceiptTyped == Spec => []TypeOK
<1>1. ReceiptInv => TypeOK
  BY DEF ReceiptInv
<1>. QED BY <1>1, ReceiptInvariance, PTL

\* No receipt says "validated" or "adopted" unless the last run of every required
\* phase really passed (the terminal validator against runs outside the lock).
THEOREM OnlyTruePasses == Spec => []FailClosed
<1>1. ReceiptInv => FailClosed
  BY DEF ReceiptInv
<1>. QED BY <1>1, ReceiptInvariance, PTL

\* No two runners run phases of one receipt at once (_reserve_validation_budget).
THEOREM RunsExclusive == Spec => []ExclusiveRun
<1>1. ReceiptInv => ExclusiveRun
  BY DEF ReceiptInv, ExclusiveRun, Running, Busy
<1>. QED BY <1>1, ReceiptInvariance, PTL

\* The time granted never exceeds the total (_write_receipt_update's accounting).
THEOREM BudgetKept == Spec => []BudgetCap
<1>1. ReceiptInv => BudgetCap
  BY DEF ReceiptInv, BudgetCap
<1>. QED BY <1>1, ReceiptInvariance, PTL

\* Without a crash between a write and its read-back, the validator accepts the
\* receipt whenever the lock is free.
THEOREM AlwaysAccepted == Spec => []NeverRejected
<1>1. ReceiptInv => NeverRejected
  BY DEF ReceiptInv
<1>. QED BY <1>1, ReceiptInvariance, PTL

\* An adopted receipt never changes again: every writer validates it first and is
\* refused, and no write is in progress when a receipt becomes adopted.
THEOREM AdoptedForever == Spec => AdoptedFrozen
<1>. DEFINE Frozen == receipt.current = "adopted" => UNCHANGED receipt
<1>1. ReceiptInv /\ [Next]_vars => Frozen
  <2>. SUFFICES ASSUME ReceiptInv, [Next]_vars, receipt.current = "adopted"
                PROVE  receipt' = receipt
    OBVIOUS
  <2>1. ASSUME NEW r \in Runner, RunPhase(r) PROVE receipt' = receipt
    <3>1. run[r].pc = "reserving" => receipt.current # "adopted"
      BY Facts DEF ReceiptInv, ReservingOK, Reserved, Receipt
    <3>2. run[r].pc = "updating" => receipt.current # "adopted"
      <4>. SUFFICES ASSUME run[r].pc = "updating" PROVE receipt.current # "adopted"
        OBVIOUS
      <4>. DEFINE d == run[r].saved
      <4>1. UpdatingOK(r)
        BY DEF ReceiptInv
      <4>2. d.current # "adopted" /\ receipt = Updated(d, run[r])
        BY <4>1 DEF UpdatingOK, HeldOK, Accepting
      <4>3. Updated(d, run[r]).current \in {d.current, "blocked"}
        BY DEF Updated
      <4>. QED BY <4>2, <4>3
    <3>. QED BY <2>1, <3>1, <3>2 DEF RunPhase, ReadDocument, ReadDigest, Reserve, ReserveReadBack,
             JobsDone, Update, UpdateReadBack, Abandon, Expected, Valid
  <2>2. ASSUME NEW q \in Repo, NEW to \in States, NEW evidence \in BOOLEAN,
               Transition(q, to, evidence)
        PROVE  receipt' = receipt
    BY <2>2 DEF Transition, Valid
  <2>3. CASE Drift \/ UNCHANGED vars
    BY <2>3 DEF Drift, vars
  <2>. QED BY <2>1, <2>2, <2>3 DEF Next
<1>. QED BY <1>1, ReceiptInvariance, PTL DEF Spec, AdoptedFrozen
=============================================================================
