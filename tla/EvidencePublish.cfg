SPECIFICATION Spec
CONSTANTS
  Process = {p1, p2}
  Base = base
  Revision = {r1}
  Receipt = receiptName
  File = {f1, f2}
  Bytes = {a, b}
  Dir = {d1, d2, d3, d4, d5}
  Temp = {t1, t2, t3}
  Nothing = nothing
  MaxCall = 3
  MaxCrash = 1
  MaxLoss = 1
INVARIANTS EvidenceInv Confirmed NothingLeft
PROPERTIES ImplementsWriteOnce
SYMMETRY Symmetric
CHECK_DEADLOCK FALSE
