\* The deadlock at the end is the bound on calls.
CONSTANTS
  Process = {p1, p2}
  Rollout = {r1, r2}
  Initial = r1
  p1 = p1
  p2 = p2
  r1 = r1
  r2 = r2
  Nothing = Nothing
  Legacy = Legacy
  MaxAudit = 2
  MaxReceipt = 2
  MaxCall = 3
SPECIFICATION Spec
SYMMETRY Symmetric
INVARIANTS RowsBacked LedgerAgrees Finishable
PROPERTIES HistoryKept
CHECK_DEADLOCK FALSE
