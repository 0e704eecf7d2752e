SPECIFICATION Spec
CONSTANTS
  Process = {p1, p2}
  Value = {v1, v2}
  p1 = p1
  p2 = p2
  v1 = v1
  v2 = v2
  Nothing = Nothing
  MaxCall = 5
  MaxEdit = 1
  MaxCrash = 1
  MaxRecord = 2
  Last = 3
  Jobs <- MCJobs
SYMMETRY Symmetric
INVARIANTS Recorded EvidenceBacked Chained
PROPERTIES VerdictLasts
CHECK_DEADLOCK FALSE
